----------------------------- MODULE Decisions -----------------------------
(***************************************************************************)
(* What the agent computes while its event loop is held: the route of a    *)
(* message (IntentFusion), the citations of a retrieval (RagRank) and one  *)
(* request to the model with its retries (ai/gateway.py).  One job at a    *)
(* time; the inputs of a job are whatever a user, a knowledge base and a   *)
(* provider can produce.                                                   *)
(***************************************************************************)
EXTENDS IntentFusion, RagRank

CONSTANTS Keys,        \* keywords
          Embs,        \* scores of the sample library: [DOMAIN Catalog -> 0..100]
          Raised,      \* scores of the longer text
          Confs,       \* confidences of the model
          Chunks,      \* chunks of one domain
          MaxNamed,    \* bound: indices in an answer of the reranking model
          MaxRetries   \* SALE_LLM_MAX_RETRIES

\* Scores and confidences are between 0 and 1 (embedding.py:68, llm.py:59).
ASSUME DecisionsAssumption ==
    /\ MaxRetries \in Int /\ Confs \subseteq 0..100
    /\ Embs \subseteq [DOMAIN Catalog -> 0..100] /\ Raised \subseteq [DOMAIN Catalog -> 0..100]
    /\ Chunks \subseteq Nat /\ IsFiniteSet(Chunks) /\ \A c \in Chunks : Length[c] \in Nat

VARIABLE job

Idle == [kind |-> "idle"]
Init == job = Idle

OneKey == {{}} \cup {{k} : k \in Keys}
Questions ==
    [menu : {None} \cup DOMAIN Catalog, keys : OneKey, vague : BOOLEAN, history : OneKey, emb : Embs, more : Raised,
     llm : [intent : Names, conf : Confs] \cup {[intent |-> None]}, sticky : {None, "unknown"} \cup Names]

Question == CHOOSE q \in Questions :
    ~q.vague /\ q.menu = None /\ q.sticky = None /\ q.llm.intent = None /\ q.keys = {} /\ q.history = {}

Ask ==
    /\ job = Idle
    /\ \E q \in Questions :
         /\ q.menu # None => q = [Question EXCEPT !.menu = q.menu]    \* nothing else is looked at
         /\ ~q.vague => q.history = {} /\ q.more = Question.more
         /\ \E d \in Route(q) : job' = [kind |-> "routed", q |-> q, decision |-> d]

-----------------------------------------------------------------------------
(* retrieve: fuse and filter, let the model reorder, cite.                 *)

Rankings == UNION {SetToSeqs(S) : S \in SUBSET Chunks}

Retrieve ==
    /\ job = Idle
    /\ \E dense, sparse \in Rankings :
          job' = [kind |-> "ranked", dense |-> dense, ranked |-> Ranked(dense, sparse)]

\* The model names indices, from 0 in the code, or the order stays (echo mode, no hits,
\* a failed call).
Rerank ==
    /\ job.kind = "ranked"
    /\ \E named \in BoundedSeq(0..Cardinality(Chunks), MaxNamed) :
         LET hits == Reordered(job.ranked, named)
         IN  job' = [kind |-> "cited", dense |-> job.dense, ranked |-> job.ranked, hits |-> hits,
                     cited |-> Injected(job.dense, hits)]

-----------------------------------------------------------------------------
(* LLMGateway._post_with_retry and its callers.                            *)

Attempts == Max({1, MaxRetries + 1})

\* A status 429 or 5xx, a time-out, a refused connection; another status from 400 on, a
\* connection that breaks, an answer that is no JSON; an answer; one that lacks the data.
Answers == {"transient", "refused", "ok", "hollow"}

Call ==
    /\ job = Idle
    /\ \E sort \in {"chat", "embed"} :
          job' = [kind |-> "post", sort |-> sort, seen |-> <<>>, recorded |-> 0]

\* Mutant: the last attempt is not one.
PostOneMore(answer) ==
    /\ job.kind = "post"
    /\ job' = [job EXCEPT
          !.seen = Append(@, answer),
          !.recorded = IF answer = "ok" /\ job.sort = "chat" THEN @ + 1 ELSE @,
          !.kind = CASE answer = "ok" -> "answered"
                     [] answer = "transient" /\ Len(job.seen) < Attempts -> "post"
                     [] OTHER -> "failed"]

\* Mutant: a new connection counts from zero.
PostForgets(answer) ==
    /\ job.kind = "post"
    /\ job' = [job EXCEPT
          !.seen = IF answer = "transient" /\ @ # <<>> THEN <<>> ELSE Append(@, answer),
          !.recorded = IF answer = "ok" /\ job.sort = "chat" THEN @ + 1 ELSE @,
          !.kind = CASE answer = "ok" -> "answered"
                     [] answer = "transient" /\ Len(job.seen) + 1 < Attempts -> "post"
                     [] OTHER -> "failed"]

\* The ledger gets an answer of a chat, not of an embedding.
Post(answer) ==
    /\ job.kind = "post"
    /\ job' = [job EXCEPT
          !.seen = Append(@, answer),
          !.recorded = IF answer = "ok" /\ job.sort = "chat" THEN @ + 1 ELSE @,
          !.kind = CASE answer = "ok" -> "answered"
                     [] answer = "transient" /\ Len(job.seen) + 1 < Attempts -> "post"
                     [] OTHER -> "failed"]

Return ==
    /\ job.kind \in {"routed", "cited", "answered", "failed"}
    /\ job' = Idle

Compute == Rerank \/ (\E answer \in Answers : Post(answer)) \/ Return
Next == Ask \/ Retrieve \/ Call \/ Compute

\* The event loop goes on with what it has begun.
Spec == Init /\ [][Next]_job /\ WF_job(Compute)

-----------------------------------------------------------------------------
(* Properties                                                              *)

Routed == job.kind = "routed"

\* An intent with the usual threshold is entered directly only when two classifiers
\* stand for it, the model one of them: neither one score nor a context that repeats
\* itself is enough, and a made-up intent never is (fusion.py weights and thresholds).
TwoVoices ==
    (Routed /\ job.decision.path = "FUSED" /\ Threshold(job.decision.primary) >= 7000) =>
        LET i == job.decision.primary
        IN  i = job.q.llm.intent /\ i \in DOMAIN Catalog /\ (Emb(job.q)[i] > 0 \/ Hint(job.q) = i)

\* The last intent of the session decides only near ties: where the decision differs
\* from the one without it, it wins itself or spoils the answer (a higher threshold),
\* and by its bonus at most (fusion.py:21).
StickyBreaksTies ==
    (Routed /\ job.q.sticky # None) =>
        \E plain \in Route([job.q EXCEPT !.sticky = None]) :
            /\ job.decision.score - plain.score \in 0..Sticky
            /\ job.decision.primary \in {plain.primary, job.q.sticky, "unknown"}

\* Whatever the model says, reordering loses no hit and doubles none.
RerankLosesNothing ==
    job.kind = "cited" => /\ ToSet(job.hits) = ToSet(job.ranked)
                          /\ Len(job.hits) = Len(job.ranked)

\* Where the loop of _inject stops, the citations are the first hits, each labelled with
\* its place, so that citation n and hit n are the same chunk where coach/subgraph.py:161
\* puts them together; they keep both budgets, and one more hit would have broken one.
CitedIsPrefix ==
    job.kind = "cited" =>
        LET n == Len(job.cited)
        IN  /\ n <= Len(job.hits) /\ n <= MaxChunks
            /\ \A k \in 1..n : job.cited[k] = [label |-> k, chunk |-> job.hits[k]]
            /\ Chars(job.dense, job.hits, n) <= MaxChars
            /\ n < Min({MaxChunks, Len(job.hits)}) => Chars(job.dense, job.hits, n + 1) > MaxChars

\* Only what may pass is tried again, as often as configured and at least once; a
\* request that failed for such a reason used all its attempts.  The ledger has one record
\* of an answered chat, none of anything else.
RetriesAreTransient ==
    job.kind \in {"post", "answered", "failed"} =>
        LET n == Len(job.seen)
        IN  /\ n <= Attempts
            /\ \A k \in 1..(n - 1) : job.seen[k] = "transient"
            /\ job.kind = "failed" /\ job.seen[n] = "transient" => n = Attempts
            /\ job.recorded = IF job.kind = "answered" /\ job.sort = "chat" THEN 1 ELSE 0

\* No provider keeps the event loop for ever.
EveryJobEnds == job # Idle ~> job = Idle
=============================================================================
