------------------------------ MODULE RagRank ------------------------------
(***************************************************************************)
(* The ranking half of rag/pipeline.py and LLMGateway.rerank: the dense    *)
(* and the sparse ranking are fused, hits with a low dense rank dropped,   *)
(* the rest put in the order the model names and the first of them, as far *)
(* as the budget goes, cited.  A chunk is a number; positions count from   *)
(* 1, the ranks and indices of the code from 0.  A dense score is          *)
(* 1 - 0.05 * rank, so the thresholds are bounds on positions.             *)
(***************************************************************************)
EXTENDS Naturals, Sequences, SequencesExt

CONSTANTS LastDirect,  \* last dense position with score >= SCORE_DIRECT (9)
          LastHedged,  \* last one with score >= SCORE_HEDGED (14)
          LastKept,    \* last one with score >= SCORE_DROP (16)
          MaxChunks,   \* INJECT_MAX_CHUNKS (5)
          MaxChars,    \* INJECT_MAX_CHARS (1200)
          Length,      \* characters of each chunk in the knowledge zone
          HedgeChars   \* characters of the remark behind a hedged one

ASSUME BudgetAssumption == MaxChunks \in Nat /\ MaxChars \in Nat /\ HedgeChars \in Nat

Position(seq, x) == CHOOSE n \in DOMAIN seq : seq[n] = x

\* A 60th and the rank, for each ranking that has the chunk; 10^8 keeps apart what the
\* floats keep apart.
Rrf(dense, sparse, c) ==
    LET Share(seq) == IF c \in ToSet(seq) THEN 100000000 \div (60 + Position(seq, c)) ELSE 0
    IN  Share(dense) + Share(sparse)

\* A chunk the dense ranking has not got scores 0 and is dropped.  Equal scores keep the
\* order in which _rrf meets the chunks, the one of the dense ranking.
Ranked(dense, sparse) ==
    LET kept == {c \in ToSet(dense) : Position(dense, c) <= LastKept}
        Before(c, d) == \/ Rrf(dense, sparse, c) > Rrf(dense, sparse, d)
                        \/ /\ Rrf(dense, sparse, c) = Rrf(dense, sparse, d)
                           /\ Position(dense, c) < Position(dense, d)
    IN  CHOOSE o \in SetToSeqs(kept) : \A m, n \in DOMAIN o : m < n => Before(o[m], o[n])

Hedged(dense, c) == Position(dense, c) \in (LastDirect + 1)..LastHedged

\* Mutant: an index that is named twice stays twice.
ReorderedTwice(hits, named) ==
    LET valid == SelectSeq(named, LAMBDA n : n \in DOMAIN hits)
        missing == SelectSeq([n \in DOMAIN hits |-> n], LAMBDA n : n \notin ToSet(valid))
        order == valid \o missing
    IN  [n \in 1..Min({Len(order), Len(hits)}) |-> hits[order[n]]]

Ascending(S) == CHOOSE o \in SetToSeqs(S) : \A m, n \in DOMAIN o : m < n => o[m] < o[n]

\* The model's indices without repetitions and without the ones out of range, then the rest.
Reordered(hits, named) ==
    LET first == Ascending({n \in DOMAIN named : named[n] \in DOMAIN hits /\ \A m \in 1..(n - 1) : named[m] # named[n]})
        order == [n \in DOMAIN first |-> named[first[n]]] \o Ascending(DOMAIN hits \ ToSet(named))
    IN  [n \in DOMAIN hits |-> hits[order[n]]]

\* What a chunk adds to the knowledge zone, and what the first n hits add together.
Part(dense, c) == Length[c] + IF Hedged(dense, c) THEN HedgeChars ELSE 0

Chars(dense, hits, n) ==
    LET upTo[k \in 0..Len(hits)] == IF k = 0 THEN 0 ELSE upTo[k - 1] + Part(dense, hits[k])
    IN  upTo[n]

\* The loop of _inject: a hit is cited, labelled with its place, or it ends the loop.
Start == [cited |-> <<>>, used |-> 0, open |-> TRUE]
Cites(s, dense, n, c) ==
    [s EXCEPT !.cited = Append(@, [label |-> n, chunk |-> c]), !.used = @ + Part(dense, c)]

\* Mutant: a chunk that does not fit is skipped and a later one cited with its own label.
InjectedSkipping(dense, hits) ==
    LET top == Min({MaxChunks, Len(hits)})
        after[n \in 0..top] ==
            IF n = 0 THEN Start
            ELSE IF after[n - 1].used + Part(dense, hits[n]) <= MaxChars
                 THEN Cites(after[n - 1], dense, n, hits[n])
                 ELSE after[n - 1]
    IN  after[top].cited

Injected(dense, hits) ==
    LET top == Min({MaxChunks, Len(hits)})
        after[n \in 0..top] ==
            IF n = 0 THEN Start
            ELSE IF after[n - 1].open /\ after[n - 1].used + Part(dense, hits[n]) <= MaxChars
                 THEN Cites(after[n - 1], dense, n, hits[n])
                 ELSE [after[n - 1] EXCEPT !.open = FALSE]
    IN  after[top].cited
=============================================================================
