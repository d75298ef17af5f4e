---------------------------- MODULE IntentFusion ----------------------------
(***************************************************************************)
(* intent/fusion.py with the classifiers it asks (rule.py, embedding.py,   *)
(* llm.py): how a message becomes a routing decision.  A question is what  *)
(* the classifiers see of a message: the keywords in it, the ones in the   *)
(* previous message of the user, the scores of the sample library, the     *)
(* answer of the model.  Scores are in hundredths (conf, emb) and in ten   *)
(* thousandths (fused).  Intents with equal scores keep the order of a set *)
(* of strings, which differs from process to process: Route gives the set  *)
(* of the decisions that are possible.                                     *)
(***************************************************************************)
EXTENDS Integers, Sequences, SequencesExt, FiniteSets

CONSTANTS Catalog,    \* intent |-> [agent, threshold], rows of intent_def
          Stranger,   \* an intent the model makes up
          Rules,      \* sequence of [key, intent, locked]: locked rules, then soft ones
          EmbTop      \* candidates the sample library proposes

None == "none"
Names == DOMAIN Catalog \cup {Stranger}

\* The rules name intents of the catalog (rule.py and schema.py).
ASSUME CatalogAssumption ==
    /\ IsFiniteSet(DOMAIN Catalog) /\ None \notin Names
    /\ \A i \in DOMAIN Catalog : Catalog[i].threshold \in Int
    /\ DOMAIN Rules \subseteq Nat /\ \A n \in DOMAIN Rules : Rules[n].intent \in DOMAIN Catalog
    /\ EmbTop \in Nat

Agreement == 500      \* BONUS_AGREE
Sticky == 500         \* CTX_BOOST
Margin == 1000        \* CLARIFY_MARGIN

Threshold(i) == IF i \in DOMAIN Catalog THEN Catalog[i].threshold ELSE 7000

Agents(primary, secondary) ==
    LET agent == IF primary \in DOMAIN Catalog THEN Catalog[primary].agent ELSE "orchestrator"
    IN  [agent |-> agent,
         help  |-> {Catalog[i].agent : i \in {secondary} \cap DOMAIN Catalog} \ {agent}]

Decision(path, primary, secondary, score) ==
    [path |-> path, primary |-> primary, secondary |-> secondary, score |-> score, agents |-> Agents(primary, secondary)]

\* The first rule in the order of the tables of which a keyword is in the text.
Classify(keys) ==
    LET hits == {n \in DOMAIN Rules : Rules[n].key \in keys}
    IN  IF hits = {} THEN None ELSE Rules[CHOOSE n \in hits : \A m \in hits : n <= m].intent

Locked(keys) == \E n \in DOMAIN Rules : Rules[n].key \in keys /\ Rules[n].locked

\* A vague message, short or with a deictic word, is classified behind the previous one.
Rewritten(q) == q.vague
Text(q) == IF Rewritten(q) THEN q.keys \cup q.history ELSE q.keys

\* The rule hit of the message stays unless it has none or the longer text locks.
Hint(q) ==
    IF Rewritten(q) /\ (Classify(q.keys) = None \/ Locked(Text(q))) THEN Classify(Text(q)) ELSE Classify(q.keys)

\* The longer text only raises scores.
Emb(q) ==
    [i \in DOMAIN Catalog |-> IF Rewritten(q) /\ q.more[i] > q.emb[i] THEN q.more[i] ELSE q.emb[i]]

\* The orders of S by falling score.
Orders(S, score) ==
    {o \in SetToSeqs(S) : \A m, n \in DOMAIN o : m < n => score[o[m]] >= score[o[n]]}

Top(emb) ==
    {SubSeq(o, 1, Min({EmbTop, Len(o)})) : o \in Orders({i \in DOMAIN emb : emb[i] > 0}, emb)}

\* _emb_fallback's and _fuse's common end: what the best score is worth.
Verdict(direct, order, score) ==
    LET primary == order[1]
        secondary == IF Len(order) > 1 THEN order[2] ELSE None
        short == Threshold(primary) - score[primary]
        path == IF short <= 0 THEN direct ELSE IF short <= Margin THEN "CLARIFY" ELSE "UNKNOWN"
    IN  [Decision(path,
                  IF path = "UNKNOWN" THEN "unknown" ELSE primary,
                  IF direct = "EMB_FALLBACK" /\ path # "CLARIFY" THEN None ELSE secondary,
                  score[primary]) EXCEPT !.agents = Agents(primary, secondary)]

\* Mutant: the bonus is taken for a score.
EmbFallbackBoost(q, emb) ==
    LET score == [i \in DOMAIN emb |-> 100 * emb[i] + IF i = q.sticky THEN 5000 ELSE 0]
    IN  UNION {IF top = <<>> THEN {Decision("UNKNOWN", "unknown", None, 0)}
               ELSE {Verdict("EMB_FALLBACK", o, score) : o \in Orders(ToSet(top), score)} : top \in Top(emb)}

\* The model does not answer (or there is none).  The code compares the matched keyword
\* with the intent, so that the bonus for an agreeing rule is never given.
EmbFallback(q, emb) ==
    LET score == [i \in DOMAIN emb |-> 100 * emb[i] + IF i = q.sticky THEN Sticky ELSE 0]
    IN  UNION {IF top = <<>> THEN {Decision("UNKNOWN", "unknown", None, 0)}
               ELSE {Verdict("EMB_FALLBACK", o, score) : o \in Orders(ToSet(top), score)} : top \in Top(emb)}

\* Mutant: the bonus for agreement is given without a look at the sample library.
FusedAlways(q, emb, top) ==
    [i \in {q.llm.intent} \cup ToSet(top) |->
          (IF i = q.llm.intent THEN 60 * q.llm.conf + Agreement ELSE 0)
        + (IF i \in DOMAIN emb THEN 30 * emb[i] ELSE 0)
        + (IF i = Hint(q) THEN 1000 ELSE 0)
        + (IF i = q.sticky THEN Sticky ELSE 0)]

\* 0.6 llm + 0.3 emb + 0.1 rule, and the two bonuses.
Fused(q, emb, top) ==
    [i \in {q.llm.intent} \cup ToSet(top) |->
          (IF i = q.llm.intent THEN 60 * q.llm.conf ELSE 0)
        + (IF i \in DOMAIN emb THEN 30 * emb[i] ELSE 0)
        + (IF i = Hint(q) THEN 1000 ELSE 0)
        + (IF top # <<>> /\ top[1] = i /\ i = q.llm.intent THEN Agreement ELSE 0)
        + (IF i = q.sticky THEN Sticky ELSE 0)]

Fuse(q, emb) ==
    UNION {LET score == Fused(q, emb, top)
           IN  {Verdict("FUSED", o, score) : o \in Orders(DOMAIN score, score)} : top \in Top(emb)}

Route(q) ==
    IF q.menu # None THEN {Decision("MENU", q.menu, None, 10000)}
    ELSE IF Locked(q.keys) THEN {Decision("RULE_LOCKED", Classify(q.keys), None, 9500)}
    ELSE IF Locked(Text(q)) THEN {Decision("RULE_LOCKED", Classify(Text(q)), None, 9500)}
    ELSE IF q.llm.intent = None THEN EmbFallback(q, Emb(q))
    ELSE Fuse(q, Emb(q))
=============================================================================
