---------------------------- MODULE ActiveVersion ----------------------------
(***************************************************************************)
(* What a user of the knowledge base is promised: every source shows one   *)
(* set of documents, and it is replaced in one step, by newer ones.        *)
(***************************************************************************)
EXTENDS Naturals

CONSTANTS Sources, \* (domain, source) pairs
          MaxDocs  \* bound on the documents

VARIABLE shown     \* the documents a search of the source can return

Init == shown = [s \in Sources |-> {}]

\* The switch is atomic, leaves no gap and never returns to an older document.
Switch(s) ==
    \E new \in (SUBSET (1..MaxDocs)) \ {{}} :
        /\ \A n \in new, o \in shown[s] : n > o
        /\ shown' = [shown EXCEPT ![s] = new]

Next == \E s \in Sources : Switch(s)

Spec == Init /\ [][Next]_shown
==============================================================================
