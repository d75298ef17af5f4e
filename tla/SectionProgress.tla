-------------------------- MODULE SectionProgress --------------------------
(***************************************************************************)
(* The progress file of a project (sale_agent/store/progress.py) and the   *)
(* phase order that guards it (domain/transitions.py).  Each method of     *)
(* ProgressStore loads the file, changes it and replaces it atomically     *)
(* while it holds the lock, so it is an operator from progress to progress.*)
(***************************************************************************)
EXTENDS Naturals, FiniteSets

Phases == {"init", "planning", "generating", "complete"}

PhaseOrder == [init |-> 1, planning |-> 2, generating |-> 3, complete |-> 4]

CanTransition(from, to) == PhaseOrder[to] >= PhaseOrder[from]

\* total = 0: the project has no list of sections, and no last one.
Progress == [phase : Phases, total : Nat, done : SUBSET Nat, current : Nat]

InitProgress(total) ==
  [phase |-> "init", total |-> total, done |-> {}, current |-> 0]

NextSection(p) ==
  IF p.done = {} THEN 1
  ELSE 1 + CHOOSE s \in p.done : \A t \in p.done : t <= s

StartSection(p, s) == [p EXCEPT !.phase = "generating", !.current = s]

MarkSectionComplete(p, s) ==
  [p EXCEPT !.phase = "generating", !.current = 0, !.done = @ \cup {s}]

MarkComplete(p) == [p EXCEPT !.phase = "complete", !.current = 0]

AllDoneEarly(p) == p.total > 0 /\ Cardinality(p.done) + 1 >= p.total

\* len(completed) >= total, for a project that has a list of sections.
AllDone(p) == p.total > 0 /\ Cardinality(p.done) >= p.total
=============================================================================
