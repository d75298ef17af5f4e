---------------------------- MODULE SectionPlan ----------------------------
(***************************************************************************)
(* What the run pipeline promises of each project directory, whatever the  *)
(* requests, pauses, cancellations, failures and restarts: sections are    *)
(* committed one at a time and in order, never beyond the last; the plan   *)
(* is complete only when every section is; nothing is taken back except by *)
(* starting the plan anew.                                                 *)
(***************************************************************************)
EXTENDS Naturals

CONSTANTS
  Dirs,
  MaxSections  \* the longest plan

VARIABLE plan  \* directory -> total (0: open-ended), committed, status

PlanInit ==
  plan = [d \in Dirs |-> [total |-> 0, done |-> {}, status |-> "open"]]

\* A run starts the plan of d from nothing.
Begin(d, n) ==
  plan' = [plan EXCEPT ![d] = [total |-> n, done |-> {}, status |-> "open"]]

\* The next section is committed.
CommitNext(d) ==
  \E n \in {0} \cup plan[d].done :
    /\ plan[d].status = "open"
    /\ plan[d].done = 1..n
    /\ plan[d].total > 0 => n < plan[d].total
    /\ plan' = [plan EXCEPT ![d].done = 1..(n + 1)]

\* The last section has been committed.
Complete(d) ==
  /\ plan[d].total > 0
  /\ plan[d].done = 1..plan[d].total
  /\ plan' = [plan EXCEPT ![d].status = "complete"]

PlanNext ==
  \E d \in Dirs :
    \/ \E n \in 0..MaxSections : Begin(d, n)
    \/ CommitNext(d)
    \/ Complete(d)

PlanSpec == PlanInit /\ [][PlanNext]_plan
=============================================================================
