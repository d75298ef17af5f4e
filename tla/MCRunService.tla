---------------------------- MODULE MCRunService ----------------------------
(***************************************************************************)
(* Instances of RunService for TLC.                                        *)
(***************************************************************************)
EXTENDS RunService, TLC

CONSTANT d1

\* Every run works in the directory of the one project.
SameDir == [r \in Runs |-> d1]

RunSymmetry == Permutations(Runs)
=============================================================================
