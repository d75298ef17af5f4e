--------------------------- MODULE MCEmployeeCard ---------------------------
(***************************************************************************)
(* Instances of EmployeeCard for TLC.                                      *)
(***************************************************************************)
EXTENDS EmployeeCard
=============================================================================
