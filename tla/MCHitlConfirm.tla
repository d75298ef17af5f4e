--------------------------- MODULE MCHitlConfirm ---------------------------
(***************************************************************************)
(* Instances of HitlConfirm for TLC.                                       *)
(***************************************************************************)
EXTENDS HitlConfirm, TLC

\* Proposals are only ever compared for equality.
ProposalSymmetry == Permutations(Proposals)
=============================================================================
