--------------------------- MODULE MCGatewayCache ---------------------------
(***************************************************************************)
(* Instances of GatewayCache for TLC.                                      *)
(***************************************************************************)
EXTENDS GatewayCache, TLC

ShortTTL == [t \in Tools |-> 2]

\* Calls are only ever told apart by what they do.
CallSymmetry == Permutations(Calls)
=============================================================================
