-------------------------- MODULE MCFollowUpRefresh --------------------------
(* The first follow-up says "a" of the field, both together say "b".       *)
EXTENDS FollowUpRefresh

MCSays == <<"a", "b">>
==============================================================================
