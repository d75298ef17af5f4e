------------------------- MODULE MCKnowledgePublish -------------------------
(* The instances of kb_service and kb_gap give every constant in the .cfg. *)
EXTENDS KnowledgePublish
==============================================================================
