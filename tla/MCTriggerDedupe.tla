--------------------------- MODULE MCTriggerDedupe ---------------------------
(* Instances of TriggerDedupe for TLC. *)
EXTENDS TriggerDedupe
=============================================================================
