---------------------------- MODULE MCHealthLoop ----------------------------
(* The health loop with its history. *)
EXTENDS HealthLoopHistory, HealthInstances

=============================================================================
