------------------------------ MODULE MCVMWatch ------------------------------
(* Small instances of the VMWatch supervision for TLC. *)
EXTENDS VMWatch

=============================================================================
