------------------------------- MODULE MCCtapTx -------------------------------
(* The instance of CtapTx for TLC. *)
EXTENDS CtapTx

=============================================================================
