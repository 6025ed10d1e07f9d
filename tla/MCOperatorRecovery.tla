------------------------- MODULE MCOperatorRecovery -------------------------
(* An instance of OperatorRecovery for TLC. *)
EXTENDS OperatorRecovery
=============================================================================
