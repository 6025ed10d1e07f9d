-------------------------- MODULE MCManagedSandbox --------------------------
(* An instance of ManagedSandbox for TLC. *)
EXTENDS ManagedSandbox
=============================================================================
