----------------------------- MODULE MCSuiteWork -----------------------------
(* An instance of SuiteWork for TLC. *)
EXTENDS SuiteWork
=============================================================================
