--------------------------- MODULE MCSandboxOwner ---------------------------
(***************************************************************************)
(* TLC instances of SandboxOwner.                                          *)
(***************************************************************************)
EXTENDS SandboxOwner, TLC

Symmetry == Permutations(Sandboxes)
=============================================================================
