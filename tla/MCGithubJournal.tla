------------------------- MODULE MCGithubJournal -------------------------
(* Small instances of GithubJournal for TLC. *)
EXTENDS GithubJournal, TLC

CONSTANTS w1, w2, r1, r2, r3

ProcessSymmetry == Permutations(Process)
=============================================================================
