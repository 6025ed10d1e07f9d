------------------------ MODULE MCExperimentBatch ------------------------
(* Small instances of ExperimentBatch for TLC. *)
EXTENDS ExperimentPublication, TLC

CONSTANTS c1, c2, c3, p1, p2  \* plan digests

\* Every run executes the same plan: a batch that is run again.
SamePlan == [r \in Run |-> p1]

\* Every run executes a plan of its own.
FreshPlans == [r \in Run |-> IF r = 1 THEN p1 ELSE p2]

CellSymmetry == Permutations(Cell)
=============================================================================
