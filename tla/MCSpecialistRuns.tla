-------------------------- MODULE MCSpecialistRuns --------------------------
(***************************************************************************)
(* Values of the constants of SpecialistRuns for TLC.                      *)
(***************************************************************************)
EXTENDS SpecialistRuns, TLC

CONSTANTS a1, a2, a3

MCAttempts == [d \in Dependencies |->
                 IF d \in {"tiger-cost", "tiger-retrieval"} THEN 2 ELSE 1]

MCSymmetry == Permutations(Callers)
=============================================================================
