----------------------------- MODULE MCAnalysis -----------------------------
(* TLC instance of AnalysisWork: two requests, two keys, three workers, a   *)
(* volume of eight units and two players.                                   *)
EXTENDS AnalysisWork, TLC

\* Keys and fingerprints are told apart by the empty record, so they are not interchangeable.
Symmetry == Permutations(Requests)
=============================================================================
