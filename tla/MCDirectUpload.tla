--------------------------- MODULE MCDirectUpload ---------------------------
(* TLC instances of DirectUpload. *)
EXTENDS DirectUpload, TLC

\* Sessions, processes and contents are interchangeable: nothing names one.
Symmetry == Permutations(Sessions) \union Permutations(Procs) \union Permutations(Contents)
=============================================================================
