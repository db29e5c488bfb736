---------------------------- MODULE MCMatchMedia ----------------------------
(* TLC instances of MatchMedia. *)
EXTENDS MatchMedia, TLC

\* Processes and versions are interchangeable: nothing names one.
Symmetry == Permutations(Procs) \union Permutations(Videos) \union Permutations(Documents)

\* Bound: a lost lock is combined with other faults only in its last step.
DropsAlone == drops = 0 \/ (faults = 0 /\ crashes = 0)
=============================================================================
