----------------------------- MODULE RunPromise -----------------------------
(***************************************************************************)
(* What an analysis promises about its runs: one at a time, a run that      *)
(* ended never changes again, the result is the last run that completed,   *)
(* and once the match is deleted nothing runs.                             *)
(***************************************************************************)
EXTENDS Naturals, Sequences

VARIABLES
    ended,    \* outcomes of the ended runs, oldest first
    running,  \* a run is queued or processing
    result,   \* the run whose result is shown; 0 is none
    closed    \* the match is deleted

promiseVars == <<ended, running, result, closed>>

Init == ended = <<>> /\ running = TRUE /\ result = 0 /\ closed = FALSE

Start == ~running /\ ~closed /\ running' = TRUE /\ UNCHANGED <<ended, result, closed>>

End(outcome) ==
    /\ running /\ running' = FALSE
    /\ ended' = Append(ended, outcome)
    /\ result' = IF outcome = "completed" THEN Len(ended) + 1 ELSE result
    /\ UNCHANGED closed

Delete ==
    /\ ~closed /\ closed' = TRUE /\ UNCHANGED result
    /\ ended' = (IF running THEN Append(ended, "cancelled") ELSE ended)
    /\ running' = FALSE

Next ==
    \/ Start \/ Delete
    \/ \E outcome \in {"completed", "failed", "cancelled", "stale"} : End(outcome)

Spec == Init /\ [][Next]_promiseVars
=============================================================================
