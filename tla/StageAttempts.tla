---------------------------- MODULE StageAttempts ---------------------------
(***************************************************************************)
(* The attempts of one optional stage of an analysis (stage executions in  *)
(* src/app/persistence/service.py) and the worker that runs the shadow     *)
(* ball stage (src/app/services/ball_tracking/shadow.py): it starts an      *)
(* attempt, computes, registers its artifacts and completes it, or fails   *)
(* it.  A recovery process marks attempts stale, and the deletion of the   *)
(* match cancels them.                                                     *)
(*                                                                         *)
(* Starting takes the lock of the analysis.  A transition is one           *)
(* conditional update.  Registration checks the attempt, without a lock,   *)
(* before it writes: two actions.                                          *)
(***************************************************************************)
EXTENDS Naturals, Sequences

CONSTANTS
    Workers,
    MaxAttempts,   \* bound: attempts
    Configured     \* BALL_TRACKING_ENABLED

StageAssumption == MaxAttempts \in Nat \ {0} /\ Configured \in BOOLEAN

VARIABLES
    live,       \* Analysis.lifecycle_state is live
    attempts,   \* AnalysisStageExecution rows in order of attempt_number
    outputs,    \* attempts whose output_artifact_references are set
    current,    \* attempts whose artifacts are registered with is_current
    pc, job     \* of each worker: step; attempt and row version it was given

vars == <<live, attempts, outputs, current, pc, job>>

Active  == {"queued", "processing"}
Ended   == {"completed", "failed", "cancelled", "stale", "unavailable"}
Attempt == [state : Active \union Ended, version : Nat \ {0}]
NoJob   == [attempt |-> 0, version |-> 0]

TypeOK ==
    /\ live \in BOOLEAN
    /\ attempts \in Seq(Attempt) /\ Len(attempts) <= MaxAttempts
    /\ outputs \subseteq DOMAIN attempts /\ current \subseteq DOMAIN attempts
    /\ pc \in [Workers -> {"idle", "run", "register", "complete", "fail"}]
    /\ job \in [Workers -> [attempt : 0..MaxAttempts, version : Nat]]

Init ==
    /\ live = TRUE /\ attempts = <<>> /\ outputs = {} /\ current = {}
    /\ pc = [w \in Workers |-> "idle"] /\ job = [w \in Workers |-> NoJob]

-----------------------------------------------------------------------------
Mine(w)       == job[w].attempt
Goto(w, step) == pc' = [pc EXCEPT ![w] = step] /\ UNCHANGED job
Return(w)     == /\ pc' = [pc EXCEPT ![w] = "idle"] /\ job' = [job EXCEPT ![w] = NoJob]

Allowed == [s \in Active \union Ended |->
    CASE s = "queued"     -> {"processing", "cancelled", "unavailable"}
      [] s = "processing" -> {"completed", "failed", "cancelled", "stale", "unavailable"}
      [] OTHER            -> {}]

\* transition_stage_execution: the update finds the row in the state that was
\* read and in the version the caller expects.
Permitted_VersionOnly(a, v, new) == attempts[a].version = v
Permitted(a, v, new) == new \in Allowed[attempts[a].state] /\ attempts[a].version = v

\* A completed attempt retires the artifacts of all others.
Promoted(a) == current \intersect {a}
Transition(a, v, new) ==
    /\ Permitted(a, v, new)
    /\ attempts' = [attempts EXCEPT ![a] = [state |-> new, version |-> v + 1]]
    /\ current' = IF new = "completed" THEN Promoted(a) ELSE current

-----------------------------------------------------------------------------
\* start_stage_execution answers with the active attempt, if there is one; the
\* worker runs only an attempt it created.
ActiveAttempts == {a \in DOMAIN attempts : attempts[a].state \in Active}

Start(w) ==
    /\ pc[w] = "idle" /\ Configured /\ live /\ ActiveAttempts = {}
    /\ Len(attempts) < MaxAttempts
    /\ attempts' = Append(attempts, [state |-> "processing", version |-> 1])
    /\ pc' = [pc EXCEPT ![w] = "run"]
    /\ job' = [job EXCEPT ![w] = [attempt |-> Len(attempts) + 1, version |-> 1]]
    /\ UNCHANGED <<live, outputs, current>>

\* The pipeline writes under the attempt's own prefix, or fails.
Run(w) ==
    /\ pc[w] = "run" /\ \E step \in {"register", "fail"} : Goto(w, step)
    /\ UNCHANGED <<live, attempts, outputs, current>>

\* register_stage_artifacts reads the attempt ...
RegisterRead(w) ==
    /\ pc[w] = "register"
    /\ Goto(w, IF attempts[Mine(w)].state \in Active THEN "complete" ELSE "fail")
    /\ UNCHANGED <<live, attempts, outputs, current>>

\* ... and adds its artifacts, unless the match was deleted.
Register(w) ==
    /\ pc[w] = "complete" /\ Mine(w) \notin outputs
    /\ IF live THEN /\ outputs' = outputs \union {Mine(w)}
                    /\ current' = current \union {Mine(w)} /\ UNCHANGED <<pc, job>>
               ELSE Goto(w, "fail") /\ UNCHANGED <<outputs, current>>
    /\ UNCHANGED <<live, attempts>>

Complete(w) ==
    /\ pc[w] = "complete" /\ Mine(w) \in outputs
    /\ IF Permitted(Mine(w), job[w].version, "completed")
       THEN Transition(Mine(w), job[w].version, "completed") /\ Return(w)
       ELSE Goto(w, "fail") /\ UNCHANGED <<attempts, current>>
    /\ UNCHANGED <<live, outputs>>

\* Any error: the attempt is failed, if it may still be.
Fail(w) ==
    /\ pc[w] = "fail" /\ Return(w)
    /\ \/ Transition(Mine(w), job[w].version, "failed")
       \/ ~Permitted(Mine(w), job[w].version, "failed") /\ UNCHANGED <<attempts, current>>
    /\ UNCHANGED <<live, outputs>>

\* A worker that dies leaves its attempt active.
Die(w) == pc[w] # "idle" /\ Return(w) /\ UNCHANGED <<live, attempts, outputs, current>>

\* Recovery or an operator ends an attempt on the version it reads.
Retire ==
    /\ \E a \in DOMAIN attempts, new \in {"stale", "cancelled", "unavailable"} :
          Transition(a, attempts[a].version, new)
    /\ UNCHANGED <<live, outputs, pc, job>>

\* The claim of a deletion cancels active attempts and leaves their versions.
Delete ==
    /\ live /\ live' = FALSE
    /\ attempts' = [a \in DOMAIN attempts |-> IF a \in ActiveAttempts
                        THEN [attempts[a] EXCEPT !.state = "cancelled"] ELSE attempts[a]]
    /\ UNCHANGED <<outputs, current, pc, job>>

Next ==
    \/ \E w \in Workers : \/ Start(w) \/ Run(w) \/ RegisterRead(w) \/ Register(w)
                          \/ Complete(w) \/ Fail(w) \/ Die(w)
    \/ Retire \/ Delete

Spec == Init /\ [][Next]_vars

-----------------------------------------------------------------------------
(* Properties.                                                              *)

\* A rerun begins after all earlier attempts ended, and an attempt that ended
\* keeps its outcome when its worker, recovery and a deletion end it at once.
AttemptsEndOnce ==
    [][ \A a \in DOMAIN attempts : attempts[a].state \in Ended =>
            /\ a \in DOMAIN attempts' /\ attempts'[a].state = attempts[a].state ]_vars
RerunFollows == \A a \in 1..(Len(attempts) - 1) : attempts[a].state \in Ended

\* The evidence of the newest completed attempt stays offered whatever later
\* attempts do short of completing.
CompletedEvidenceKept ==
    \A a \in outputs : attempts[a].state = "completed" =>
        \/ a \in current
        \/ \E b \in DOMAIN attempts : b > a /\ attempts[b].state = "completed"

\* BALL_EVIDENCE_FOUNDATION.md: "Completing a newer attempt promotes its
\* outputs and marks earlier attempt outputs historical".
NewerRetiresEarlier ==
    \A a \in current, b \in DOMAIN attempts : attempts[b].state = "completed" => b <= a
=============================================================================
