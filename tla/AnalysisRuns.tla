---------------------------- MODULE AnalysisRuns ----------------------------
(***************************************************************************)
(* The runs of one analysis (src/app/persistence/service.py): idempotent   *)
(* starts, transitions with row versions, the run part of persist_job, and *)
(* the deletion of the match.                                              *)
(*                                                                         *)
(* start_run reads the idempotency record before it locks the analysis and *)
(* recovers from a unique index in a second transaction.  transition_run   *)
(* updates and locks the run before it writes the analysis; every other    *)
(* transaction locks the analysis and then the run.  Where these two wait   *)
(* for each other PostgreSQL rolls one back: RollBack, or a transaction    *)
(* that did not happen.                                                    *)
(***************************************************************************)
EXTENDS Naturals, Sequences

CONSTANTS
    Procs,         \* requests and workers
    Keys,          \* idempotency keys
    Fingerprints,  \* request fingerprints
    MaxRuns,       \* bound: runs of the analysis
    MaxVersion     \* bound: row version up to which the job is saved

RunsAssumption ==
    /\ Keys # {} /\ Fingerprints # {}
    /\ MaxRuns \in Nat \ {0} /\ MaxVersion \in Nat

VARIABLES
    live,      \* Analysis.lifecycle_state is live
    state,     \* Analysis.state
    version,   \* Analysis.row_version
    promoted,  \* Analysis.promoted_run_id as attempt number; 0 is null
    runs,      \* AnalysisRun rows in order of attempt_number
    idem,      \* IdempotencyRecord of each key; run 0 is no record
    pc, call, held,  \* of each process: step, its arguments and what it read; run it locked
    answers    \* history: what each key was answered with, by fingerprint

analysisVars == <<live, state, version, promoted>>
vars == <<analysisVars, runs, idem, pc, call, held, answers>>

Active    == {"queued", "processing"}
Ended     == {"completed", "failed", "cancelled", "stale"}
Statuses  == {"processing", "completed", "failed", "waiting"}  \* waiting: a setup status
Run       == [state : Active \union Ended, version : Nat \ {0}]
NoRecord  == [run |-> 0, fingerprint |-> CHOOSE f \in Fingerprints : TRUE]
Record    == [run : 0..MaxRuns, fingerprint : Fingerprints]
Call      == [key : Keys, fingerprint : Fingerprints, run : 0..MaxRuns, was : Active \union Ended,
              version : Nat, new : Active \union Ended]
Asked(k, f) == [key |-> k, fingerprint |-> f, run |-> 0, was |-> "queued", version |-> 0, new |-> "queued"]
NoCall    == Asked(CHOOSE k \in Keys : TRUE, CHOOSE f \in Fingerprints : TRUE)

TypeOK ==
    /\ live \in BOOLEAN /\ state \in Statuses \union Ended \union Active /\ version \in Nat
    /\ promoted \in 0..MaxRuns
    /\ runs \in Seq(Run) /\ Len(runs) <= MaxRuns
    /\ idem \in [Keys -> Record]
    /\ pc \in [Procs -> {"idle", "start", "fallback", "transition", "commit", "save"}]
    /\ call \in [Procs -> Call] /\ held \in [Procs -> 0..MaxRuns]
    /\ answers \in [Keys \X Fingerprints -> SUBSET (1..MaxRuns)]

\* A reserved analysis has a first run.
Init ==
    /\ live = TRUE /\ state = "processing" /\ version = 1 /\ promoted = 0
    /\ runs = <<[state |-> "processing", version |-> 1]>>
    /\ idem = [k \in Keys |-> NoRecord]
    /\ pc = [p \in Procs |-> "idle"] /\ call = [p \in Procs |-> NoCall]
    /\ held = [p \in Procs |-> 0]
    /\ answers = [a \in Keys \X Fingerprints |-> {}]

-----------------------------------------------------------------------------
ActiveRuns == {r \in DOMAIN runs : runs[r].state \in Active}
Locked(r)  == \E p \in Procs : held[p] = r

Return(p) == /\ pc' = [pc EXCEPT ![p] = "idle"] /\ call' = [call EXCEPT ![p] = NoCall]
             /\ held' = [held EXCEPT ![p] = 0]
Keep(p, step, c) == /\ pc' = [pc EXCEPT ![p] = step] /\ call' = [call EXCEPT ![p] = c]
                    /\ UNCHANGED held

\* _insert_run, with its two unique indexes: one active run, one number each.
InsertRun(s) ==
    /\ Len(runs) < MaxRuns
    /\ runs' = Append(runs, [state |-> s, version |-> 1])
\* _active_or_latest_run.
ActiveOrLatest ==
    IF ActiveRuns # {} THEN CHOOSE r \in ActiveRuns : TRUE ELSE Len(runs)

\* An end of run r by the new state s.
EndRun(r, s) == runs' = [runs EXCEPT ![r] = [state |-> s, version |-> @.version + 1]]

-----------------------------------------------------------------------------
(* start_run.                                                               *)

Answered(k, f, r) == answers' = [answers EXCEPT ![<<k, f>>] = @ \union {r}]

\* _resolve_run_record: a record commits with its run, so it always names one.
Resolve(p, k, f) ==
    /\ idem[k].run # 0 /\ Return(p)
    /\ IF idem[k].fingerprint = f THEN Answered(k, f, idem[k].run) ELSE UNCHANGED answers
    /\ UNCHANGED <<analysisVars, runs, idem>>

StartLookup(p, k, f) ==
    /\ pc[p] = "idle" /\ live
    /\ \/ Resolve(p, k, f)
       \/ /\ idem[k].run = 0
          /\ Keep(p, "start", Asked(k, f))
          /\ UNCHANGED <<analysisVars, runs, idem, answers>>

\* populate_existing: the analysis is read again when its lock is granted.
Admitted == live

OneActive_ProcessingOnly == \A r \in DOMAIN runs : runs[r].state # "processing"
OneActive == ActiveRuns = {}

StartInsert(p) ==
    LET k == call[p].key  f == call[p].fingerprint IN
    /\ pc[p] = "start"
    /\ \/ ~Admitted /\ Return(p) /\ UNCHANGED <<analysisVars, runs, idem, answers>>
       \/ /\ Admitted /\ ~Locked(Len(runs)) /\ idem[k].run = 0 /\ OneActive
          /\ \E s \in Active :
                /\ InsertRun(s)
                /\ IF s = "processing" /\ state # "processing"
                   THEN state' = "processing" /\ version' = version + 1
                   ELSE UNCHANGED <<state, version>>
          /\ idem' = [idem EXCEPT ![k] = [run |-> Len(runs) + 1, fingerprint |-> f]]
          /\ Answered(k, f, Len(runs) + 1) /\ Return(p) /\ UNCHANGED <<live, promoted>>
       \/ /\ Admitted /\ ~Locked(Len(runs)) /\ ~(idem[k].run = 0 /\ OneActive)
          /\ Keep(p, "fallback", call[p]) /\ UNCHANGED <<analysisVars, runs, idem, answers>>

\* After the IntegrityError: the record another request wrote, or the active
\* run, which the key is then bound to.
Bound(k, f, r) == [idem EXCEPT ![k] = [run |-> r, fingerprint |-> f]]

StartFallback(p) ==
    LET k == call[p].key  f == call[p].fingerprint IN
    /\ pc[p] = "fallback"
    /\ \/ Resolve(p, k, f)
       \/ /\ idem[k].run = 0 /\ live /\ ActiveRuns # {}
          /\ idem' = Bound(k, f, ActiveOrLatest) /\ Answered(k, f, ActiveOrLatest)
          /\ Return(p) /\ UNCHANGED <<analysisVars, runs>>
       \/ /\ idem[k].run = 0 /\ (~live \/ ActiveRuns = {})
          /\ Return(p) /\ UNCHANGED <<analysisVars, runs, idem, answers>>

-----------------------------------------------------------------------------
(* transition_run.                                                          *)

Allowed == [s \in Active \union Ended |->
    CASE s = "queued"     -> {"processing", "cancelled"}
      [] s = "processing" -> {"completed", "failed", "cancelled", "stale"}
      [] OTHER            -> {}]

\* The caller expects a version it has seen; the run is read without a lock.
TransitionRead(p, r, new) ==
    /\ pc[p] = "idle" /\ r \in DOMAIN runs /\ new \in Allowed[runs[r].state] /\ live
    /\ \E v \in 1..runs[r].version :
          Keep(p, "transition", [key |-> NoCall.key, fingerprint |-> NoCall.fingerprint,
                                 run |-> r, was |-> runs[r].state, version |-> v, new |-> new])
    /\ UNCHANGED <<analysisVars, runs, idem, answers>>

\* update ... where row_version = expected and state = the state that was read.
Matches_VersionOnly(c) == runs[c.run].version = c.version
Matches(c) == runs[c.run].version = c.version /\ runs[c.run].state = c.was

TransitionUpdate(p) ==
    /\ pc[p] = "transition" /\ ~Locked(call[p].run)
    /\ IF Matches(call[p])
       THEN /\ pc' = [pc EXCEPT ![p] = "commit"] /\ held' = [held EXCEPT ![p] = call[p].run]
            /\ UNCHANGED call
       ELSE Return(p)
    /\ UNCHANGED <<analysisVars, runs, idem, answers>>

TransitionCommit(p) ==
    LET r == call[p].run  new == call[p].new IN
    /\ pc[p] = "commit" /\ Return(p) /\ EndRun(r, new)
    /\ IF new = "stale" THEN UNCHANGED <<state, version>>
                        ELSE state' = new /\ version' = version + 1
    /\ promoted' = IF new = "completed" THEN r ELSE promoted
    /\ UNCHANGED <<live, idem, answers>>

RollBack(p) ==
    /\ pc[p] # "idle" /\ Return(p)
    /\ UNCHANGED <<analysisVars, runs, idem, answers>>

-----------------------------------------------------------------------------
(* persist_job and the deletion of the match.                               *)

SaveLoad(p) ==
    /\ pc[p] = "idle" /\ live /\ Keep(p, "save", [NoCall EXCEPT !.version = version])
    /\ UNCHANGED <<analysisVars, runs, idem, answers>>

\* Only a run that is still active is ended by the save, and promoted.
Ends(r) == runs[r].state \in Active

SaveRefused(p) ==
    /\ pc[p] = "save" /\ (~live \/ call[p].version # version) /\ Return(p)
    /\ UNCHANGED <<analysisVars, runs, idem, answers>>

Save(p, status) ==
    LET r == ActiveOrLatest IN
    /\ pc[p] = "save" /\ live /\ call[p].version = version /\ ~Locked(r)
    /\ version < MaxVersion
    /\ state' = status /\ version' = version + 1
    /\ \/ status = "processing" /\ runs[r].state \notin Active /\ InsertRun("processing")
          /\ UNCHANGED promoted
       \/ status \in {"completed", "failed"} /\ Ends(r) /\ EndRun(r, status)
          /\ promoted' = IF status = "completed" THEN r ELSE promoted
       \/ /\ ~(status = "processing" /\ runs[r].state \notin Active)
          /\ ~(status \in {"completed", "failed"} /\ Ends(r))
          /\ UNCHANGED <<runs, promoted>>
    /\ Return(p) /\ UNCHANGED <<live, idem, answers>>

\* The claim of a deletion retires idle runs; it leaves their row versions.
Delete ==
    /\ live /\ \A r \in DOMAIN runs : ~Locked(r)
    /\ live' = FALSE /\ version' = version + 1
    /\ runs' = [r \in DOMAIN runs |-> IF r \in ActiveRuns THEN [runs[r] EXCEPT !.state = "cancelled"]
                                                          ELSE runs[r]]
    /\ UNCHANGED <<state, promoted, idem, pc, call, held, answers>>

Next ==
    \/ \E p \in Procs :
          \/ \E k \in Keys, f \in Fingerprints : StartLookup(p, k, f)
          \/ StartInsert(p) \/ StartFallback(p)
          \/ \E r \in DOMAIN runs, new \in Ended \union {"processing"} : TransitionRead(p, r, new)
          \/ TransitionUpdate(p) \/ TransitionCommit(p) \/ RollBack(p)
          \/ SaveLoad(p) \/ SaveRefused(p) \/ \E status \in Statuses : Save(p, status)
    \/ Delete

Spec == Init /\ [][Next]_vars

-----------------------------------------------------------------------------
(* Properties.                                                              *)

\* Whatever requests race, a key is answered with one run, and only to the
\* request it was first used for (start_run, the fallback included).
KeyNamesOneRun ==
    \A k \in Keys, f, g \in Fingerprints :
        answers[k, f] # {} /\ answers[k, g] # {} =>
            f = g /\ \A r, s \in answers[k, f] : r = s

\* Every run but the newest has ended: a retry never overlaps the attempt it
\* follows, whichever of the three transactions started it.
AttemptsFollow == \A r \in 1..(Len(runs) - 1) : runs[r].state \in Ended

\* One run at a time, ended runs are immutable, the result is the last run
\* that completed, and a deleted match starts and changes nothing: with stale
\* workers, saves and deletion in any order (PHASE_1_8B_PRODUCTION_PERSISTENCE).
Promise == INSTANCE RunPromise WITH
    ended   <- [r \in 1..(Len(runs) - (IF runs[Len(runs)].state \in Active THEN 1 ELSE 0))
                    |-> runs[r].state],
    running <- runs[Len(runs)].state \in Active,
    result  <- promoted,
    closed  <- ~live
KeepsRunPromise == Promise!Spec
=============================================================================
