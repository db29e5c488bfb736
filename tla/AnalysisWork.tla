---------------------------- MODULE AnalysisWork ----------------------------
(***************************************************************************)
(* What the work on one analysis rests on: its runs, the attempts of its   *)
(* ball stage, the volume of its workspaces, and its stages with S3 or     *)
(* local storage.  These share no variable, so interleaving them would     *)
(* multiply the states without adding a behaviour of any of them: focus is *)
(* the one that moves.                                                     *)
(***************************************************************************)
EXTENDS Naturals, Sequences, FiniteSets

CONSTANTS
    Procs, Keys, Fingerprints, MaxRuns, MaxVersion,        \* the runs
    Workers, MaxAttempts, Configured,                      \* the ball stage
    Requests, DiskSize, HardStop, MaxActive, MaxReads,     \* the volume
    ReadLimit, UploadReserve, MaxUpload, MaxSize,
    Players, MaxCalibrations, MaxS3Version, MaxLocalVersion  \* the stages

VARIABLES focus,
    live, state, version, promoted, runs, idem, pc, call, held, answers,
    ballLive, attempts, outputs, current, ballPc, ballJob,
    reserved, active, reads, phase, kept, planned, written, leftover,
    provider, job, reg, files, calibrations, stage, diag

runVars   == <<live, state, version, promoted, runs, idem, pc, call, held, answers>>
ballVars  == <<ballLive, attempts, outputs, current, ballPc, ballJob>>
diskVars  == <<reserved, active, reads, phase, kept, planned, written, leftover>>
stageVars == <<provider, job, reg, files, calibrations, stage, diag>>
vars      == <<focus, runVars, ballVars, diskVars, stageVars>>

Runs == INSTANCE AnalysisRuns
Ball == INSTANCE StageAttempts WITH live <- ballLive, pc <- ballPc, job <- ballJob
Disk == INSTANCE StorageCapacity WITH held <- kept

Stages == INSTANCE WorkflowStages WITH
    MaxVersion <- [s3 |-> MaxS3Version, local |-> MaxLocalVersion], call <- stage

ASSUME WellFormed ==
    /\ Runs!RunsAssumption /\ Ball!StageAssumption /\ Disk!SizesFit
    /\ Stages!WorkflowAssumption

Init == /\ focus \in {"runs", "ball", "disk", "stages"}
        /\ Runs!Init /\ Ball!Init /\ Disk!Init /\ Stages!Init
        /\ focus # "stages" => provider = "s3"
Next ==
    /\ UNCHANGED focus
    /\ \/ focus = "runs"   /\ Runs!Next   /\ UNCHANGED <<ballVars, diskVars, stageVars>>
       \/ focus = "ball"   /\ Ball!Next   /\ UNCHANGED <<runVars, diskVars, stageVars>>
       \/ focus = "disk"   /\ Disk!Next   /\ UNCHANGED <<runVars, ballVars, stageVars>>
       \/ focus = "stages" /\ Stages!Next /\ UNCHANGED <<runVars, ballVars, diskVars>>
Spec == Init /\ [][Next]_vars

-----------------------------------------------------------------------------
(* Properties.                                                              *)

\* One run at a time, ended runs are immutable, the result is the last run
\* that completed, and a deleted match starts and changes nothing: with stale
\* workers, saves and deletion in any order (PHASE_1_8B_PRODUCTION_PERSISTENCE).
KeepsRunPromise == Runs!KeepsRunPromise

\* A key is answered with one run whatever requests race, an attempt of a run
\* or of the ball stage begins only after all earlier ones ended, whoever ends
\* them, and the evidence of the newest completed ball attempt stays offered
\* whatever later attempts do short of completing (start_run, start, recover).
AttemptsFollow ==
    /\ Runs!TypeOK /\ Runs!KeyNamesOneRun /\ Runs!AttemptsFollow
    /\ Ball!TypeOK /\ Ball!RerunFollows /\ Ball!CompletedEvidenceKept

\* An attempt that ended keeps its outcome when its worker, recovery and a
\* deletion end it at once (transition of AnalysisStageExecution).
AttemptsEndOnce == Ball!AttemptsEndOnce

\* The process-wide counters are what the requests hold, no admission passes
\* its limit, bounded reads stay below their cap, and even if every admitted
\* request writes all it was admitted for the volume keeps its hard-stop
\* reserve, with crashes and failed deletions leaving files behind.
CapacityKept ==
    /\ Disk!TypeOK /\ Disk!CountersMatchHeld /\ Disk!HardStopKept
    /\ Disk!LimitsKept /\ Disk!ReadsBounded

\* Between two stages, what readers are offered belongs together: the report
\* to the verified court and the selected player, the tracking to the court,
\* the registered candidates and active play to the selection - after any
\* sequence of confirmations, corrections, reruns and failures (_save_stage).
ArtifactsMatch ==
    /\ Stages!TypeOK /\ Stages!ReportMatchesSelection /\ Stages!TrackingMatchesCourt
    /\ Stages!SelectionRegistered /\ Stages!PlayMatchesSelection /\ Stages!DiagnosticIsCurrent
=============================================================================
