----------------------------- MODULE MatchMedia -----------------------------
(***************************************************************************)
(* The media of one match, from its creation to its deletion: save_job,     *)
(* materialization and the media lock of the job repository                *)
(* (src/app/services/jobs/repository.py), persist_job                      *)
(* (src/app/persistence/service.py), deletion of the match                 *)
(* (match_lifecycle.py) and of its recording alone (source_media.py).      *)
(*                                                                         *)
(* Every request works in a private workspace, takes an advisory lock held  *)
(* by a database connection, and talks to PostgreSQL and to the object     *)
(* store in separate steps.  A database transaction is one step.            *)
(*                                                                         *)
(* Storage is S3.  The artifacts of a match are its recording, versions of  *)
(* one playback video under tracking/ and versions of one report document. *)
(***************************************************************************)
EXTENDS Naturals, FiniteSets

CONSTANTS
    Procs,       \* requests and background tasks
    Source,      \* the object of the recording
    Videos,      \* versions of tracking/tracked_players.mp4
    Documents,   \* versions of one document
    MaxFaults,   \* bound: failing calls to the object store
    MaxCrashes,  \* bound: process deaths
    MaxDrops     \* bound: connections that lose their advisory lock

ASSUME MediaAssumption ==
    /\ Source \notin Videos \union Documents /\ Videos \intersect Documents = {}
    /\ MaxFaults \in Nat /\ MaxCrashes \in Nat /\ MaxDrops \in Nat

Recording == {Source} \union Videos
Objects   == Recording \union Documents
\* The objects under one logical key: versions differ in the provider key only.
Class(o) == IF o = Source THEN {Source} ELSE IF o \in Videos THEN Videos ELSE Documents

VARIABLES
    life,       \* Analysis.lifecycle_state; "absent" before the row exists
    video,      \* UploadedVideo.state; "none" before the row exists
    keyed,      \* UploadedVideo.storage_key is not null
    phase,      \* Analysis.state and current_stage
    run,        \* AnalysisRun.state of the latest run
    upload,     \* the UploadSession: none (POST of a file), at work, ended
    registry,   \* AnalysisArtifact rows
    ever,       \* history: objects that were registered at some time
    store,      \* objects at the provider
    local,      \* workspace of each process
    abandoned,  \* what the workspaces of dead processes hold
    mode,       \* media lock a process holds
    pc, op,     \* what a process does next, and for which operation
    todo,       \* objects it has listed
    want,       \* outcome it is about to save
    fresh,      \* the row version it loaded is the current one
    faults, crashes, drops

rowVars  == <<life, video, keyed, phase, run, upload, registry, ever>>
procVars == <<pc, op, want, fresh>>
envVars  == <<faults, crashes, drops>>
vars     == <<rowVars, store, local, abandoned, mode, todo, procVars, envVars>>

Removed   == {"deleting", "deleted"}
Gone      == {"deletion_pending", "deleted"}
\* job.inspection_completed.
Inspected == {"inspected", "analyzed", "failed"}
\* Steps of a deletion after its first transaction.
Erasing == {"erase", "finalize"}
\* Steps under the media lock, of its holder's own or its caller's.
Guarded == {"save_check", "put", "persist", "load", "download", "compute"}
Steps == {"idle", "reserve", "inspect", "lock", "settle", "claim", "unlock", "close"}
         \union Guarded \union Erasing

TypeOK ==
    /\ life \in {"absent", "live"} \union Gone
    /\ video \in {"none", "pending", "available"} \union Removed
    /\ keyed \in BOOLEAN
    /\ phase \in {"uploaded", "rejected"} \union Inspected
    /\ run \in {"none", "processing", "ended", "cancelled"}
    /\ upload \in {"none", "active", "completed", "failed"}
    /\ registry \in [Objects -> {"none", "current", "retired", "deleted"}]
    /\ ever \subseteq Objects /\ store \subseteq Objects
    /\ local \in [Procs -> SUBSET Objects] /\ abandoned \subseteq Objects
    /\ mode \in [Procs -> {"none", "shared", "exclusive"}]
    /\ pc \in [Procs -> Steps]
    /\ op \in [Procs -> {"none", "create", "work", "read", "purge", "release"}]
    /\ todo \in [Procs -> SUBSET Objects]
    /\ want \in [Procs -> {"none", "rejected", "corrected"} \union Inspected]
    /\ fresh \in [Procs -> BOOLEAN]
    /\ faults \in Nat /\ crashes \in Nat /\ drops \in Nat

\* A match comes from a posted file or from a direct upload, whose object has
\* been verified when its analysis is created.
Init ==
    /\ life = "absent" /\ video = "none" /\ keyed = FALSE
    /\ phase = "uploaded" /\ run = "none"
    /\ upload \in {"none", "active"}
    /\ store = IF upload = "active" THEN {Source} ELSE {}
    /\ registry = [o \in Objects |-> "none"] /\ ever = {}
    /\ local = [p \in Procs |-> {}] /\ abandoned = {}
    /\ mode = [p \in Procs |-> "none"]
    /\ pc = [p \in Procs |-> "idle"] /\ op = [p \in Procs |-> "none"]
    /\ todo = [p \in Procs |-> {}] /\ want = [p \in Procs |-> "none"]
    /\ fresh = [p \in Procs |-> FALSE]
    /\ faults = 0 /\ crashes = 0 /\ drops = 0

-----------------------------------------------------------------------------
(* Building blocks.                                                         *)

Fault == faults < MaxFaults /\ faults' = faults + 1 /\ UNCHANGED <<crashes, drops>>

Goto(p, step) == pc' = [pc EXCEPT ![p] = step] /\ UNCHANGED op
Start(p, what, step) ==
    pc[p] = "idle" /\ pc' = [pc EXCEPT ![p] = step] /\ op' = [op EXCEPT ![p] = what]

\* media_operation: pg_try_advisory_lock and its shared form.
Free(p, kind) == \A q \in Procs \ {p} :
                    IF kind = "exclusive" THEN mode[q] = "none" ELSE mode[q] # "exclusive"
Take(p, kind) == Free(p, kind) /\ mode' = [mode EXCEPT ![p] = kind]

\* analysis.row_version += 1, by p.
Bump(p) == fresh' = [q \in Procs |-> q = p /\ fresh[q]]

Registered   == {o \in Objects : registry[o] # "none"}
\* list_artifacts: state available and is_current.
Current      == {o \in Objects : registry[o] = "current"}
\* What materialization leaves out once the recording is being deleted.
Retained == IF video \in Removed THEN Current \ Recording ELSE Current

-----------------------------------------------------------------------------
(* Creation of the match.                                                   *)

\* The recording is staged in the workspace: received or downloaded.
StartCreate(p) ==
    /\ life = "absent" /\ upload \in {"none", "active"}
    /\ \A q \in Procs : op[q] # "create"
    /\ Start(p, "create", "reserve")
    /\ local' = [local EXCEPT ![p] = {Source}]
    /\ UNCHANGED <<rowVars, store, abandoned, mode, todo, want, fresh, envVars>>

\* reserve_analysis: the analysis, its video and its first run.
Reserve(p) ==
    /\ pc[p] = "reserve" /\ life = "absent"
    /\ life' = "live" /\ video' = "pending" /\ run' = "processing"
    /\ Goto(p, "inspect")
    /\ UNCHANGED <<keyed, phase, upload, registry, ever, store, local, abandoned,
                   mode, todo, want, fresh, envVars>>

\* inspect_video: minutes of work, with no media lock.
Inspect(p) ==
    /\ pc[p] = "inspect" /\ Goto(p, "lock")
    /\ \/ \E d \in Documents : /\ local' = [local EXCEPT ![p] = @ \union {d}]
                               /\ want' = [want EXCEPT ![p] = "inspected"]
       \/ want' = [want EXCEPT ![p] = "rejected"] /\ UNCHANGED local
    /\ UNCHANGED <<rowVars, store, abandoned, mode, todo, fresh, envVars>>

\* save_job: the shared lock is tried once.
LockSave(p) ==
    /\ pc[p] = "lock"
    /\ \/ Take(p, "shared") /\ Goto(p, "save_check") /\ UNCHANGED want
       \/ /\ ~Free(p, "shared") /\ Goto(p, "settle")
          /\ want' = [want EXCEPT ![p] = "none"] /\ UNCHANGED mode
    /\ UNCHANGED <<rowVars, store, local, abandoned, todo, fresh, envVars>>

\* The direct upload records its outcome (verify_and_analyze, _fail).
Settle(p) ==
    /\ pc[p] = "settle" /\ Goto(p, "close")
    /\ upload' = IF upload # "active" THEN upload
                 ELSE IF want[p] = "inspected" THEN "completed" ELSE "failed"
    /\ UNCHANGED <<life, video, keyed, phase, run, registry, ever, store, local,
                   abandoned, mode, todo, want, fresh, envVars>>

\* Another task of the same session replays the reservation or fails.
SettleElsewhere ==
    /\ upload = "active"
    /\ upload' \in IF life = "live" THEN {"completed", "failed"} ELSE {"failed"}
    /\ UNCHANGED <<life, video, keyed, phase, run, registry, ever, store, local,
                   abandoned, mode, todo, procVars, envVars>>

-----------------------------------------------------------------------------
(* save_job, under the lock of its caller or its own.                       *)

\* Tombstones, removed recordings and stale snapshots are refused before
\* anything is uploaded.  A job being created carries no version.
CurrentVersion(p) == op[p] = "create" \/ fresh[p]
Savable(p) == life = "live" /\ video \notin Removed /\ CurrentVersion(p)
SaveCheck(p) ==
    /\ pc[p] = "save_check"
    /\ \/ Savable(p) /\ Goto(p, "put") /\ UNCHANGED want
       \/ ~Savable(p) /\ Goto(p, "unlock") /\ want' = [want EXCEPT ![p] = "none"]
    /\ UNCHANGED <<rowVars, store, local, abandoned, mode, todo, fresh, envVars>>

\* _filesystem_artifacts: every file of the workspace is put and listed.
Put(p) ==
    /\ pc[p] = "put"
    /\ \/ \E o \in local[p] \ todo[p] :
             /\ store' = store \union {o}
             /\ todo' = [todo EXCEPT ![p] = @ \union {o}]
             /\ UNCHANGED <<pc, op, want, envVars>>
       \/ local[p] \subseteq todo[p] /\ Goto(p, "persist")
          /\ UNCHANGED <<store, todo, want, envVars>>
       \/ /\ Fault /\ Goto(p, "unlock") /\ want' = [want EXCEPT ![p] = "none"]
          /\ UNCHANGED <<store, todo>>
    /\ UNCHANGED <<rowVars, local, abandoned, mode, fresh>>

\* _register_artifacts: another version under the same key is retired; a
\* corrected court retires the results under tracking/.
Replaced(p) ==
    {o \in Current \ todo[p] : \/ Class(o) \intersect todo[p] # {}
                               \/ want[p] = "corrected" /\ o \in Videos}
NewPhase_Raw(p) == want[p]
NewPhase(p) == IF want[p] = "corrected" THEN "inspected" ELSE want[p]
Persistable_VersionOnly(p) == CurrentVersion(p)
Persistable_AnyVideo(p) == life = "live" /\ CurrentVersion(p)
Persistable(p) == life = "live" /\ video \notin Removed /\ CurrentVersion(p)

\* persist_job: the checks again, under the lock of the analysis row.
Persist(p) ==
    /\ pc[p] = "persist"
    /\ todo' = [todo EXCEPT ![p] = {}]
    /\ \/ /\ Persistable(p)
          /\ registry' = [o \in Objects |-> IF o \in todo[p] THEN "current"
                                            ELSE IF o \in Replaced(p) THEN "retired"
                                            ELSE registry[o]]
          /\ ever' = ever \union todo[p]
          /\ video' = "available" /\ keyed' = TRUE
          /\ phase' = NewPhase(p)
          /\ run' = IF NewPhase(p) = "inspected" THEN "processing"
                    ELSE IF run = "processing" THEN "ended" ELSE run
          /\ Bump(p)
          /\ IF op[p] = "create" THEN Goto(p, "unlock") ELSE Goto(p, "compute")
          /\ UNCHANGED want
       \/ /\ ~Persistable(p)
          /\ Goto(p, "unlock") /\ want' = [want EXCEPT ![p] = "none"]
          /\ UNCHANGED <<registry, ever, video, keyed, phase, run, fresh>>
    /\ UNCHANGED <<life, upload, store, local, abandoned, mode, envVars>>

-----------------------------------------------------------------------------
(* Workflow operations (calibration, tracking, analytics) and reads.        *)

\* @media_operation(exclusive=True); busy is a conflict.
StartWork(p) ==
    /\ Start(p, "work", "load") /\ Take(p, "exclusive")
    /\ UNCHANGED <<rowVars, store, local, abandoned, todo, want, fresh, envVars>>

\* load_job and resolve_artifact wait for the shared lock.
StartRead(p) ==
    /\ Start(p, "read", "load") /\ Take(p, "shared")
    /\ UNCHANGED <<rowVars, store, local, abandoned, todo, want, fresh, envVars>>

\* Work needs the recording and a finished inspection and materializes all that
\* is retained; a read materializes all of it or resolves one artifact.
Loadable(p) ==
    /\ life = "live"
    /\ op[p] = "work" => video \notin Removed /\ phase \in Inspected
Load(p) ==
    /\ pc[p] = "load"
    /\ \/ /\ Loadable(p) /\ Goto(p, "download")
          /\ \E S \in {Retained} \union
                      (IF op[p] = "read" THEN {{o} : o \in Retained} ELSE {}) :
                todo' = [todo EXCEPT ![p] = S]
          /\ fresh' = [fresh EXCEPT ![p] = TRUE]
       \/ ~Loadable(p) /\ Goto(p, "unlock") /\ UNCHANGED <<todo, fresh>>
    /\ UNCHANGED <<rowVars, store, local, abandoned, mode, want, envVars>>

Download(p) ==
    /\ pc[p] = "download"
    /\ todo' = [todo EXCEPT ![p] = {}]
    /\ \/ /\ todo[p] \subseteq store
          /\ local' = [local EXCEPT ![p] = @ \union todo[p]]
          /\ Goto(p, IF op[p] = "work" THEN "compute" ELSE "unlock")
          /\ UNCHANGED envVars
       \/ /\ IF todo[p] \subseteq store THEN Fault ELSE UNCHANGED envVars
          /\ \E S \in SUBSET (todo[p] \intersect store) :
                local' = [local EXCEPT ![p] = @ \union S]
          /\ Goto(p, "unlock")
    /\ UNCHANGED <<rowVars, store, abandoned, mode, want, fresh>>

\* An operation writes a new version of an artifact, discards what a corrected
\* court invalidates, or fails; it may save several times, and ends.
Compute(p) ==
    /\ pc[p] = "compute"
    /\ \/ \E o \in Videos \union Documents, w \in {"inspected", "analyzed"} :
             /\ local' = [local EXCEPT ![p] = (@ \ Class(o)) \union {o}]
             /\ want' = [want EXCEPT ![p] = w] /\ Goto(p, "save_check")
       \/ /\ local' = [local EXCEPT ![p] = @ \ Videos]
          /\ want' = [want EXCEPT ![p] = "corrected"] /\ Goto(p, "save_check")
       \/ /\ want' = [want EXCEPT ![p] = "failed"] /\ Goto(p, "save_check")
          /\ UNCHANGED local
       \/ Goto(p, "unlock") /\ UNCHANGED <<local, want>>
    /\ UNCHANGED <<rowVars, store, abandoned, mode, todo, fresh, envVars>>

-----------------------------------------------------------------------------
(* Deletion of the match.                                                   *)

\* MatchLifecycleService.delete tries the exclusive lock once.
StartPurge(p) ==
    /\ life # "absent" /\ Start(p, "purge", "claim") /\ Take(p, "exclusive")
    /\ UNCHANGED <<rowVars, store, local, abandoned, todo, want, fresh, envVars>>

\* First transaction: the tombstone, and the manifest of what to erase.
Purgeable == life \in {"live", "deletion_pending"} /\ upload # "active"
PurgeManifest_Current == (IF keyed THEN {Source} ELSE {}) \union Current
PurgeManifest == (IF keyed THEN {Source} ELSE {}) \union Registered
ClaimPurge(p) ==
    /\ pc[p] = "claim" /\ op[p] = "purge"
    /\ \/ /\ Purgeable
          /\ life' = "deletion_pending" /\ video' = "deleting"
          /\ run' = IF run = "processing" THEN "cancelled" ELSE run
          /\ Bump(p)
          /\ todo' = [todo EXCEPT ![p] = PurgeManifest]
          /\ Goto(p, "erase")
       \/ ~Purgeable /\ Goto(p, "unlock") /\ UNCHANGED <<life, video, run, fresh, todo>>
    /\ UNCHANGED <<keyed, phase, upload, registry, ever, store, local, abandoned,
                   mode, want, envVars>>

\* delete_registered_object: the object, then every local copy under its key.
Erase(p) ==
    /\ pc[p] = "erase" /\ todo[p] # {}
    /\ \/ \E o \in IF Source \in todo[p] THEN {Source} ELSE todo[p] :
             /\ store' = store \ {o}
             /\ local' = [q \in Procs |-> local[q] \ Class(o)]
             /\ abandoned' = abandoned \ Class(o)
             /\ todo' = [todo EXCEPT ![p] = @ \ {o}]
             /\ UNCHANGED <<pc, op, envVars>>
       \/ Fault /\ Goto(p, "unlock") /\ UNCHANGED <<store, local, abandoned, todo>>
    /\ UNCHANGED <<rowVars, mode, want, fresh>>

\* purge_local_match_copies; only playback media when the recording goes.
Swept(p) == IF op[p] = "purge" THEN Objects ELSE Recording
Sweep(p) ==
    /\ pc[p] = "erase" /\ todo[p] = {}
    /\ \/ /\ Goto(p, "finalize")
          /\ local' = [q \in Procs |-> local[q] \ Swept(p)]
          /\ abandoned' = abandoned \ Swept(p)
          /\ UNCHANGED envVars
       \/ Fault /\ Goto(p, "unlock") /\ UNCHANGED <<local, abandoned>>
    /\ UNCHANGED <<rowVars, store, mode, todo, want, fresh>>

\* Last transaction: the content rows go, the tombstone stays.
FinalizePurge(p) ==
    /\ pc[p] = "finalize" /\ op[p] = "purge"
    /\ life' = "deleted" /\ video' = "deleted" /\ keyed' = FALSE /\ run' = "none"
    /\ registry' = [o \in Objects |-> "none"]
    /\ Bump(p) /\ Goto(p, "unlock")
    /\ UNCHANGED <<phase, upload, ever, store, local, abandoned, mode, todo, want, envVars>>

-----------------------------------------------------------------------------
(* Deletion of the recording alone.                                         *)

\* SourceMediaService.delete waits for the exclusive lock.
StartRelease(p) ==
    /\ life # "absent" /\ Start(p, "release", "claim") /\ Take(p, "exclusive")
    /\ UNCHANGED <<rowVars, store, local, abandoned, todo, want, fresh, envVars>>

Releasable_Available ==
    /\ life = "live" /\ video = "available" /\ phase = "analyzed"
    /\ upload \in {"none", "completed"} /\ keyed
Releasable ==
    /\ life = "live" /\ video \in {"available"} \union Removed /\ phase = "analyzed"
    /\ upload \in {"none", "completed"} /\ keyed
ReleaseManifest_Current == {Source} \union (Current \intersect Recording)
ReleaseManifest == {Source} \union (Registered \intersect Recording)
\* The durable intent, committed before anything is erased.
Intent_Late == video
Intent == "deleting"
ClaimRelease(p) ==
    /\ pc[p] = "claim" /\ op[p] = "release"
    /\ \/ /\ Releasable
          /\ video' = Intent
          /\ todo' = [todo EXCEPT ![p] = ReleaseManifest]
          /\ Goto(p, "erase")
       \/ ~Releasable /\ Goto(p, "unlock") /\ UNCHANGED <<video, todo>>
    /\ UNCHANGED <<life, keyed, phase, run, upload, registry, ever, store, local,
                   abandoned, mode, want, fresh, envVars>>

\* Rows listed by the claim; none was registered since.
FinalizeRelease(p) ==
    /\ pc[p] = "finalize" /\ op[p] = "release"
    /\ video' = "deleted"
    /\ registry' = [o \in Objects |-> IF o \in Registered \intersect Recording
                                      THEN "deleted" ELSE registry[o]]
    /\ Goto(p, "unlock")
    /\ UNCHANGED <<life, keyed, phase, run, upload, ever, store, local, abandoned,
                   mode, todo, want, fresh, envVars>>

-----------------------------------------------------------------------------
(* The end of an operation, failures of processes and connections.          *)

Unlock(p) ==
    /\ pc[p] = "unlock" /\ mode' = [mode EXCEPT ![p] = "none"]
    /\ Goto(p, IF op[p] = "create" THEN "settle" ELSE "close")
    /\ UNCHANGED <<rowVars, store, local, abandoned, todo, want, fresh, envVars>>

\* repository.close removes the workspace of the request.
End(p) ==
    /\ local' = [local EXCEPT ![p] = {}] /\ todo' = [todo EXCEPT ![p] = {}]
    /\ pc' = [pc EXCEPT ![p] = "idle"] /\ op' = [op EXCEPT ![p] = "none"]
    /\ want' = [want EXCEPT ![p] = "none"] /\ fresh' = [fresh EXCEPT ![p] = FALSE]
Close(p) ==
    /\ pc[p] = "close" /\ End(p)
    /\ UNCHANGED <<rowVars, store, abandoned, mode, envVars>>

\* A process dies: PostgreSQL frees its lock, its workspace stays.
Crash(p) ==
    /\ pc[p] # "idle" /\ crashes < MaxCrashes /\ crashes' = crashes + 1
    /\ abandoned' = abandoned \union local[p]
    /\ End(p) /\ mode' = [mode EXCEPT ![p] = "none"]
    /\ UNCHANGED <<rowVars, store, faults, drops>>

\* The connection that holds the lock breaks; its process does not notice.
DropLock(p) ==
    /\ mode[p] # "none" /\ drops < MaxDrops /\ drops' = drops + 1
    /\ mode' = [mode EXCEPT ![p] = "none"]
    /\ UNCHANGED <<rowVars, store, local, abandoned, todo, procVars, faults, crashes>>

-----------------------------------------------------------------------------
(* The specification.                                                       *)

Create(p) == \/ StartCreate(p) \/ Reserve(p) \/ Inspect(p) \/ LockSave(p) \/ Settle(p)
Save(p)   == \/ SaveCheck(p) \/ Put(p) \/ Persist(p)
Use(p)    == \/ StartWork(p) \/ StartRead(p) \/ Load(p) \/ Download(p) \/ Compute(p)
Delete(p) == \/ StartPurge(p) \/ ClaimPurge(p) \/ Erase(p) \/ Sweep(p) \/ FinalizePurge(p)
             \/ StartRelease(p) \/ ClaimRelease(p) \/ FinalizeRelease(p)
Leave(p)  == \/ Unlock(p) \/ Close(p)

Next ==
    \/ \E p \in Procs : Create(p) \/ Save(p) \/ Use(p) \/ Delete(p) \/ Leave(p)
                        \/ Crash(p) \/ DropLock(p)
    \/ SettleElsewhere

Spec == Init /\ [][Next]_vars

\* A process goes on until it ends or dies.
Running(p) ==
    \/ Reserve(p) \/ Inspect(p) \/ LockSave(p) \/ Settle(p) \/ Save(p)
    \/ Load(p) \/ Download(p) \/ Compute(p)
    \/ ClaimPurge(p) \/ Erase(p) \/ Sweep(p) \/ FinalizePurge(p)
    \/ ClaimRelease(p) \/ FinalizeRelease(p) \/ Leave(p)
\* The user repeats a deletion that was not confirmed.
RetryPurge   == life = "deletion_pending" /\ \E p \in Procs : StartPurge(p)
RetryRelease == life = "live" /\ video = "deleting" /\ \E p \in Procs : StartRelease(p)
FairSpec ==
    /\ Spec /\ \A p \in Procs : WF_vars(Running(p))
    /\ SF_vars(RetryPurge) /\ SF_vars(RetryRelease)

-----------------------------------------------------------------------------
(* Properties.                                                              *)

\* A committed deletion is final (match_lifecycle.py, "minimal tombstones
\* prevent resurrection"): whatever was in flight when it was committed, and
\* even if its lock is lost, nothing is registered again, the recording is not
\* available again and no run starts.
NothingReturns ==
    /\ life' \in Gone /\ (life = "deleted" => life' = "deleted")
    /\ \A o \in Objects : registry'[o] = "current" => registry[o] = "current"
    /\ video' \in Removed
    /\ run' = "processing" => run = "processing"
TombstoneIsFinal == [][(life \in Gone) => NothingReturns]_vars

\* What a live match offers its owner.
Offered == IF life # "live" THEN {} ELSE Retained

\* Every artifact a live match offers has its bytes at the provider: save_job
\* puts before persist_job registers, and the deletions record their intent
\* before they erase.
OfferedBytesExist == Offered \subseteq store

\* A recording reported deleted is gone: the object, every registered version
\* of the playback video, retired ones too, and every copy in a workspace,
\* abandoned ones too (source_media.py:121-137), unless a lock was lost.
RecordingDeletedEverywhere ==
    life = "live" /\ video = "deleted" /\ drops = 0 =>
        /\ store \intersect Recording \intersect ({Source} \union ever) = {}
        /\ \A p \in Procs : local[p] \intersect Recording = {}
        /\ abandoned \intersect Recording = {}

\* A match reported deleted leaves no object at the provider that was ever
\* registered (match_lifecycle.py:171-228), however often its deletion was
\* interrupted and whatever was in flight, unless a lock was lost.
PurgeIsComplete == life = "deleted" /\ drops = 0 => ever \intersect store = {}

\* The code keeps what it promises about a match (RetentionPromise).
Promise == INSTANCE RetentionPromise
    WITH offered <- Offered, kept <- store, closed <- life \in Gone
KeepsRetentionPromise == Promise!Spec

Quiet == \A p \in Procs : pc[p] = "idle"

\* A deletion that was accepted and is repeated ends, once the match is not
\* permanently busy with other requests.
PurgeEnds == []<>Quiet => (life = "deletion_pending" ~> life = "deleted")
ReleaseEnds == []<>Quiet => (life = "live" /\ video = "deleting" ~>
                                life # "live" \/ video = "deleted")

\* PHASE_1_8F_PRODUCT_INTEGRITY_AND_MATCH_LIFECYCLE.md: the original uploaded
\* recording is deleted with the match.
WholeDeletionErasesRecording == life = "deleted" => Source \notin store

\* match_lifecycle.py:77: "never purged underneath a writer".
NeverPurgedUnderWriter ==
    \A p, q \in Procs : op[p] = "purge" /\ pc[p] \in Erasing =>
                            pc[q] \notin {"inspect", "download", "compute", "put", "persist"}

-----------------------------------------------------------------------------
(* The inductive invariant.                                                 *)

\* Nothing is erased before the intent to erase it is committed.
ErasingInv == \A p \in Procs : pc[p] \in Erasing =>
    \/ op[p] = "purge" /\ life \in Gone
    \/ op[p] = "release" /\ life # "absent" /\ video \in Removed /\ todo[p] \subseteq Recording

\* What a save has put stays, unless a deletion makes its persist fail.
SavingInv == \A p \in Procs :
    /\ pc[p] \in {"put", "persist"} =>
          life # "absent" /\ (life = "live" /\ video \notin Removed => todo[p] \subseteq store)
    /\ pc[p] \in {"idle", "reserve", "inspect", "lock", "save_check", "compute", "load"} =>
          todo[p] = {}
    /\ pc[p] \in {"lock", "save_check", "put", "persist"} => want[p] # "none"

RowInv ==
    /\ life = "absent" => Current = {}
    /\ life \in Gone => video \in Removed

IInv == TypeOK /\ ErasingInv /\ SavingInv /\ RowInv /\ OfferedBytesExist

\* The media lock, as long as no connection loses it.
LockInv ==
    /\ \A p \in Procs : /\ pc[p] \in Guarded => mode[p] # "none"
                        /\ pc[p] \in {"claim"} \union Erasing => mode[p] = "exclusive"
    /\ \A p, q \in Procs : mode[p] = "exclusive" /\ p # q => mode[q] = "none"

\* What was checked under the lock still holds: a deletion claims exclusively.
CheckedInv == \A p \in Procs :
    /\ pc[p] \in {"put", "persist", "compute"} \/ (pc[p] = "download" /\ op[p] = "work") =>
          life = "live" /\ video \notin Removed
    /\ pc[p] = "download" => video \notin Removed \/ todo[p] \intersect Recording = {}

\* A manifest lists all that is left to erase.
Doomed == Recording \intersect ({Source} \union ever)
NoCopies == /\ \A q \in Procs : local[q] \intersect Recording = {}
            /\ abandoned \intersect Recording = {}
ManifestInv ==
    /\ life # "deleted" => ever \subseteq Registered
    /\ \A p \in Procs :
          /\ pc[p] \in Erasing /\ op[p] = "purge" => ever \intersect store \subseteq todo[p]
          /\ pc[p] \in Erasing /\ op[p] = "release" => Doomed \intersect store \subseteq todo[p]
          /\ pc[p] = "finalize" => todo[p] = {}
          /\ pc[p] = "finalize" /\ op[p] = "release" => NoCopies

ErasureInv ==
    drops = 0 => /\ LockInv /\ CheckedInv /\ ManifestInv
                 /\ RecordingDeletedEverywhere /\ PurgeIsComplete
=============================================================================
