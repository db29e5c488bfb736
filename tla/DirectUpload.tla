---------------------------- MODULE DirectUpload ----------------------------
(***************************************************************************)
(* Direct multipart uploads of one owner: DirectUploadService              *)
(* (src/app/services/uploads.py) with the part of the analysis workflow    *)
(* and of the persistence service it drives once an object is verified.    *)
(*                                                                         *)
(* PostgreSQL rows, the private object store and the API processes are     *)
(* three separate failure domains.  Every database transaction of the code *)
(* is one atomic step here; every call to the object store that happens    *)
(* between two transactions is a step of its own, so anything may happen   *)
(* in between: another request, another worker, time passing, a crash.     *)
(*                                                                         *)
(* Time is abstract: an upload session becomes due (expires_at <= now) and *)
(* a verification lease lapses at any moment after it was set.             *)
(* Every request is taken to carry a file identity, as the web client's    *)
(* do, so that bytes other than the declared ones can be told apart.       *)
(***************************************************************************)
EXTENDS Naturals, FiniteSets

CONSTANTS
    Sessions,     \* upload session ids; the analysis of s is named s too
    Procs,        \* request handlers and background tasks
    Contents,     \* file contents (SHA-256 digests) an owner may upload
    Payloads,     \* what a browser may PUT, a subset of AllPayloads
    None,         \* absent value
    MaxActive,    \* settings.storage_max_active_uploads
    MaxFaults,    \* bound: failing object-store calls and disk refusals
    MaxCrashes    \* bound: process deaths and lost connections

\* "match": the declared bytes.  "altered": other bytes of the same size.
\* "resized": bytes of another size.
AllPayloads == {"match", "altered", "resized"}

ASSUME ConstantsAssumption ==
    /\ IsFiniteSet(Sessions)
    /\ Payloads \subseteq AllPayloads
    /\ None \notin Sessions /\ None \notin Contents
    /\ MaxActive \in Nat /\ MaxFaults \in Nat /\ MaxCrashes \in Nat

VARIABLES
    status,    \* UploadSession.status; "absent" before the row exists
    due,       \* expires_at <= now
    cleaned,   \* aborted_at is not null
    pending,   \* failure_reason = "duplicate_cleanup_pending"
    lease,     \* verification_started_at: unset, within the lease, older
    hashed,    \* verified_sha256 is not null
    result,    \* analysis named by result_payload; a duplicate if not s
    content,   \* digest of the declared file
    again,     \* reanalyze
    multi,     \* the provider's multipart upload and the bytes of its parts
    store,     \* the object under storage_key
    analysis,  \* Analysis row of the session: how far its creation got
    idem,      \* resource of the idempotency key "direct-upload:<s>"
    pc,        \* what each process is about to do
    on,        \* the session it does it for
    faults, crashes

rowVars   == <<status, due, cleaned, pending, lease, hashed, result, content, again>>
storeVars == <<multi, store>>
dataVars  == <<analysis, idem>>
procVars  == <<pc, on>>
envVars   == <<faults, crashes>>
vars      == <<rowVars, storeVars, dataVars, procVars, envVars>>

-----------------------------------------------------------------------------
(* The states of a row, of a process and of the store.                      *)

ActiveMultipart == {"initiated", "uploading"}
Finalizing      == {"completing", "verifying", "analyzing"}
Expirable       == ActiveMultipart \union {"expired"}
\* The statuses initiate counts against the owner's limit.
Admitted        == ActiveMultipart \union Finalizing
Terminal        == {"completed", "failed", "aborted"}
Statuses        == {"absent", "expired"} \union Admitted \union Terminal

\* Steps of complete() after its first transaction ...
CompletionSteps == {"provider_complete", "head", "head_after_error",
                    "restore", "head_failed", "record_completion"}
\* ... and of verify_and_analyze().
TaskSteps == {"begin", "claim_lease", "verify", "record_verified", "snapshot",
              "materialize", "reserve", "inspect", "save", "save_failed",
              "finish", "cleanup", "fail"}
Steps == {"idle", "claim_completion", "abort"} \union CompletionSteps \union TaskSteps

OpenMulti == {"empty"} \union AllPayloads

TypeOK ==
    /\ status \in [Sessions -> Statuses]
    /\ due \in [Sessions -> BOOLEAN] /\ cleaned \in [Sessions -> BOOLEAN]
    /\ pending \in [Sessions -> BOOLEAN] /\ hashed \in [Sessions -> BOOLEAN]
    /\ lease \in [Sessions -> {"unset", "held", "lapsed"}]
    /\ result \in [Sessions -> Sessions \union {None}]
    /\ content \in [Sessions -> Contents \union {None}]
    /\ again \in [Sessions -> BOOLEAN]
    /\ multi \in [Sessions -> {"none", "closed"} \union OpenMulti]
    /\ store \in [Sessions -> {"absent"} \union AllPayloads]
    /\ analysis \in [Sessions -> {"none", "reserved", "inspected", "failed"}]
    /\ idem \in [Sessions -> Sessions \union {None}]
    /\ pc \in [Procs -> Steps] /\ on \in [Procs -> Sessions \union {None}]
    /\ faults \in Nat /\ crashes \in Nat

Init ==
    /\ status   = [s \in Sessions |-> "absent"]
    /\ due      = [s \in Sessions |-> FALSE]
    /\ cleaned  = [s \in Sessions |-> FALSE]
    /\ pending  = [s \in Sessions |-> FALSE]
    /\ lease    = [s \in Sessions |-> "unset"]
    /\ hashed   = [s \in Sessions |-> FALSE]
    /\ result   = [s \in Sessions |-> None]
    /\ content  = [s \in Sessions |-> None]
    /\ again    = [s \in Sessions |-> FALSE]
    /\ multi    = [s \in Sessions |-> "none"]
    /\ store    = [s \in Sessions |-> "absent"]
    /\ analysis = [s \in Sessions |-> "none"]
    /\ idem     = [s \in Sessions |-> None]
    /\ pc       = [p \in Procs |-> "idle"]
    /\ on       = [p \in Procs |-> None]
    /\ faults = 0 /\ crashes = 0

-----------------------------------------------------------------------------
(* Building blocks.                                                         *)

\* A provider or disk failure, and a process that dies: each spends a budget.
Fault == faults < MaxFaults /\ faults' = faults + 1 /\ UNCHANGED crashes
Death == crashes < MaxCrashes /\ crashes' = crashes + 1 /\ UNCHANGED faults

Goto(p, step) == pc' = [pc EXCEPT ![p] = step] /\ UNCHANGED on
Start(p, s, step) == pc' = [pc EXCEPT ![p] = step] /\ on' = [on EXCEPT ![p] = s]
Stop(p) == pc' = [pc EXCEPT ![p] = "idle"] /\ on' = [on EXCEPT ![p] = None]

\* abort_multipart_upload treats an upload that is gone as aborted.
AbortMulti_Unlisted(T) == multi' = [t \in Sessions |-> IF t \in T THEN "aborted" ELSE multi[t]]
AbortMulti(T) == multi' = [t \in Sessions |-> IF t \in T THEN "closed" ELSE multi[t]]

\* _expire_record_if_needed: the test, and what initiate selects to reconcile.
ExpireNeeded(s) == status[s] \in Expirable /\ due[s]
Reconcilable_ActiveOnly ==
    {t \in Sessions : status[t] \in ActiveMultipart /\ due[t] /\ ~cleaned[t]}
Reconcilable == {t \in Sessions : status[t] \in Expirable /\ due[t] /\ ~cleaned[t]}

ActiveExcept(T) == {t \in Sessions \ T : status[t] \in Admitted}
HasCapacity_TransfersOnly ==
    Cardinality({t \in Sessions \ Reconcilable : status[t] \in ActiveMultipart}) < MaxActive
HasCapacity == Cardinality(ActiveExcept(Reconcilable)) < MaxActive

-----------------------------------------------------------------------------
(* Admission, expiry and cancellation.                                      *)

\* initiate: under the owner's advisory lock, the expired sessions are aborted
\* at the provider and recorded, the active ones counted, and a multipart
\* upload and its row created.
Initiate(s) ==
    /\ status[s] = "absent" /\ HasCapacity
    /\ status' = [t \in Sessions |-> IF t = s THEN "initiated"
                                     ELSE IF t \in Reconcilable THEN "expired"
                                     ELSE status[t]]
    /\ cleaned' = [t \in Sessions |-> cleaned[t] \/ t \in Reconcilable]
    /\ pending' = [t \in Sessions |-> pending[t] /\ t \notin Reconcilable]
    /\ multi' = [t \in Sessions |-> IF t = s THEN "empty"
                                    ELSE IF t \in Reconcilable THEN "closed"
                                    ELSE multi[t]]
    /\ \E c \in Contents, a \in BOOLEAN :
          content' = [content EXCEPT ![s] = c] /\ again' = [again EXCEPT ![s] = a]
    /\ UNCHANGED <<due, lease, hashed, result, store, dataVars, procVars, envVars>>

\* The transaction of initiate rolls back: over the limit, after a provider
\* error, or with a lost connection.  What the provider aborted stays aborted.
InitiateRolledBack(s) ==
    /\ status[s] = "absent"
    /\ \/ ~HasCapacity /\ AbortMulti(Reconcilable) /\ UNCHANGED envVars
       \/ (Fault \/ Death) /\ \E T \in SUBSET Reconcilable : AbortMulti(T)
    /\ UNCHANGED <<rowVars, store, dataVars, procVars>>

\* _expire_record_if_needed, reached from GET, from a same-key initiate and as
\* the first transaction of create_part_urls and complete.
Expire(s) ==
    /\ ExpireNeeded(s)
    /\ status' = [status EXCEPT ![s] = "expired"]
    /\ cleaned' = [cleaned EXCEPT ![s] = TRUE]
    /\ pending' = [pending EXCEPT ![s] = FALSE]
    /\ IF cleaned[s] THEN UNCHANGED multi ELSE AbortMulti({s})
    /\ UNCHANGED <<due, lease, hashed, result, content, again, store,
                   dataVars, procVars, envVars>>

\* The provider aborts, the commit of the row is lost.
AbortLost(s) ==
    /\ ExpireNeeded(s) /\ ~cleaned[s]
    /\ Death /\ AbortMulti({s})
    /\ UNCHANGED <<rowVars, store, dataVars, procVars>>

\* create_part_urls.  Its two transactions commute with everything else.
CreatePartUrls(s) ==
    /\ status[s] = "initiated" /\ ~ExpireNeeded(s)
    /\ status' = [status EXCEPT ![s] = "uploading"]
    /\ UNCHANGED <<due, cleaned, pending, lease, hashed, result, content, again,
                   storeVars, dataVars, procVars, envVars>>

\* abort, first transaction: the durable cancellation claim.
RequestAbort(p, s) ==
    /\ pc[p] = "idle" /\ status[s] \in Expirable
    /\ due' = [due EXCEPT ![s] = TRUE]
    /\ status' = [status EXCEPT ![s] = "expired"]
    /\ pending' = [pending EXCEPT ![s] = FALSE]
    /\ Start(p, s, "abort")
    /\ UNCHANGED <<cleaned, lease, hashed, result, content, again,
                   storeVars, dataVars, envVars>>

\* abort, second transaction: provider abort under the row lock.
Abort(p) == LET s == on[p] IN
    /\ pc[p] = "abort" /\ Stop(p)
    /\ \/ /\ status[s] \in Expirable
          /\ AbortMulti({s})
          /\ status' = [status EXCEPT ![s] = "aborted"]
          /\ cleaned' = [cleaned EXCEPT ![s] = TRUE]
          /\ UNCHANGED envVars
       \/ status[s] \notin Expirable /\ UNCHANGED <<status, cleaned, multi, envVars>>
       \/ status[s] \in Expirable /\ Fault /\ UNCHANGED <<status, cleaned, multi>>
       \/ status[s] \in Expirable /\ Death /\ AbortMulti({s}) /\ UNCHANGED <<status, cleaned>>
    /\ UNCHANGED <<due, pending, lease, hashed, result, content, again, store, dataVars>>

\* scripts/reconcile_multipart_uploads.py: _mark_aborted for one candidate.
ReconcileScript(s) ==
    /\ ExpireNeeded(s)
    /\ AbortMulti({s})
    /\ status' = [status EXCEPT ![s] = "aborted"]
    /\ cleaned' = [cleaned EXCEPT ![s] = TRUE]
    /\ pending' = [pending EXCEPT ![s] = FALSE]
    /\ UNCHANGED <<due, lease, hashed, result, content, again, store,
                   dataVars, procVars, envVars>>

\* The browser PUTs every part to the provider.
PutParts(s) ==
    /\ multi[s] = "empty"
    /\ \E b \in Payloads : multi' = [multi EXCEPT ![s] = b]
    /\ UNCHANGED <<rowVars, store, dataVars, procVars, envVars>>

-----------------------------------------------------------------------------
(* complete: claim, provider completion, metadata check.                    *)

\* First transaction of complete: nothing to expire.
RequestComplete(p, s) ==
    /\ pc[p] = "idle" /\ status[s] # "absent" /\ ~ExpireNeeded(s)
    /\ Start(p, s, "claim_completion")
    /\ UNCHANGED <<rowVars, storeVars, dataVars, envVars>>

\* Second transaction: a retry of a claimed completion goes on to schedule the
\* background task, a conflict ends the request.
Claimable_Retried(s) == status[s] \in ActiveMultipart \union {"completing"}
Claimable(s) == status[s] \in ActiveMultipart
ClaimCompletion(p) == LET s == on[p] IN
    /\ pc[p] = "claim_completion"
    /\ \/ /\ Claimable(s)
          /\ status' = [status EXCEPT ![s] = "completing"]
          /\ Goto(p, "provider_complete")
       \/ status[s] \in {"verifying", "analyzing"} /\ Goto(p, "begin") /\ UNCHANGED status
       \/ /\ ~Claimable(s) /\ status[s] \notin {"verifying", "analyzing"}
          /\ Stop(p) /\ UNCHANGED status
    /\ UNCHANGED <<due, cleaned, pending, lease, hashed, result, content, again,
                   storeVars, dataVars, envVars>>

\* complete_multipart_upload.  An error may hide a completion that happened.
ProviderComplete(p) == LET s == on[p] IN
    /\ pc[p] = "provider_complete"
    /\ \/ /\ multi[s] \in AllPayloads
          /\ store' = [store EXCEPT ![s] = multi[s]]
          /\ multi' = [multi EXCEPT ![s] = "closed"]
          /\ \/ Goto(p, "head") /\ UNCHANGED envVars
             \/ Goto(p, "head_after_error") /\ Fault
       \/ multi[s] \notin AllPayloads /\ Goto(p, "head_after_error") /\ UNCHANGED <<storeVars, envVars>>
       \/ Fault /\ Goto(p, "head_after_error") /\ UNCHANGED storeVars
    /\ UNCHANGED <<rowVars, dataVars>>

\* head_upload after either outcome.
HeadUpload(p) == LET s == on[p] IN
    /\ pc[p] \in {"head", "head_after_error"}
    /\ \/ store[s] # "absent" /\ Goto(p, "record_completion") /\ UNCHANGED envVars
       \/ /\ (store[s] = "absent" /\ UNCHANGED envVars) \/ Fault
          /\ Goto(p, IF pc[p] = "head" THEN "head_failed" ELSE "restore")
    /\ UNCHANGED <<rowVars, storeVars, dataVars>>

\* _restore_uploading.
Restorable_Swapped(s) == status[s] \in ActiveMultipart
Restorable(s) == status[s] = "completing"
RestoreUploading(p) == LET s == on[p] IN
    /\ pc[p] = "restore" /\ Stop(p)
    /\ status' = IF Restorable(s) THEN [status EXCEPT ![s] = "uploading"] ELSE status
    /\ UNCHANGED <<due, cleaned, pending, lease, hashed, result, content, again,
                   storeVars, dataVars, envVars>>

\* Last transaction of complete: the object's metadata against the row.
RecordCompletion(p) == LET s == on[p] IN
    /\ pc[p] = "record_completion"
    /\ \/ status[s] # "completing" /\ Stop(p) /\ UNCHANGED <<status, pending>>
       \/ /\ status[s] = "completing" /\ store[s] # "resized"
          /\ status' = [status EXCEPT ![s] = "verifying"] /\ Goto(p, "begin")
          /\ UNCHANGED pending
       \/ /\ status[s] = "completing" /\ store[s] = "resized"
          /\ status' = [status EXCEPT ![s] = "failed"] /\ Stop(p)
          /\ pending' = [pending EXCEPT ![s] = FALSE]
    /\ UNCHANGED <<due, cleaned, lease, hashed, result, content, again,
                   storeVars, dataVars, envVars>>

\* _fail.
Failable_Completed(s) == status[s] # "aborted" /\ ~pending[s]
Failable_Pending(s) == status[s] \notin {"completed", "aborted"}
Failable(s) == status[s] \notin {"completed", "aborted"} /\ ~pending[s]
Fail(p) == LET s == on[p] IN
    /\ pc[p] \in {"fail", "head_failed"} /\ Stop(p)
    /\ \/ /\ Failable(s)
          /\ status' = [status EXCEPT ![s] = "failed"]
          /\ pending' = [pending EXCEPT ![s] = FALSE]
       \/ ~Failable(s) /\ UNCHANGED <<status, pending>>
    /\ UNCHANGED <<due, cleaned, lease, hashed, result, content, again,
                   storeVars, dataVars, envVars>>

-----------------------------------------------------------------------------
(* verify_and_analyze: the background task.                                 *)

\* GET of a finalizing session schedules the task after the response.
Poll(p, s) ==
    /\ pc[p] = "idle" /\ status[s] \in {"verifying", "analyzing"}
    /\ Start(p, s, "begin")
    /\ UNCHANGED <<rowVars, storeVars, dataVars, envVars>>

\* The unlocked read that tells a pending duplicate cleanup.
Begin(p) ==
    /\ pc[p] = "begin"
    /\ Goto(p, IF pending[on[p]] THEN "cleanup" ELSE "claim_lease")
    /\ UNCHANGED <<rowVars, storeVars, dataVars, envVars>>

\* The transaction that takes the verification lease.
LeaseFree_Once(s) == lease[s] = "unset"
LeaseFree(s) == lease[s] # "held"
ClaimLease(p) == LET s == on[p] IN
    /\ pc[p] = "claim_lease"
    /\ \/ /\ status[s] \in {"verifying", "analyzing"} /\ LeaseFree(s)
          /\ lease' = [lease EXCEPT ![s] = "held"]
          /\ Goto(p, IF status[s] = "verifying" THEN "verify"
                     ELSE IF hashed[s] THEN "snapshot" ELSE "fail")
       \/ /\ status[s] \notin {"verifying", "analyzing"} \/ ~LeaseFree(s)
          /\ Stop(p) /\ UNCHANGED lease
    /\ UNCHANGED <<status, due, cleaned, pending, hashed, result, content, again,
                   storeVars, dataVars, envVars>>

LeaseLapses(s) ==
    /\ lease[s] = "held"
    /\ lease' = [lease EXCEPT ![s] = "lapsed"]
    /\ UNCHANGED <<status, due, cleaned, pending, hashed, result, content, again,
                   storeVars, dataVars, procVars, envVars>>

\* calculate_file_identity, calculate_sha256 and set_verified_checksum.
IdentityHolds_Unchecked(s) == store[s] # "absent"
IdentityHolds(s) == store[s] = "match"
Verify(p) == LET s == on[p] IN
    /\ pc[p] = "verify"
    /\ \/ IdentityHolds(s) /\ Goto(p, "record_verified") /\ UNCHANGED envVars
       \/ ~IdentityHolds(s) /\ Goto(p, "fail") /\ UNCHANGED envVars
       \/ Fault /\ Goto(p, "fail")
    /\ UNCHANGED <<rowVars, storeVars, dataVars>>

\* The transaction that moves the session to analyzing.
RecordVerified(p) == LET s == on[p] IN
    /\ pc[p] = "record_verified"
    /\ IF status[s] = "verifying"
       THEN /\ status' = [status EXCEPT ![s] = "analyzing"]
            /\ hashed' = [hashed EXCEPT ![s] = TRUE]
            /\ lease' = [lease EXCEPT ![s] = "held"]
            /\ Goto(p, "materialize")
       ELSE Stop(p) /\ UNCHANGED <<status, hashed, lease>>
    /\ UNCHANGED <<due, cleaned, pending, result, content, again,
                   storeVars, dataVars, envVars>>

\* A resumed task reads the row again.
Snapshot(p) == LET s == on[p] IN
    /\ pc[p] = "snapshot"
    /\ IF status[s] = "analyzing" THEN Goto(p, "materialize") ELSE Stop(p)
    /\ UNCHANGED <<rowVars, storeVars, dataVars, envVars>>

\* create_analysis_from_verified_object: workspace capacity and download.
Materialize(p) == LET s == on[p] IN
    /\ pc[p] = "materialize"
    /\ \/ store[s] # "absent" /\ Goto(p, "reserve") /\ UNCHANGED envVars
       \/ store[s] = "absent" /\ Goto(p, "fail") /\ UNCHANGED envVars
       \/ Fault /\ Goto(p, "fail")
    /\ UNCHANGED <<rowVars, storeVars, dataVars>>

\* What _find_uploaded_video_by_owner_and_checksum may return.
Duplicates_Inspected(s) ==
    {t \in Sessions : analysis[t] = "inspected" /\ content[t] = content[s]}
Duplicates(s) == {t \in Sessions : analysis[t] # "none" /\ content[t] = content[s]}

\* reserve_analysis with the key "direct-upload:<s>": a replay of the recorded
\* outcome, an exact duplicate, or a new analysis with its run.
Reserve(p) == LET s == on[p] IN
    /\ pc[p] = "reserve"
    /\ \/ idem[s] # None /\ Goto(p, "finish") /\ UNCHANGED dataVars
       \/ /\ idem[s] = None /\ ~again[s]
          /\ \E t \in Duplicates(s) : idem' = [idem EXCEPT ![s] = t]
          /\ Goto(p, "finish") /\ UNCHANGED analysis
       \/ /\ idem[s] = None
          /\ again[s] \/ Duplicates(s) = {}
          /\ idem' = [idem EXCEPT ![s] = s]
          /\ analysis' = [analysis EXCEPT ![s] = "reserved"]
          /\ Goto(p, "inspect")
    /\ UNCHANGED <<rowVars, storeVars, envVars>>

\* inspect_video: readable, rejected, or an unexpected exception.
Inspect(p) ==
    /\ pc[p] = "inspect"
    /\ \E step \in {"save", "save_failed", "fail"} : Goto(p, step)
    /\ UNCHANGED <<rowVars, storeVars, dataVars, envVars>>

\* save_job of the inspected or of the failed job.
SaveJob(p) == LET s == on[p] IN
    /\ pc[p] \in {"save", "save_failed"}
    /\ \/ /\ analysis' = [analysis EXCEPT ![s] = IF pc[p] = "save" THEN "inspected" ELSE "failed"]
          /\ Goto(p, IF pc[p] = "save" THEN "finish" ELSE "fail")
          /\ UNCHANGED envVars
       \/ Fault /\ Goto(p, "fail") /\ UNCHANGED analysis
    /\ UNCHANGED <<rowVars, storeVars, idem>>

\* The transaction that completes the session, or records the intent to delete
\* the duplicate object.
IsDuplicate_Ignored(s) == FALSE
IsDuplicate(s) == idem[s] # s
Finish(p) == LET s == on[p] IN
    /\ pc[p] = "finish"
    /\ IF status[s] = "analyzing"
       THEN /\ result' = [result EXCEPT ![s] = idem[s]]
            /\ IF IsDuplicate(s)
               THEN /\ pending' = [pending EXCEPT ![s] = TRUE]
                    /\ Goto(p, "cleanup") /\ UNCHANGED status
               ELSE /\ status' = [status EXCEPT ![s] = "completed"]
                    /\ Stop(p) /\ UNCHANGED pending
       ELSE Stop(p) /\ UNCHANGED <<status, pending, result>>
    /\ UNCHANGED <<due, cleaned, lease, hashed, content, again,
                   storeVars, dataVars, envVars>>

\* cleanup_duplicate: what allows the delete, and its transaction, entered by
\* the task or by POST /retry-cleanup.
CleanupAllowed(s) ==
    /\ pending[s] /\ ~again[s]
    /\ result[s] # s /\ analysis[s] = "none"
Cleanup(p, s) ==
    /\ \/ pc[p] = "cleanup" /\ on[p] = s
       \/ pc[p] = "idle" /\ status[s] # "absent"
    /\ Stop(p)
    /\ \/ /\ status[s] # "completed" /\ CleanupAllowed(s)
          /\ store' = [store EXCEPT ![s] = "absent"]
          /\ \/ /\ status' = [status EXCEPT ![s] = "completed"]
                /\ pending' = [pending EXCEPT ![s] = FALSE]
                /\ UNCHANGED envVars
             \/ Death /\ UNCHANGED <<status, pending>>
       \/ Fault /\ CleanupAllowed(s) /\ UNCHANGED <<status, pending, store>>
       \/ /\ status[s] = "completed" \/ ~CleanupAllowed(s)
          /\ UNCHANGED <<status, pending, store, envVars>>
    /\ UNCHANGED <<due, cleaned, lease, hashed, result, content, again, multi, dataVars>>

-----------------------------------------------------------------------------
\* A process dies between two steps: its local state is lost.
Crash(p) ==
    /\ pc[p] # "idle" /\ Death /\ Stop(p)
    /\ UNCHANGED <<rowVars, storeVars, dataVars>>

\* The session's time to live runs out.
TimeToLiveEnds(s) ==
    /\ status[s] # "absent" /\ ~due[s]
    /\ due' = [due EXCEPT ![s] = TRUE]
    /\ UNCHANGED <<status, cleaned, pending, lease, hashed, result, content, again,
                   storeVars, dataVars, procVars, envVars>>

ProcStep(p) ==
    \/ ClaimCompletion(p) \/ ProviderComplete(p) \/ HeadUpload(p) \/ RestoreUploading(p)
    \/ RecordCompletion(p) \/ Fail(p) \/ Begin(p) \/ ClaimLease(p) \/ Verify(p)
    \/ RecordVerified(p) \/ Snapshot(p) \/ Materialize(p) \/ Reserve(p) \/ Inspect(p)
    \/ SaveJob(p) \/ Finish(p) \/ Abort(p)
    \/ pc[p] = "cleanup" /\ Cleanup(p, on[p])

RequestStep(p, s) ==
    \/ RequestAbort(p, s) \/ RequestComplete(p, s) \/ Poll(p, s)
    \/ pc[p] = "idle" /\ Cleanup(p, s)

SessionStep(s) ==
    \/ Initiate(s) \/ InitiateRolledBack(s) \/ Expire(s) \/ AbortLost(s)
    \/ CreatePartUrls(s) \/ ReconcileScript(s) \/ PutParts(s)
    \/ LeaseLapses(s) \/ TimeToLiveEnds(s)

Next ==
    \/ \E p \in Procs : ProcStep(p) \/ Crash(p)
    \/ \E p \in Procs, s \in Sessions : RequestStep(p, s)
    \/ \E s \in Sessions : SessionStep(s)

Spec == Init /\ [][Next]_vars

\* Processes run on unless they die, leases run out, and the web client keeps
\* polling a session it sees finalizing.
Fairness ==
    /\ \A p \in Procs : WF_vars(ProcStep(p))
    /\ \A s \in Sessions : WF_vars(LeaseLapses(s)) /\ SF_vars(\E p \in Procs : Poll(p, s))
FairSpec == Spec /\ Fairness

-----------------------------------------------------------------------------
(* Properties.                                                              *)

\* The owner never holds more sessions than storage_max_active_uploads, however
\* admissions, completions that fall back to uploading, cancellations and
\* crashes interleave (initiate counts five statuses under an advisory lock).
CapacityRespected ==
    Cardinality({s \in Sessions : status[s] \in ActiveMultipart \union Finalizing}) <= MaxActive

\* Nor does the provider hold more unfinished multipart uploads of recorded
\* sessions: a cancellation or an expiry frees its place in the count before the
\* provider abort is known to have happened, so admission must finish it first.
ProviderCapacityRespected ==
    Cardinality({s \in Sessions : multi[s] \in OpenMulti}) <= MaxActive

\* The claim "completing" gives one request the provider completion, and nobody
\* takes the session away from it until it has recorded the outcome.
CompletionExclusive == \A p \in Procs : pc[p] \in CompletionSteps =>
    /\ status[on[p]] = "completing"
    /\ \A q \in Procs \ {p} : pc[q] \in CompletionSteps => on[q] # on[p]

\* An analysis is only ever created from the declared bytes, whichever of the
\* racing or resumed tasks creates it, and no duplicate cleanup deletes them.
AnalysedSourceIsDeclared == \A s \in Sessions : analysis[s] # "none" => store[s] = "match"

\* Two uploads of the same bytes yield two analyses only if reanalysis was asked.
OneAnalysisPerContent == \A s, t \in Sessions :
    s # t /\ analysis[s] # "none" /\ analysis[t] # "none" /\ content[s] = content[t]
        => again[s] \/ again[t]

\* A session answered with another session's analysis: that analysis exists and
\* is of the same bytes, and the extra copy is gone before the answer shows.
DuplicateAnswered == \A s \in Sessions :
    status[s] = "completed" /\ result[s] # s =>
        /\ analysis[result[s]] # "none" /\ content[result[s]] = content[s]
        /\ store[s] = "absent" /\ analysis[s] = "none"

\* The recorded intent to delete a duplicate survives every failure, lapse and
\* crash until the object is deleted and the session completed.
CleanupIntentDurable == [][\A s \in Sessions :
    pending[s] => pending'[s] \/ (status'[s] = "completed" /\ store'[s] = "absent")]_vars

-----------------------------------------------------------------------------
(* The inductive invariant: why the properties above hold.                  *)

\* A busy process has a session; while it completes one it owns the claim, and
\* a task works on a session that has left completion for good.
ProcInv ==
    /\ \A p \in Procs : pc[p] # "idle" => on[p] \in Sessions
    /\ CompletionExclusive
    /\ \A p \in Procs : pc[p] \in TaskSteps =>
          status[on[p]] \in {"verifying", "analyzing", "completed", "failed"}

\* The object of a session holds the declared bytes, or was deleted as a copy.
Sourced(s) == \/ store[s] = "match"
              \/ store[s] = "absent" /\ idem[s] \notin {None, s}

\* Steps that come after the verified checksum was recorded.
HashedSteps == {"snapshot", "materialize", "reserve", "inspect", "save",
                "save_failed", "finish", "cleanup"}

\* How far a session got is recorded before anything relies on it.
RowInv ==
    /\ \A s \in Sessions : hashed[s] =>
          Sourced(s) /\ status[s] \in {"analyzing", "completed", "failed"}
    /\ \A p \in Procs : pc[p] \in HashedSteps => hashed[on[p]]
    /\ \A p \in Procs : pc[p] = "record_verified" => Sourced(on[p])
    /\ \A p \in Procs : pc[p] \in {"inspect", "save", "save_failed"} => idem[on[p]] = on[p]
    /\ \A p \in Procs : pc[p] = "finish" => idem[on[p]] # None

\* The idempotency record, the analysis and the recorded result agree.
ResultInv == \A s \in Sessions :
    /\ idem[s] # None => hashed[s] /\ analysis[idem[s]] # "none" /\ content[idem[s]] = content[s]
    /\ analysis[s] # "none" <=> idem[s] = s
    /\ result[s] # None => result[s] = idem[s]
    /\ pending[s] => status[s] = "analyzing" /\ result[s] # None /\ result[s] # s
    /\ status[s] = "completed" => result[s] # None
    /\ status[s] = "completed" /\ result[s] # s => store[s] = "absent"

\* An unfinished multipart upload belongs to a session that is counted or that
\* the next admission aborts first.
MultiInv ==
    /\ \A s \in Sessions :
          /\ status[s] = "absent" => multi[s] = "none" /\ store[s] = "absent"
          /\ store[s] # "absent" \/ cleaned[s] => multi[s] = "closed"
          /\ multi[s] \in OpenMulti => status[s] \in ActiveMultipart \union {"completing"}
                                       \/ (status[s] = "expired" /\ due[s] /\ ~cleaned[s])
    /\ \A p \in Procs : pc[p] \in {"head", "head_failed"} => multi[on[p]] = "closed"
    /\ \A p \in Procs : pc[p] = "record_completion" => store[on[p]] # "absent"

IInv == /\ TypeOK /\ ProcInv /\ RowInv /\ ResultInv /\ MultiInv
        /\ OneAnalysisPerContent /\ CapacityRespected /\ ProviderCapacityRespected

-----------------------------------------------------------------------------
\* The abstract promise, seen through the status column.
PhaseOf(st) ==
    CASE st = "absent" -> "none"
      [] st \in ActiveMultipart -> "open"
      [] st \in Finalizing -> "finalizing"
      [] st \in {"expired", "aborted"} -> "withdrawn"
      [] st = "failed" -> "failed"
      [] OTHER -> "answered"
Promise == INSTANCE UploadPromise WITH
    Limit <- MaxActive,
    phase <- [s \in Sessions |-> PhaseOf(status[s])],
    answer <- [s \in Sessions |-> IF status[s] = "completed" THEN result[s] ELSE None],
    library <- {s \in Sessions : analysis[s] # "none"}
\* The service keeps the promise of UploadPromise.
KeepsPromise == Promise!PromiseSpec

\* A session that entered verification is decided, through crashes of its
\* workers and a bounded number of failures, as long as it is polled.
FinalizationDecided == \A s \in Sessions :
    status[s] \in {"verifying", "analyzing"} ~> status[s] \in {"completed", "failed"}

\* A session stays in "completing" for ever only if a process died.
CompletionResolves == \A s \in Sessions :
    status[s] = "completing" ~> status[s] # "completing" \/ crashes > 0

\* docs/platform/PHASE_1_8D2_DIRECT_MULTIPART_UPLOADS.md:21-22, "Failed, aborted,
\* and expired sessions do not create analyses."
UnsuccessfulCreatesNoAnalysis == \A s \in Sessions :
    status[s] \in {"failed", "aborted", "expired"} => analysis[s] = "none"

\* docs/platform/CONCURRENCY_AND_IDEMPOTENCY.md:35, "Retryable infrastructure
\* failure permits the same key to resume": a session that completes with its
\* own analysis has had its video inspected.
CompletedIsInspected == \A s \in Sessions :
    status[s] = "completed" /\ result[s] = s => analysis[s] = "inspected"
=============================================================================
