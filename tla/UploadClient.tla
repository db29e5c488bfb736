---------------------------- MODULE UploadClient ----------------------------
(***************************************************************************)
(* The upload page of the browser (web/components/upload-dropzone.tsx and  *)
(* upload-recovery-workspace.tsx) and the transfer it runs                 *)
(* (web/lib/api/analyses.ts), against the upload sessions of the API as    *)
(* DirectUpload details them.  A request that fails or is abandoned may    *)
(* have been served, may be served later, or never.                        *)
(***************************************************************************)
EXTENDS Naturals, FiniteSets, FiniteSetsExt

CONSTANTS
    Sessions, Count, Files, None,
    Workers, MaxAttempts,   \* max_concurrency, max_attempts
    MaxActive,              \* storage_max_active_uploads
    MaxFaults, MaxKeys   \* bounds: lost requests, lapses and reloads; clicks that need a key

Parts == 1 .. Count
ClientAssumption ==
    /\ Sessions \subseteq Nat \ {0} /\ IsFiniteSet(Sessions) /\ Count \in Nat \ {0}
    /\ None \notin Files /\ {MaxAttempts, MaxActive} \subseteq Nat \ {0}
    /\ {MaxFaults, MaxKeys} \subseteq Nat

VARIABLES
    status, due, keyOf, fileOf, againOf, stored,  \* upload sessions: rows and parts at the provider
    late,        \* requests nobody waits for
    view,        \* of the page: checking, failed, dropzone, recovered, done
    checking,    \* discoverUploads is under way
    file, key, session, duplicate,   \* of the dropzone: selected file and its refs
    listed,      \* the session last discovered, 0 for none, None before
    shown,       \* of the recovery page: its session as last read
    run,         \* createAnalysis or resume() under way
    workers, next, urls, got, skip,  \* uploadParts: workers, next part, signed parts, receipts
    release,     \* abortDirectUpload under way, and what follows it ("reload": canceled, looking again)
    canceled,    \* history: sessions the user canceled
    faults, keys
server == <<status, due, keyOf, fileOf, againOf, stored>>
dropzone == <<file, key, session, duplicate>>
transfer == <<workers, next, urls, got, skip>>
bounds == <<faults, keys>>
page == <<view, checking, dropzone, listed, shown>>
vars == <<server, late, page, run, transfer, release, canceled, bounds>>

Active == {"initiated", "uploading"}
NoParts == [p \in Parts |-> None]
Held(parts) == {p \in Parts : parts[p] # None}
NoRun == [step |-> "idle", from |-> "none", session |-> 0, key |-> 0, file |-> None, again |-> FALSE]
NoRelease == [session |-> 0, then |-> "nothing", file |-> None]
Asleep == [part |-> 0, attempt |-> 0, step |-> "idle"]
Nobody == [s |-> 0, status |-> "none", parts |-> NoParts]

Init ==
    /\ status = [s \in Sessions |-> "absent"] /\ due = [s \in Sessions |-> FALSE]
    /\ keyOf = [s \in Sessions |-> 0] /\ fileOf = [s \in Sessions |-> None]
    /\ againOf = [s \in Sessions |-> FALSE] /\ stored = [s \in Sessions |-> NoParts]
    /\ late = {} /\ view = "checking" /\ checking = TRUE
    /\ file = None /\ key = 0 /\ session = 0 /\ duplicate = FALSE
    /\ listed = None /\ shown = Nobody /\ run = NoRun
    /\ workers = [w \in Workers |-> Asleep] /\ next = 1 /\ urls = {} /\ got = NoParts /\ skip = {}
    /\ release = NoRelease /\ canceled = {} /\ faults = 0 /\ keys = 0

-----------------------------------------------------------------------------
(* What the API does with a request.                                        *)

Expired(s) == status[s] \in Active \union {"expired"} /\ due[s]
\* initiate: the session it answers with, 0 when the owner has no place left.
InitiateAt(k, f, again, s) ==
    LET old == {t \in Sessions : keyOf[t] = k}
        lapsed == {t \in Sessions : Expired(t)}
        held == {t \in Sessions \ lapsed : status[t] \in Active \union {"finalizing"}}
    IN  IF old # {}
        THEN /\ s \in old /\ UNCHANGED <<due, keyOf, fileOf, againOf, stored>>
             /\ status' = [status EXCEPT ![s] = IF Expired(s) THEN "expired" ELSE @]
        ELSE \/ /\ s \in Sessions /\ status[s] = "absent" /\ Cardinality(held) < MaxActive
                /\ \A t \in Sessions : t < s => status[t] # "absent"
                /\ status' = [t \in Sessions |-> CASE t = s -> "initiated" [] t \in lapsed -> "expired"
                                                   [] OTHER -> status[t]]
                /\ keyOf' = [keyOf EXCEPT ![s] = k] /\ fileOf' = [fileOf EXCEPT ![s] = f]
                /\ againOf' = [againOf EXCEPT ![s] = again] /\ UNCHANGED <<due, stored>>
             \/ s = 0 /\ Cardinality(held) >= MaxActive /\ UNCHANGED server
\* What initiate answers: a new session's part URLs, or that its key is known.
PresignedParts(s) == IF status'[s] \in Active THEN Parts ELSE {}
InitiateResponse(s) == [resumed |-> keyOf[s] # 0, parts |-> PresignedParts(s)]
\* create_part_urls.
Signed(s) == status[s] \in Active /\ ~due[s]
SignAt(s) ==
    /\ status' = [status EXCEPT ![s] = IF Expired(s) THEN "expired"
                                       ELSE IF @ = "initiated" THEN "uploading" ELSE @]
    /\ UNCHANGED <<due, keyOf, fileOf, againOf, stored>>
\* A signed PUT at the provider, while the multipart upload is open.
PutAt(s, p, f) ==
    /\ stored' = IF status[s] \in Active THEN [stored EXCEPT ![s][p] = f] ELSE stored
    /\ UNCHANGED <<status, due, keyOf, fileOf, againOf>>
\* complete: the provider accepts the receipts of the parts it holds, or the
\* session stays open.
Completes(s, receipts) == status[s] \in Active /\ ~due[s] /\ Held(receipts) = Parts
CompleteAt(s, receipts) ==
    /\ status' = [status EXCEPT ![s] =
           IF Expired(s) THEN "expired"
           ELSE IF Completes(s, receipts) /\ receipts = stored[s] THEN "finalizing" ELSE @]
    /\ UNCHANGED <<due, keyOf, fileOf, againOf, stored>>
\* abort.
AbortAt(s) ==
    /\ status' = [status EXCEPT ![s] = IF @ \in Active \union {"expired"} THEN "aborted" ELSE @]
    /\ UNCHANGED <<due, keyOf, fileOf, againOf, stored>>
\* recovery: status and listed parts.
Snapshot(s) == [s |-> s, status |-> IF status[s] \in Active /\ due[s] THEN "expired" ELSE status[s],
                parts |-> IF status[s] \in Active THEN stored[s] ELSE NoParts]
\* The status of a session, with its result only once it has completed: an
\* analysis of its own, or the one of an exact duplicate unless asked again.
StatusResponse(s) == [status |-> IF Expired(s) THEN "expired" ELSE status[s],
                      duplicate |-> IF status[s] = "completed" THEN {FALSE, ~againOf[s]} ELSE {}]
Discovered == {s \in Sessions : status[s] \in Active \union {"finalizing"}}

Client == <<page, run, transfer, release, canceled>>
\* Time passes, and the background task verifies, or gives up.
Lapse(s) == /\ status[s] \in Active /\ ~due[s] /\ faults < MaxFaults /\ faults' = faults + 1
            /\ due' = [due EXCEPT ![s] = TRUE]
            /\ UNCHANGED <<status, keyOf, fileOf, againOf, stored, late, Client, keys>>
Verified(s) == /\ status[s] = "finalizing"
               /\ status' = [status EXCEPT ![s] = IF \A p \in Parts : stored[s][p] = fileOf[s]
                                                  THEN "completed" ELSE "failed"]
               /\ UNCHANGED <<due, keyOf, fileOf, againOf, stored, late, Client, bounds>>
VerificationFails(s) ==
    /\ status[s] = "finalizing" /\ faults < MaxFaults /\ faults' = faults + 1
    /\ status' = [status EXCEPT ![s] = "failed"]
    /\ UNCHANGED <<due, keyOf, fileOf, againOf, stored, late, Client, keys>>
\* An abandoned request arrives after all, or never.
Land == \E r \in late :
    /\ late' = late \ {r}
    /\ \/ UNCHANGED server
       \/ r.op = "initiate" /\ \E s \in Sessions \union {0} : InitiateAt(r.key, r.file, r.again, s)
       \/ r.op = "put" /\ PutAt(r.session, r.part, r.file)
       \/ r.op = "complete" /\ CompleteAt(r.session, r.receipts)
       \/ r.op = "delete" /\ AbortAt(r.session)
    /\ UNCHANGED <<Client, bounds>>

-----------------------------------------------------------------------------
(* How a run ends.                                                          *)

Request(op, fields) == [op |-> op, key |-> fields.key, file |-> fields.file, again |-> fields.again,
                        session |-> fields.session, part |-> 0, receipts |-> NoParts]
Delete(s) == [Request("delete", NoRun) EXCEPT !.session = s]
Put(w) == [Request("put", run) EXCEPT !.part = workers[w].part]
\* The requests that an abort leaves to themselves.
InFlight == CASE run.step = "initiate" -> {Request("initiate", run)}
              [] run.step = "complete" -> {[Request("complete", run) EXCEPT !.receipts = got]}
              [] run.step = "transfer" -> {Put(w) : w \in {v \in Workers : workers[v].step = "put"}}
              [] OTHER -> {}
NoTransfer == /\ workers' = [w \in Workers |-> Asleep] /\ next' = 1 /\ urls' = {}
              /\ got' = NoParts /\ skip' = {}
\* The catch of transferDirect and the effects that unmount a component: the
\* transfer stops, the session and its parts stay.
Abandoned == InFlight
Stops == late' = late \union Abandoned /\ run' = NoRun /\ NoTransfer

Releasing == release # NoRelease
Pending == run.from = "dropzone"
\* onError of the dropzone, the catch of resume(): the latest state is read
\* again if it can be.
Fails(kind) ==
    /\ Stops
    /\ IF Pending
       THEN /\ checking' = (checking \/ (~Releasing /\ (session # 0 \/ kind = "capacity")))
            /\ session' = IF kind = "terminal" THEN 0 ELSE session
            /\ key' = IF kind = "terminal" THEN 0 ELSE key
            /\ UNCHANGED <<file, duplicate, shown>>
       ELSE shown' \in {shown, Snapshot(shown.s)} /\ UNCHANGED <<checking, dropzone>>
    /\ UNCHANGED <<view, listed, release, canceled>>
\* onSuccess, finish.
Succeeds(isDuplicate) ==
    /\ run' = NoRun /\ NoTransfer
    /\ IF Pending THEN session' = 0 /\ duplicate' = isDuplicate ELSE UNCHANGED <<session, duplicate>>
    /\ view' = IF isDuplicate /\ Pending THEN "dropzone" ELSE "done"
    /\ UNCHANGED <<late, checking, file, key, listed, shown, release, canceled>>

Continue(step) == run' = [run EXCEPT !.step = step]
Local == <<late, page, release, canceled, bounds>>
\* A bounded number of requests fail on the way, served or not.
Fault == faults < MaxFaults /\ faults' = faults + 1 /\ UNCHANGED <<server, keys>>
Loss == Fault /\ Fails("network")

-----------------------------------------------------------------------------
(* createAnalysisDirect and resume().                                       *)

Identify == /\ run.step = "identity" /\ Continue(IF Pending THEN "initiate" ELSE "resume")
            /\ UNCHANGED <<server, transfer, Local>>

\* resumeTransfer: an open session continues with the parts it has.
Resume(snapshot) ==
    IF snapshot.status \in Active
    THEN /\ Continue("transfer") /\ got' = snapshot.parts /\ skip' = Held(snapshot.parts)
         /\ UNCHANGED <<workers, next, urls>>
    ELSE Continue("wait") /\ UNCHANGED transfer
Initiate ==
    /\ run.step = "initiate"
    /\ \/ \E s \in Sessions :
            /\ InitiateAt(run.key, run.file, run.again, s) /\ session' = s
            /\ IF InitiateResponse(s).resumed
               THEN run' = [run EXCEPT !.session = s, !.step = "recover"] /\ UNCHANGED transfer
               ELSE /\ run' = [run EXCEPT !.session = s, !.step = "transfer"]
                    /\ urls' = InitiateResponse(s).parts
                    /\ UNCHANGED <<workers, next, got, skip>>
            /\ UNCHANGED <<late, view, checking, file, key, duplicate, listed, shown, release, canceled, bounds>>
       \/ InitiateAt(run.key, run.file, run.again, 0) /\ Fails("capacity") /\ UNCHANGED bounds
       \/ Loss
Recover ==
    /\ run.step = "recover"
    /\ (Resume(Snapshot(run.session)) /\ UNCHANGED <<server, Local>>) \/ Loss
\* POST resume: the file must be the one the session was initiated for.
SameFile_Unchecked == TRUE
SameFile == run.file = fileOf[run.session]
ResumeSession ==
    /\ run.step = "resume"
    /\ \/ SameFile /\ Resume(Snapshot(run.session)) /\ UNCHANGED <<server, Local>>
       \/ ~SameFile /\ Fails("mismatch") /\ UNCHANGED <<server, bounds>>
       \/ Loss
\* resume() of the recovery page: the session is read first.
Check ==
    /\ run.step = "check"
    /\ \/ LET now == Snapshot(run.session)
              ended == now.status \in {"finalizing", "completed"}
              whole == Held(now.parts) = Parts
          IN  /\ \/ /\ ended \/ whole \/ run.file # None
                    /\ Continue(IF ended THEN "wait" ELSE IF whole THEN "complete" ELSE "identity")
                    /\ got' = IF whole THEN now.parts ELSE got
                    /\ shown' = now
                    /\ UNCHANGED <<late, view, checking, dropzone, listed, workers, next, urls, skip, release, canceled>>
                 \/ ~ended /\ ~whole /\ run.file = None /\ Fails("reselect")
              /\ UNCHANGED <<server, bounds>>
       \/ Loss

\* completeDirectUpload.  A session that another request is completing is a
\* conflict until the provider has answered that request.
Complete ==
    /\ run.step = "complete"
    /\ \/ /\ CompleteAt(run.session, got) /\ UNCHANGED bounds
          /\ \/ /\ {status[run.session], status'[run.session]} \intersect {"finalizing", "completed"} # {}
                /\ Continue("wait") /\ UNCHANGED <<transfer, late, page, release, canceled>>
             \/ /\ status'[run.session] # "finalizing" \/ status[run.session] = "finalizing"
                /\ status[run.session] # "completed" /\ Fails("conflict")
       \/ Loss
\* waitForUploadResult.  A completed session answers with its analysis, or with
\* the one there is of the same content.
Wait ==
    /\ run.step = "wait"
    /\ LET s == run.session IN
       \/ /\ \E d \in StatusResponse(s).duplicate : Succeeds(d)
          /\ UNCHANGED <<server, bounds>>
       \/ /\ StatusResponse(s).status \in {"failed", "aborted", "expired"}
          /\ status' = [status EXCEPT ![s] = StatusResponse(s).status]
          /\ Fails("terminal") /\ UNCHANGED <<due, keyOf, fileOf, againOf, stored, bounds>>
       \/ Loss

-----------------------------------------------------------------------------
(* uploadParts.                                                             *)

Worker(w, step) == workers' = [workers EXCEPT ![w].step = step]
\* A part is signed again when it has no address, or one about to expire.
Attempt(w, p, n) ==
    \E step \in {"url"} \union (IF p \in urls THEN {"put"} ELSE {}) :
        workers' = [workers EXCEPT ![w] = [part |-> p, attempt |-> n, step |-> step]]
Ahead == {p \in Parts : p >= next} \ skip
Take(w) ==
    /\ run.step = "transfer" /\ workers[w].step = "idle"
    /\ IF Ahead = {} THEN Worker(w, "done") /\ next' = Count + 1
       ELSE Attempt(w, Min(Ahead), 1) /\ next' = Min(Ahead) + 1
    /\ UNCHANGED <<server, run, urls, got, skip, Local>>
\* The next attempt of w, the failure of the whole transfer after the last.
Again(w) == /\ workers[w].attempt < MaxAttempts
            /\ Attempt(w, workers[w].part, workers[w].attempt + 1)
            /\ UNCHANGED <<run, next, urls, got, skip, page, release, canceled>>
Refused(w, kind) == \/ Again(w) /\ UNCHANGED late
                    \/ workers[w].attempt = MaxAttempts /\ Fails(kind)
\* refreshPartUrl: a 401 ends the transfer at once, anything else the attempt.
RefreshPartUrl(w) ==
    /\ run.step = "transfer" /\ workers[w].step = "url"
    /\ \/ /\ Signed(run.session) /\ SignAt(run.session)
          /\ urls' = urls \union {workers[w].part} /\ Worker(w, "put")
          /\ UNCHANGED <<run, next, got, skip, Local>>
       \/ ~Signed(run.session) /\ SignAt(run.session) /\ Refused(w, "conflict") /\ UNCHANGED bounds
       \/ Fault /\ (Refused(w, "network") \/ Fails("unauthorized"))
\* uploadPart: the receipt arrives; or the upload is closed; or the receipt is
\* lost or the part stalls.
UploadPart(w) ==
    /\ run.step = "transfer" /\ workers[w].step = "put"
    /\ \/ /\ status[run.session] \in Active /\ PutAt(run.session, workers[w].part, run.file)
          /\ got' = [got EXCEPT ![workers[w].part] = run.file] /\ Worker(w, "idle")
          /\ UNCHANGED <<run, next, urls, skip, Local>>
       \/ status[run.session] \notin Active /\ Refused(w, "refused") /\ UNCHANGED <<server, bounds>>
       \/ Fault /\ \/ Again(w) /\ late' = late \union {Put(w)}
                   \/ workers[w].attempt = MaxAttempts /\ Fails("network")
Transferred ==
    /\ run.step = "transfer" /\ \A w \in Workers : workers[w].step = "done"
    /\ Continue("complete") /\ UNCHANGED <<server, transfer, Local>>

-----------------------------------------------------------------------------
(* The page.                                                                *)

Fresh == keys + 1
NewKey == keys < MaxKeys /\ keys' = Fresh
Forget == file' = None /\ key' = 0 /\ session' = 0 /\ duplicate' = FALSE

\* A component leaves the page: its run stops, its refs are gone, and a release
\* of it has nothing to continue with.
Unmount ==
    /\ Stops /\ Forget /\ checking' = (Pending /\ session # 0 /\ ~Releasing)
    /\ release' = CASE release.then \in {"choose", "reset"} -> [release EXCEPT !.then = "nothing"]
                   [] release.then = "reload" -> NoRelease [] OTHER -> release
Stay == UNCHANGED <<dropzone, late, run, transfer, release>> /\ checking' = FALSE
\* discoverUploads, on mount, on request and when a dropzone is interrupted.
Discover ==
    /\ checking /\ UNCHANGED <<server, canceled, keys>>
    /\ \/ /\ Discovered # {} /\ view' = "recovered" /\ listed' = Min(Discovered)
          /\ IF view = "recovered" /\ shown.s = listed' THEN Stay /\ UNCHANGED shown
             ELSE Unmount /\ shown' = Snapshot(listed')
          /\ UNCHANGED faults
       \/ /\ Discovered = {} /\ view' = "dropzone" /\ listed' = 0 /\ shown' = Nobody
          /\ IF view = "dropzone" THEN Stay ELSE Unmount
          /\ UNCHANGED faults
       \/ /\ faults < MaxFaults /\ faults' = faults + 1
          /\ view' = "failed" /\ shown' = Nobody /\ UNCHANGED listed /\ Unmount
\* Check for upload: what was listed before is shown meanwhile.
CheckAgain ==
    /\ view = "failed" /\ ~checking /\ checking' = TRUE
    /\ shown' = IF listed \in Sessions THEN Snapshot(listed) ELSE Nobody
    /\ view' = CASE listed = None -> "checking" [] listed = 0 -> "dropzone" [] OTHER -> "recovered"
    /\ UNCHANGED <<server, late, dropzone, listed, run, transfer, release, canceled, bounds>>
\* The user reloads the page, or comes back to it, at any moment.
ReloadPage ==
    /\ faults < MaxFaults /\ faults' = faults + 1
    /\ view' = "checking" /\ checking' = TRUE /\ listed' = None /\ shown' = Nobody /\ Forget
    /\ run' = NoRun /\ NoTransfer /\ release' = NoRelease
    /\ late' = late \union Abandoned \union (IF Releasing THEN {Delete(release.session)} ELSE {})
    /\ UNCHANGED <<server, canceled, keys>>

\* abortDirectUpload, asked for by the user, and what follows its answer.
Release(s, then, f) ==
    release' = [session |-> s, then |-> then, file |-> f] /\ canceled' = canceled \union {s}
NoneReleased == UNCHANGED <<release, canceled>>
Chosen(f) == file' = f /\ NewKey /\ key' = Fresh /\ duplicate' = FALSE
Cleared == file' = None /\ key' = 0 /\ duplicate' = FALSE
Deletable(s) == status[s] \in Active \union {"expired", "aborted"}
\* releasePreviousUpload, cancel(): the refs go only with a confirmed DELETE.
Released ==
    /\ Releasing /\ release.then # "reload"
    /\ \/ /\ Deletable(release.session) /\ AbortAt(release.session)
          /\ IF release.then = "cancel" THEN UNCHANGED <<session, file, key, duplicate, keys>>
             ELSE /\ session' = 0
                  /\ CASE release.then = "choose" -> Chosen(release.file)
                       [] release.then = "reset" -> Cleared /\ UNCHANGED keys
                       [] OTHER -> key' = 0 /\ UNCHANGED <<file, duplicate, keys>>
          /\ checking' = (checking \/ release.then \in {"cancel", "interrupted"})
          /\ release' = IF release.then = "cancel" /\ view = "recovered" /\ shown.s = release.session
                        THEN [release EXCEPT !.then = "reload"] ELSE NoRelease
          /\ UNCHANGED <<late, faults>>
       \/ /\ ~Deletable(release.session) /\ UNCHANGED <<server, late, dropzone, keys, faults>>
          /\ release' = NoRelease
          /\ checking' = (checking \/ release.then = "interrupted")
       \/ /\ faults < MaxFaults /\ faults' = faults + 1 /\ late' = late \union {Delete(release.session)}
          /\ release' = NoRelease
          /\ checking' = (checking \/ release.then = "interrupted") /\ UNCHANGED <<server, dropzone, keys>>
    /\ UNCHANGED <<view, listed, shown, run, transfer, canceled>>

InDropzone == view = "dropzone"
Still == <<server, late, view, listed, shown, transfer, faults>>
\* chooseFile: the session of the previous file is released first.
ChooseFile(f) ==
    /\ InDropzone /\ ~Pending /\ ~Releasing
    /\ IF session = 0 THEN Chosen(f) /\ UNCHANGED session /\ NoneReleased
       ELSE Release(session, "choose", f) /\ UNCHANGED <<dropzone, keys>>
    /\ UNCHANGED <<Still, run, checking>>
ChooseSport ==
    /\ InDropzone /\ ~Pending /\ NewKey /\ key' = Fresh /\ duplicate' = FALSE
    /\ UNCHANGED <<Still, run, checking, file, session>> /\ NoneReleased
Started(from, step, s, k, f, again) ==
    run' = [step |-> step, from |-> from, session |-> s, key |-> k, file |-> f, again |-> again]
\* submit: the key of an attempt that was not seen to end is used again.
Submit ==
    /\ InDropzone /\ ~Pending /\ ~Releasing /\ file # None /\ ~duplicate
    /\ IF key = 0 THEN NewKey /\ key' = Fresh ELSE UNCHANGED <<key, keys>>
    /\ Started("dropzone", "identity", 0, key', file, FALSE)
    /\ UNCHANGED <<Still, checking, file, session, duplicate>> /\ NoneReleased
AnalyzeAgain ==
    /\ InDropzone /\ ~Pending /\ duplicate /\ file # None /\ NewKey
    /\ Started("dropzone", "identity", 0, Fresh, file, TRUE)
    /\ UNCHANGED <<Still, checking, dropzone>> /\ NoneReleased
DismissDuplicate ==
    /\ InDropzone /\ ~Pending /\ duplicate /\ duplicate' = FALSE
    /\ UNCHANGED <<Still, run, checking, file, key, session, keys>> /\ NoneReleased
\* reset: a run is stopped, its session released, and the page looks again for
\* uploads; otherwise the form is cleared once its session is released.
Reset ==
    /\ InDropzone /\ ~Releasing /\ file # None
    /\ IF Pending
       THEN /\ Stops /\ UNCHANGED dropzone
            /\ IF session = 0 THEN checking' = TRUE /\ NoneReleased
               ELSE Release(session, "interrupted", None) /\ UNCHANGED checking
       ELSE /\ UNCHANGED <<late, run, transfer, checking, session>>
            /\ IF session = 0 THEN Cleared /\ NoneReleased
               ELSE Release(session, "reset", None) /\ UNCHANGED <<file, key, duplicate>>
    /\ UNCHANGED <<server, view, listed, shown, bounds>>

\* The recovery page: Resume, Finish or Check progress, and Cancel.
Finalizing == shown.status \in {"finalizing", "completed"}
AllParts == Held(shown.parts) = Parts
Recovered == view = "recovered" /\ ~Releasing
ResumeUpload(f) ==
    /\ Recovered /\ run = NoRun
    /\ shown.status # "expired" /\ (Finalizing \/ AllParts \/ f # None)
    /\ Started("recovered", "check", shown.s, 0, f, FALSE)
    /\ UNCHANGED <<Still, dropzone, checking, keys>> /\ NoneReleased
CancelUpload ==
    /\ Recovered /\ ~Finalizing
    /\ Stops /\ Release(shown.s, "cancel", None)
    /\ UNCHANGED <<server, page, bounds>>

-----------------------------------------------------------------------------
Next ==
    \/ \E s \in Sessions : Lapse(s) \/ Verified(s) \/ VerificationFails(s)
    \/ Land \/ Identify \/ Initiate \/ Recover \/ ResumeSession \/ Check \/ Complete \/ Wait
    \/ \E w \in Workers : Take(w) \/ RefreshPartUrl(w) \/ UploadPart(w)
    \/ Transferred \/ Discover \/ CheckAgain \/ ReloadPage \/ Released
    \/ \E f \in Files : ChooseFile(f) \/ ResumeUpload(f)
    \/ ResumeUpload(None) \/ ChooseSport \/ Submit \/ AnalyzeAgain \/ DismissDuplicate \/ Reset \/ CancelUpload
Spec == Init /\ [][Next]_vars

-----------------------------------------------------------------------------
(* Properties.                                                              *)

TypeOK ==
    /\ status \in [Sessions -> {"absent", "finalizing", "completed", "failed", "aborted", "expired"} \union Active]
    /\ stored \in [Sessions -> [Parts -> Files \union {None}]]
    /\ view \in {"checking", "failed", "dropzone", "recovered", "done"} /\ checking \in BOOLEAN
    /\ file \in Files \union {None} /\ session \in Sessions \union {0} /\ shown.s \in Sessions \union {0}
    /\ run.step \in {"idle", "identity", "initiate", "recover", "resume", "check", "transfer", "complete", "wait"}
    /\ next \in 1 .. Count + 1 /\ urls \subseteq Parts /\ skip \subseteq Parts

\* What goes to verification is one whole file, the one the session was opened
\* for, however often the transfer was stopped, resumed with another file
\* selected, or retried while a part was still on its way (recovery, complete).
FinalizedIsOneFile ==
    \A s \in Sessions : status[s] \in {"finalizing", "completed"} =>
        \A p \in Parts : stored[s][p] = fileOf[s]
\* A receipt the transfer holds is of a part the provider holds, and the
\* workers never send one part twice at a time or a part already received.
ReceiptsAreBacked ==
    /\ run.session # 0 /\ status[run.session] \in Active =>
           \A p \in Held(got) : stored[run.session][p] = got[p]
    /\ \A v, w \in {x \in Workers : workers[x].step \in {"put", "url"}} :
           workers[v].part \notin Held(got) /\ (v # w => workers[v].part # workers[w].part)
\* "Only an explicit user cancellation may destroy the durable session": a
\* failed, stopped or reloaded transfer leaves it (transferDirect, Unmount).
OnlyUserDestroys == \A s \in Sessions : status[s] = "aborted" => s \in canceled
\* A run of the dropzone never works on a session of another file or key.
RunsOwnSession ==
    run.session # 0 /\ run.from = "dropzone" => keyOf[run.session] = run.key /\ fileOf[run.session] = run.file
UploadPageHonest == TypeOK /\ FinalizedIsOneFile /\ ReceiptsAreBacked /\ OnlyUserDestroys /\ RunsOwnSession

\* "Preserve the key after an ambiguous network failure so retry can recover a
\* committed initiation" (upload-dropzone.tsx): broken by Analyze Again.
RetryRecoversInitiation ==
    view = "dropzone" /\ ~Pending /\ duplicate =>
        \A r \in late : r.op = "initiate" /\ r.again /\ r.file = file => key = r.key
\* A session the recovery page shows can be resumed, finished or canceled:
\* broken once it is failed, which neither of its buttons leaves.
RecoveryLeadsOut == ~(view = "recovered" /\ ~checking /\ run = NoRun /\ ~Releasing /\ shown.status = "failed")
=============================================================================
