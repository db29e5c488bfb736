--------------------------- MODULE WorkflowStages ---------------------------
(***************************************************************************)
(* The interactive stages of one analysis (src/app/services/jobs/          *)
(* workflow.py): calibration, its confirmation, tracking, the review of    *)
(* candidates, analytics and the active-play evidence.  A stage loads the  *)
(* job, computes files in the workspace from other files there and saves   *)
(* the job, which registers the files of the workspace as current and      *)
(* retires what the change of calibration or of selection made stale       *)
(* (persist_job).                                                          *)
(*                                                                         *)
(* With object storage every request has its own workspace, filled from    *)
(* the current registrations; with local storage all requests share one    *)
(* and a stage that fails leaves its files behind.  A stage may fail or    *)
(* its process may die after each of its writes, and start_run may move    *)
(* the row version under it.  Stages hold the exclusive media lock, so one *)
(* runs at a time, and reads happen only between stages - but for the      *)
(* tracking diagnostic (src/app/services/tracking/diagnostic.py), which    *)
(* with object storage transfers what it reads without the lock.           *)
(***************************************************************************)
EXTENDS Naturals

CONSTANTS
    Players,            \* candidates that may be selected
    MaxCalibrations,    \* bound: calibrations submitted
    MaxVersion          \* bound: row versions, for each provider

WorkflowAssumption ==
    /\ MaxCalibrations \in Nat /\ MaxVersion \in [{"s3", "local"} -> Nat]
    /\ {"none", "absent"} \intersect Players = {}

VARIABLES
    provider,   \* the storage setting, "s3" or "local", fixed at start-up
    job,        \* job_payload and row_version
    reg,        \* artifacts registered with is_current: the contents registered
    files,      \* the workspace
    calibrations,   \* calibration ids handed out
    call,       \* the stage that runs: operation, step, and what it will save
    diag        \* the tracking diagnostic: its step, what it reads, what was current when it answered

vars == <<provider, job, reg, files, calibrations, call, diag>>

Choice    == Players \union {"none"}
Evidence  == [calib : 0..MaxCalibrations, sel : Choice]
NoResult  == [calib |-> 0, sel |-> "none"]
Job       == [calib : 0..MaxCalibrations, verified : BOOLEAN, tracked : BOOLEAN,
              sel : Evidence, analytics : BOOLEAN, version : Nat]
Contents  == [tracking : 0..MaxCalibrations,     \* tracking.json: its calibration, 0 if absent
              chosen : Choice,                   \*   and the selection it repeats
              cand : Choice \union {"absent"},   \* player_candidates.json: the selection
              analytics : Evidence,              \* analytics.json: what it was computed from
              play : Evidence,                   \* active_play.json
              picked : Choice]                   \* player_selections: the current row
NoFiles   == [tracking |-> 0, chosen |-> "none", cand |-> "absent",
              analytics |-> NoResult, play |-> NoResult, picked |-> "none"]
NewJob    == [calib |-> 0, verified |-> FALSE, tracked |-> FALSE, sel |-> NoResult,
              analytics |-> FALSE, version |-> 1]
Idle      == [op |-> "idle", pc |-> "idle", arg |-> "none", new |-> NewJob]
Quiet     == [pc |-> "quiet", seen |-> NoFiles, court |-> 0, player |-> NoResult]

Reviews == {"select", "reject", "restore", "merge", "unmerge", "generate"}
Ops   == {"detect", "calibrate", "confirm", "track", "analyze", "play"} \union Reviews
Steps == {"edit", "edit2", "choose", "rebuild", "refresh", "compute", "save", "saveTracking", "saveLineage"}

TypeOK ==
    /\ provider \in {"s3", "local"}
    /\ job \in Job /\ reg \in Contents /\ files \in Contents
    /\ calibrations \in 0..MaxCalibrations
    /\ call \in {Idle} \union [op : Ops, pc : Steps, arg : Choice, new : Job]
    /\ diag \in [pc : {"quiet", "transfer", "agreed", "answered"}, seen : Contents,
                  court : 0..MaxCalibrations, player : Evidence]

Init ==
    /\ provider \in {"s3", "local"}
    /\ job = NewJob /\ reg = NoFiles /\ files = NoFiles
    /\ calibrations = 0 /\ call = Idle /\ diag = Quiet

-----------------------------------------------------------------------------
Materialized == IF provider = "s3" THEN reg ELSE files

\* What a reader gets: registered, and with local storage still in the workspace.
Readable(field, none) ==
    IF provider = "s3" \/ reg[field] = none THEN reg[field] ELSE files[field]

Begin(op, arg, step) ==
    /\ call = Idle
    /\ call' = [op |-> op, pc |-> step, arg |-> arg, new |-> job]
    /\ files' = Materialized
    /\ UNCHANGED <<job, reg>>

At(op, pc)    == call.op = op /\ call.pc = pc
Goto(pc)      == call' = [call EXCEPT !.pc = pc]
Saving(pc, n) == call' = [call EXCEPT !.pc = pc, !.new = n]
Saved         == call.new

-----------------------------------------------------------------------------
\* persist_job: the conditions on what is saved and what was.
Recalibrated(old, new) ==
    new.calib # 0 /\ new.calib # old.calib /\ ~new.verified /\ ~new.tracked
Reselected(old, new) == new.sel # old.sel \/ (old.analytics /\ ~new.analytics)

Retired_PlayOnly(r, old, new) ==
    IF Recalibrated(old, new) THEN NoFiles
    ELSE IF Reselected(old, new) THEN [r EXCEPT !.play = NoResult]
    ELSE r
Retired(r, old, new) ==
    IF Recalibrated(old, new) THEN NoFiles
    ELSE IF Reselected(old, new) THEN [r EXCEPT !.analytics = NoResult, !.play = NoResult]
    ELSE r

\* _persist_player_selection: the row follows tracking.json of the workspace.
Picked == IF files.tracking # 0 THEN files.chosen ELSE "none"

\* Files of the workspace are registered, except results the save retires.
Registered(r, old, new) ==
    LET results == ~Reselected(old, new)
    IN  [tracking  |-> IF files.tracking # 0 THEN files.tracking ELSE r.tracking,
         chosen    |-> IF files.tracking # 0 THEN files.chosen ELSE r.chosen,
         cand      |-> IF files.cand # "absent" THEN files.cand ELSE r.cand,
         analytics |-> IF results /\ files.analytics # NoResult THEN files.analytics ELSE r.analytics,
         play      |-> IF results /\ files.play # NoResult THEN files.play ELSE r.play,
         picked    |-> Picked]

\* save_job: the version that the stage loaded must be the current one.
Save(then) ==
    /\ job.version < MaxVersion[provider]
    /\ Saved.version = job.version
    /\ LET new == [Saved EXCEPT !.version = job.version + 1]
       IN  /\ job' = new
           /\ reg' = Registered(Retired(reg, job, new), job, new)
           /\ call' = IF then = "idle" THEN Idle ELSE [call EXCEPT !.pc = then, !.new = new]
    /\ UNCHANGED <<files, calibrations>>

\* The stage raises, its process dies, or the save finds another version.
\* Nothing is saved; the workspace of the request goes with it, or stays.
Fail ==
    /\ call # Idle
    /\ call' = Idle
    /\ UNCHANGED <<job, reg, files, calibrations>>

\* start_run and transition_run change the row between two steps of a stage.
OtherTransaction ==
    /\ call # Idle /\ job.version < MaxVersion[provider]
    /\ job' = [job EXCEPT !.version = @ + 1]
    /\ UNCHANGED <<reg, files, calibrations, call>>

-----------------------------------------------------------------------------
\* detect_court, before any calibration: a court is found, or must be marked.
DetectCourt ==
    /\ job.calib = 0 /\ calibrations < MaxCalibrations
    /\ Begin("detect", "none", "edit")
    /\ calibrations' = calibrations + 1
Detected == [Saved EXCEPT !.calib = calibrations, !.verified = FALSE]
DetectEdit ==
    /\ At("detect", "edit")
    /\ Saving("save", Detected) \/ Saving("save", Saved)
    /\ UNCHANGED <<job, reg, files, calibrations>>

\* submit_calibration: the old measurements go from the workspace, and the
\* flags that depended on the court are cleared.
Corrected(j) ==
    [j EXCEPT !.calib = calibrations, !.verified = FALSE, !.tracked = FALSE,
              !.sel = NoResult, !.analytics = FALSE]
Calibrate ==
    /\ calibrations < MaxCalibrations
    /\ Begin("calibrate", "none", "edit")
    /\ calibrations' = calibrations + 1
CalibrateEdit ==
    /\ At("calibrate", "edit")
    /\ files' = NoFiles
    /\ Saving("save", Corrected(Saved))
    /\ UNCHANGED <<job, reg, calibrations>>

\* confirm_calibration: the court the user looked at is still the current one.
Confirm ==
    /\ job.calib # 0 /\ ~job.verified
    /\ Begin("confirm", "none", "edit")
    /\ UNCHANGED calibrations
ConfirmEdit ==
    /\ At("confirm", "edit")
    /\ Saving("save", [Saved EXCEPT !.verified = TRUE])
    /\ UNCHANGED <<job, reg, files, calibrations>>

\* The decorator of every stage that measures.
Measurable == job.calib # 0 /\ job.verified

\* start_tracking reuses registered tracking of the active calibration; the
\* tracker refuses to write into an existing folder.
Track == Measurable /\ Begin("track", "none", "edit") /\ UNCHANGED calibrations
TrackEdit ==
    /\ At("track", "edit")
    /\ LET old == Readable("tracking", 0)
       IN  \/ old # 0 /\ old = Saved.calib /\ UNCHANGED files
           \/ old = 0 /\ files.tracking = 0
              /\ files' = [files EXCEPT !.tracking = Saved.calib, !.chosen = "none"]
    /\ Saving("saveTracking", [Saved EXCEPT !.tracked = TRUE])
    /\ UNCHANGED <<job, reg, calibrations>>
TrackSave == At("track", "saveTracking") /\ Save("edit2")

\* _ensure_player_candidates builds a missing list only before a selection.
Ensured(sel) ==
    IF files.cand # "absent" THEN files.cand = sel
    ELSE Saved.sel = NoResult /\ ~Saved.analytics /\ sel = "none"
\* The list is written with selection sel; one that was just built cleared tracking.json.
Listed(sel) ==
    files' = [files EXCEPT !.cand = sel, !.chosen = IF files.cand = "absent" THEN "none" ELSE @]
TrackEnsure ==
    /\ At("track", "edit2")
    /\ \E sel \in Choice : Ensured(sel) /\ Listed(sel)
    /\ Goto("refresh")
    /\ UNCHANGED <<job, reg, calibrations>>

\* The review of the candidates.  An operation writes the list, and tracking.json
\* after it when the selection moves.
Review(op, p) ==
    /\ Measurable /\ job.tracked
    /\ Begin(op, p, "edit")
    /\ UNCHANGED calibrations
Follow(old, sel) == Goto(IF sel = old THEN "refresh" ELSE "choose")

\* select_player_candidate, and select_player by a raw track of the candidate.
SelectPlayer(p) == Review("select", p)
SelectEdit ==
    /\ At("select", "edit") /\ files.tracking # 0
    /\ \E old \in Choice : Ensured(old)
    /\ Listed(call.arg)
    /\ Goto("choose")
    /\ UNCHANGED <<job, reg, calibrations>>

\* reject_player_candidate: the selected one, or another.
RejectEdit ==
    /\ At("reject", "edit") /\ files.tracking # 0
    /\ \E old \in Choice : Ensured(old) /\ \E sel \in {old, "none"} : Listed(sel) /\ Follow(old, sel)
    /\ UNCHANGED <<job, reg, calibrations>>

\* restore_player_candidate and merge_player_candidates look at the registered
\* list first.  A merge of the selected candidate selects the result.
InList == Readable("cand", "absent") # "absent" /\ files.cand # "absent"
RestoreEdit ==
    /\ At("restore", "edit") /\ InList
    /\ Goto("refresh")
    /\ UNCHANGED <<job, reg, files, calibrations>>
MergeEdit ==
    /\ At("merge", "edit") /\ InList /\ files.tracking # 0
    /\ \E sel \in IF files.cand \in Players THEN Players ELSE {files.cand} :
         Listed(sel) /\ Follow(files.cand, sel)
    /\ UNCHANGED <<job, reg, calibrations>>

\* The list names the selection: tracking.json repeats it.
Choose ==
    /\ call.pc = "choose"
    /\ files' = [files EXCEPT !.chosen = files.cand]
    /\ Goto("refresh")
    /\ UNCHANGED <<job, reg, calibrations>>

\* generate_player_candidates and unmerge_player_candidates build the list again,
\* with the selection that is saved there if it is still a candidate.
Built(sel) == files' = [files EXCEPT !.cand = sel, !.chosen = sel]
Keeping == IF files.cand = "absent" THEN {"none"} ELSE {files.cand, "none"}
GenerateEdit ==
    /\ At("generate", "edit") /\ Readable("tracking", 0) # 0
    /\ \E sel \in Keeping : Built(sel)
    /\ Goto("refresh")
    /\ UNCHANGED <<job, reg, calibrations>>
UnmergeEdit ==
    /\ At("unmerge", "edit") /\ files.tracking # 0 /\ files.cand # "absent"
    /\ \E sel \in Keeping : Listed(sel)
    /\ Goto("rebuild")
    /\ UNCHANGED <<job, reg, calibrations>>
UnmergeBuild ==
    /\ At("unmerge", "rebuild")
    /\ \E sel \in Keeping : Built(sel)
    /\ Goto("refresh")
    /\ UNCHANGED <<job, reg, calibrations>>

\* _refresh_analysis_readiness: both files must name the same selection; when
\* it is not the one the job was saved with, dependent results go.
Signature == IF files.cand = "none" THEN NoResult ELSE [calib |-> files.tracking, sel |-> files.cand]
Removed(fs) == [fs EXCEPT !.analytics = NoResult, !.play = NoResult]
Agreed == files.tracking # 0 /\ files.cand # "absent" /\ files.cand = files.chosen
Refresh ==
    /\ call.pc = "refresh" /\ Agreed
    /\ IF Signature # Saved.sel
       THEN /\ files' = Removed(files)
            /\ Saving("saveLineage", [Saved EXCEPT !.sel = Signature, !.analytics = FALSE])
       ELSE /\ \/ Goto("saveLineage")                     \* only its readiness changed
               \/ call.op = "analyze" /\ Goto("compute")
               \/ call.op = "track" /\ call' = Idle
            /\ UNCHANGED files
    /\ UNCHANGED <<job, reg, calibrations>>
LineageSave ==
    /\ call.pc = "saveLineage"
    /\ Save(IF call.op = "analyze" THEN "compute" ELSE "idle")

\* generate_analytics reuses analytics that are in the workspace.
Analyze ==
    /\ Measurable /\ job.sel # NoResult
    /\ Begin("analyze", "none", "edit")
    /\ UNCHANGED calibrations
AnalyzeEnsure ==
    /\ At("analyze", "edit") /\ files.cand # "absent"
    /\ Goto("refresh")
    /\ UNCHANGED <<job, reg, files, calibrations>>
AnalyzeCompute ==
    /\ At("analyze", "compute") /\ Saved.sel # NoResult
    /\ files' = IF files.analytics # NoResult THEN files
                ELSE [files EXCEPT !.analytics = [calib |-> files.tracking, sel |-> files.chosen]]
    /\ Saving("save", [Saved EXCEPT !.analytics = TRUE])
    /\ UNCHANGED <<job, reg, calibrations>>

\* generate_active_play answers with saved evidence of the same sources, refuses
\* other saved evidence, and does not look at the readiness.
Play == Measurable /\ job.tracked /\ Begin("play", "none", "edit") /\ UNCHANGED calibrations
PlayEdit ==
    /\ At("play", "edit") /\ files.tracking # 0 /\ files.cand # "absent"
    /\ LET now == [calib |-> files.tracking, sel |-> files.cand]
       IN  /\ files.play \in {NoResult, now}
           /\ files' = [files EXCEPT !.play = now]
    /\ Goto("save")
    /\ UNCHANGED <<job, reg, calibrations>>

\* _mark_failed saves the failed job, with the files that are there.
MarkFailed ==
    /\ At("calibrate", "edit") \/ At("track", "edit") \/ At("analyze", "compute")
    /\ Goto("save")
    /\ UNCHANGED <<job, reg, files, calibrations>>

LastSave == call.pc = "save" /\ Save("idle")

-----------------------------------------------------------------------------
\* verified_diagnostic_artifacts: the registrations and the selection are read
\* under the lock, the objects without it, and all is compared at the end.
Records(r) == <<r.tracking, r.chosen, r.cand, r.analytics>>
DiagnosticBegin ==
    /\ provider = "s3" /\ call = Idle /\ diag.pc \in {"quiet", "answered"}
    /\ reg.tracking # 0 /\ reg.cand # "absent" /\ reg.analytics # NoResult
    /\ diag' = [Quiet EXCEPT !.pc = "transfer", !.seen = reg]

\* tracking_evidence_diagnostic: what was transferred names one player and one
\* court, and the player is the one selected now.
Agreeing(seen) ==
    /\ seen.cand # "none" /\ seen.chosen = seen.cand
    /\ seen.analytics = [calib |-> seen.tracking, sel |-> seen.cand]
    /\ reg.picked = seen.cand
DiagnosticAgree ==
    /\ diag.pc = "transfer" /\ Agreeing(diag.seen)
    /\ diag' = [diag EXCEPT !.pc = "agreed"]

Unchanged(seen) == Records(reg) = Records(seen) /\ reg.picked = seen.picked
DiagnosticAnswer ==
    /\ diag.pc = "agreed" /\ call = Idle /\ Unchanged(diag.seen)
    /\ diag' = [diag EXCEPT !.pc = "answered", !.court = job.calib, !.player = job.sel]
DiagnosticRefuse == diag.pc \in {"transfer", "agreed"} /\ diag' = Quiet

Stage ==
    \/ Fail \/ OtherTransaction
    \/ DetectCourt \/ DetectEdit \/ Calibrate \/ CalibrateEdit \/ Confirm \/ ConfirmEdit
    \/ Track \/ TrackEdit \/ TrackSave \/ TrackEnsure
    \/ (\E p \in Players : SelectPlayer(p))
    \/ (\E op \in Reviews \ {"select"} : Review(op, "none"))
    \/ SelectEdit \/ RejectEdit \/ RestoreEdit \/ MergeEdit \/ Choose
    \/ GenerateEdit \/ UnmergeEdit \/ UnmergeBuild \/ Refresh \/ LineageSave
    \/ Analyze \/ AnalyzeEnsure \/ AnalyzeCompute
    \/ Play \/ PlayEdit \/ MarkFailed \/ LastSave
Diagnostic ==
    /\ DiagnosticBegin \/ DiagnosticAgree \/ DiagnosticAnswer \/ DiagnosticRefuse
    /\ UNCHANGED <<job, reg, files, calibrations, call>>
Next ==
    /\ UNCHANGED provider
    /\ \/ Stage /\ UNCHANGED diag
       \/ Diagnostic

Spec == Init /\ [][Next]_vars

-----------------------------------------------------------------------------
(* Safety.  Readers take the shared lock, so they see the states between stages. *)
Between == call = Idle

\* get_analytics offers a report; resolve_report_artifacts and get_active_play
\* are what a reader then gets.
Offered   == Between /\ job.analytics
Report    == Readable("analytics", NoResult)
SavedPlay == Readable("play", NoResult)

\* The report that get_analytics offers was computed from the court that is
\* current and verified and from the player who is selected.
ReportMatchesSelection ==
    Offered => job.verified /\ Report \in {NoResult, job.sel}

\* Tracking that counts as done is registered and was measured with the
\* current court, which the user has verified.
TrackingMatchesCourt ==
    Between /\ job.tracked => job.verified /\ reg.tracking = job.calib

\* The registered files agree with the job on who is selected.  (A local stage
\* that fails leaves its choice in the shared workspace for the next to register.)
SelectionRegistered ==
    provider = "s3" /\ Between =>
        /\ job.tracked /\ reg.cand # "absent" => reg.cand = job.sel.sel /\ reg.chosen = reg.cand
        /\ reg.picked = job.sel.sel

\* The active-play evidence that is offered belongs to the current tracking
\* and selection.
PlayMatchesSelection ==
    provider = "s3" /\ Between /\ SavedPlay # NoResult => SavedPlay = [calib |-> job.calib, sel |-> job.sel.sel]

\* A diagnostic that is answered described the court and the selected player
\* that were current when it was answered, however long its transfer took.
DiagnosticIsCurrent ==
    diag.pc = "answered" =>
        diag.seen.tracking = diag.court /\ diag.seen.analytics = diag.player /\ diag.player.sel = diag.seen.picked
=============================================================================
