--------------------------- MODULE WorkflowProofs ---------------------------
(***************************************************************************)
(* Why the artifacts of an analysis belong together, for every number of   *)
(* players and calibrations, with S3 and with local storage.               *)
(*                                                                         *)
(* The states between two stages satisfy the properties only because of    *)
(* what holds in the middle of a stage: what the stage will save differs   *)
(* from the job in the fields of that stage alone, and the files that it   *)
(* will register were computed from the court and the selection that it    *)
(* will save.  The diagnostic needs no more of the stages than that: what  *)
(* it compares at its end is then the court and the selection of the job.  *)
(***************************************************************************)
EXTENDS WorkflowStages, TLAPS

Like(a, b) ==
    /\ a.calib = b.calib /\ a.verified = b.verified /\ a.tracked = b.tracked
    /\ a.sel = b.sel /\ a.analytics = b.analytics
Same  == Like(Saved, job)
Clean == provider = "s3" => files = reg
Chosen == [calib |-> job.calib, sel |-> job.sel.sel]

\* The job: each stage was completed after the one that it rests on.
JobOK ==
    /\ job.tracked => job.verified /\ reg.tracking = job.calib
    /\ job.verified => job.calib # 0
    /\ job.sel # NoResult => job.tracked /\ job.sel.calib = job.calib /\ job.sel.sel # "none"
    /\ job.sel.sel = "none" => job.sel = NoResult
    /\ job.analytics => job.sel # NoResult
    /\ job.calib <= calibrations

\* The files, registered or in the workspace: measured with the current court,
\* and analytics with the current selection.
FilesOK ==
    /\ reg.tracking \in {0, job.calib} /\ files.tracking \in {0, job.calib}
    /\ reg.analytics \in {NoResult, job.sel} /\ files.analytics \in {NoResult, job.sel}

\* With object storage the registered candidates and active play follow too.
RegisteredOK ==
    provider = "s3" =>
        /\ reg.cand # "absent" => job.tracked /\ reg.cand = job.sel.sel
        /\ reg.tracking # 0 => reg.chosen = job.sel.sel
        /\ reg.picked = job.sel.sel
        /\ reg.play \in {NoResult, Chosen} /\ files.play \in {NoResult, Chosen}

\* The stage that runs.
Stages == [detect |-> {"edit", "save"}, calibrate |-> {"edit", "save"}, confirm |-> {"edit", "save"},
           track |-> {"edit", "saveTracking", "edit2", "refresh", "saveLineage", "save"},
           select |-> {"edit", "choose", "refresh", "saveLineage"},
           reject |-> {"edit", "choose", "refresh", "saveLineage"},
           merge |-> {"edit", "choose", "refresh", "saveLineage"},
           restore |-> {"edit", "refresh", "saveLineage"},
           unmerge |-> {"edit", "rebuild", "refresh", "saveLineage"},
           generate |-> {"edit", "refresh", "saveLineage"},
           analyze |-> {"edit", "refresh", "saveLineage", "compute", "save"},
           play |-> {"edit", "save"}]
Rests ==
    /\ call.op = "detect" => job.calib = 0 /\ calibrations # 0
    /\ call.op = "calibrate" => job.calib < calibrations
    /\ call.op = "confirm" => job.calib # 0 /\ ~job.verified
    /\ call.op \in Reviews \union {"track", "analyze", "play"} => Measurable
    /\ call.op \in Reviews \union {"analyze", "play"} => job.tracked
    /\ call.op = "track" /\ call.pc \in {"edit2", "refresh", "saveLineage"} => job.tracked

Editing == call.pc \in {"edit", "edit2", "choose", "rebuild", "refresh", "compute"} => Same
Listing == call.pc = "choose" => files.cand # "absent"
Fresh   == call.pc = "edit" => Clean

Found ==
    At("detect", "save") => Clean /\ (Same \/ Like(Saved, [job EXCEPT !.calib = calibrations, !.verified = FALSE]))
Calibrated ==
    At("calibrate", "save") =>
        \/ Same /\ Clean
        \/ Like(Saved, Corrected(job)) /\ files = NoFiles
Confirmed ==
    At("confirm", "save") => Like(Saved, [job EXCEPT !.verified = TRUE]) /\ Clean
Tracked ==
    /\ At("track", "save") => Same /\ Clean
    /\ At("track", "saveTracking") =>
        /\ Like(Saved, [job EXCEPT !.tracked = TRUE])
        /\ job.calib \in {files.tracking, reg.tracking}
        /\ provider = "s3" =>
            \/ files = reg
            \/ files.cand = "absent" /\ reg.cand = "absent"
               /\ files.tracking = job.calib /\ files.chosen = job.sel.sel
Related ==
    call.pc = "saveLineage" =>
        /\ Agreed /\ Signature = Saved.sel
        /\ \/ Same
           \/ /\ Like(Saved, [job EXCEPT !.sel = Signature, !.analytics = FALSE])
              /\ Signature # job.sel /\ files.analytics = NoResult /\ files.play = NoResult
Analyzed ==
    At("analyze", "compute") \/ At("analyze", "save") =>
        /\ Agreed /\ Signature = job.sel
        /\ Same \/ (Like(Saved, [job EXCEPT !.analytics = TRUE]) /\ job.sel # NoResult)
Played ==
    At("play", "save") =>
        Same /\ (provider = "s3" => files = [reg EXCEPT !.play = files.play])

StageOK ==
    call # Idle =>
        /\ call.op \in Ops /\ call.pc \in Stages[call.op]
        /\ Rests /\ Editing /\ Listing /\ Fresh /\ Found
        /\ Calibrated /\ Confirmed /\ Tracked /\ Related /\ Analyzed /\ Played

StagesInv == TypeOK /\ JobOK /\ FilesOK /\ RegisteredOK /\ StageOK

\* The diagnostic: what it will compare at its end, and what it compared.
DiagnosticOK ==
    /\ diag.pc # "quiet" => provider = "s3"
    /\ diag.pc \in {"transfer", "agreed"} => diag.seen.tracking # 0
    /\ diag.pc = "agreed" => diag.seen.analytics = [calib |-> diag.seen.tracking, sel |-> diag.seen.cand]
    /\ DiagnosticIsCurrent

-----------------------------------------------------------------------------
(* Types.                                                                   *)
USE DEF At, Goto, Saving, Saved

Calls == [op : Ops, pc : Steps, arg : Choice, new : Job]

LEMMA Constants ==
    ASSUME WorkflowAssumption
    PROVE  /\ "none" \in Choice /\ NoResult \in Evidence /\ NoFiles \in Contents /\ NewJob \in Job
           /\ Idle.op = "idle" /\ Idle.pc = "idle" /\ Idle \notin Calls
BY DEF WorkflowAssumption, Choice, NoResult, Evidence, NoFiles, Contents, NewJob, Job, Idle, Calls, Ops, Reviews

\* A call that is under way is a record, and so is what it moves to.
LEMMA Under ==
    ASSUME WorkflowAssumption, TypeOK
    PROVE  /\ call \in Calls <=> call # Idle
           /\ call.op # "idle" \/ call.pc # "idle" => call \in Calls
BY Constants DEF TypeOK, Calls

LEMMA CallMoves ==
    ASSUME NEW c \in Calls, NEW pc \in Steps, NEW n \in Job
    PROVE  /\ [c EXCEPT !.pc = pc] \in Calls
           /\ [c EXCEPT !.pc = pc, !.new = n] \in Calls
BY DEF Calls

LEMMA CorrectedTyped ==
    ASSUME WorkflowAssumption, NEW j \in Job, calibrations \in 0..MaxCalibrations
    PROVE  Corrected(j) \in Job
BY Constants DEF Job, Corrected

\* What a save makes of the row and of the registrations.
LEMMA SaveEffect ==
    ASSUME WorkflowAssumption, StagesInv, call # Idle, NEW then, Save(then)
    PROVE  /\ job' \in Job /\ Like(job', Saved) /\ job'.version = job.version + 1
           /\ UNCHANGED <<files, calibrations>>
           /\ then = "idle" => call' = Idle
           /\ then # "idle" => call' = [call EXCEPT !.pc = then, !.new = job']
           /\ reg' = Registered(Retired(reg, job, job'), job, job')
           /\ reg' \in Contents
<1>1. call \in Calls /\ call.new \in Job
  BY Under DEF StagesInv, Calls
<1>2. /\ job' = [call.new EXCEPT !.version = job.version + 1]
      /\ UNCHANGED <<files, calibrations>>
      /\ then = "idle" => call' = Idle
      /\ then # "idle" => call' = [call EXCEPT !.pc = then, !.new = job']
      /\ reg' = Registered(Retired(reg, job, job'), job, job')
  BY DEF Save
<1>3. job.version + 1 \in Nat
  BY DEF StagesInv, TypeOK, Job
<1>4. job' \in Job /\ Like(job', Saved) /\ job'.version = job.version + 1
  BY <1>1, <1>2, <1>3 DEF Job, Like
<1>5. Retired(reg, job, job') \in Contents
  BY Constants DEF StagesInv, TypeOK, Contents, Retired
<1>6. reg' \in Contents
  BY <1>2, <1>5, Constants DEF Picked, Registered, StagesInv, TypeOK, Contents
<1> QED
  BY <1>2, <1>4, <1>6

LEMMA SaveTypes ==
    ASSUME WorkflowAssumption, StagesInv, UNCHANGED <<provider, diag>>, call # Idle,
           NEW then \in Steps \union {"idle"}, Save(then)
    PROVE  TypeOK'
<1>1. call \in Calls /\ job' \in Job
  BY SaveEffect, Under DEF StagesInv
<1>2. then # "idle" => call' \in Calls
  <2> SUFFICES ASSUME then # "idle" PROVE call' \in Calls
    OBVIOUS
  <2>1. call' = [call EXCEPT !.pc = then, !.new = job']
    BY SaveEffect
  <2>2. then \in Steps
    OBVIOUS
  <2> QED
    BY <1>1, <2>1, <2>2, CallMoves
<1>3. call' \in {Idle} \union Calls
  BY <1>2, SaveEffect
<1> QED
  BY <1>3, SaveEffect DEF StagesInv, TypeOK, Calls

-----------------------------------------------------------------------------
(* The saves: what is registered belongs to the job that is saved.          *)

AddsFiles ==
    /\ reg'.tracking = IF files.tracking # 0 THEN files.tracking ELSE reg.tracking
    /\ reg'.chosen = IF files.tracking # 0 THEN files.chosen ELSE reg.chosen
    /\ reg'.cand = IF files.cand # "absent" THEN files.cand ELSE reg.cand
    /\ reg'.analytics = IF files.analytics # NoResult THEN files.analytics ELSE reg.analytics
    /\ reg'.play = IF files.play # NoResult THEN files.play ELSE reg.play
    /\ reg'.picked = IF files.tracking # 0 THEN files.chosen ELSE "none"

\* A save that neither moves the court nor the selection only adds files.
LEMMA Added ==
    ASSUME StagesInv, WorkflowAssumption, ~Recalibrated(job, job'), ~Reselected(job, job'),
           reg' = Registered(Retired(reg, job, job'), job, job')
    PROVE  AddsFiles
BY DEF AddsFiles, Picked, Registered, Retired

\* The fields of the job after a stage that changed none of them.
LEMMA SaveSame ==
    ASSUME WorkflowAssumption, StagesInv, UNCHANGED <<provider, diag>>, call # Idle, NEW then, Save(then),
           Same, Clean
    PROVE  JobOK' /\ FilesOK' /\ RegisteredOK'
<1>1. Like(job', job) /\ ~Recalibrated(job, job') /\ ~Reselected(job, job')
  BY SaveEffect DEF Like, Same, Recalibrated, Reselected
<1>2. reg' \in Contents /\ UNCHANGED <<files, calibrations>>
  BY SaveEffect
<1>3. AddsFiles
  BY <1>1, SaveEffect, Added
<1>4. JobOK'
  BY <1>1, <1>2, <1>3 DEF AddsFiles, StagesInv, JobOK, FilesOK, Like
<1>5. FilesOK'
  BY <1>1, <1>2, <1>3 DEF AddsFiles, StagesInv, FilesOK, Like
<1>6. RegisteredOK'
  BY <1>1, <1>2, <1>3 DEF AddsFiles, StagesInv, JobOK, RegisteredOK, FilesOK, Like, Clean, Chosen, NoResult
<1> QED
  BY <1>4, <1>5, <1>6

LEMMA SaveDetected ==
    ASSUME WorkflowAssumption, StagesInv, UNCHANGED <<provider, diag>>, call.op = "detect", call # Idle, NEW then, Save(then),
           Like(Saved, [job EXCEPT !.calib = calibrations, !.verified = FALSE]), Clean
    PROVE  JobOK' /\ FilesOK' /\ RegisteredOK'
<1>1. /\ job.calib = 0 /\ calibrations # 0 /\ ~job.verified /\ ~job.tracked
      /\ job.sel = NoResult /\ ~job.analytics
  BY DEF StagesInv, StageOK, Rests, JobOK
<1>2. /\ job'.calib = calibrations /\ ~job'.verified /\ ~job'.tracked
      /\ job'.sel = NoResult /\ ~job'.analytics
  BY <1>1, SaveEffect DEF Like, StagesInv, TypeOK, Job
<1>3. Recalibrated(job, job') /\ ~Reselected(job, job')
  BY <1>1, <1>2 DEF Recalibrated, Reselected
<1>4. /\ files.tracking = 0 /\ files.analytics = NoResult
      /\ provider = "s3" => files.cand = "absent" /\ files.play = NoResult
  BY <1>1 DEF StagesInv, FilesOK, RegisteredOK, Clean, Chosen, NoResult
<1>5. /\ reg'.tracking = 0 /\ reg'.analytics = NoResult /\ reg'.picked = "none"
      /\ provider = "s3" => reg'.cand = "absent" /\ reg'.play = NoResult
  <2>1. reg' = Registered(NoFiles, job, job')
    BY <1>3, SaveEffect DEF Retired
  <2>2. /\ NoFiles.tracking = 0 /\ NoFiles.analytics = NoResult /\ NoFiles.cand = "absent" /\ NoFiles.play = NoResult
    BY DEF NoFiles
  <2> QED
    BY <1>4, <2>1, <2>2 DEF Picked, Registered
<1>6. UNCHANGED <<files, calibrations>>
  BY SaveEffect
<1> QED
  BY <1>2, <1>4, <1>5, <1>6 DEF JobOK, FilesOK, RegisteredOK, NoResult, StagesInv, TypeOK

LEMMA SaveCalibrated ==
    ASSUME WorkflowAssumption, StagesInv, UNCHANGED <<provider, diag>>, call.op = "calibrate", call # Idle, NEW then, Save(then),
           Like(Saved, Corrected(job)), files = NoFiles
    PROVE  JobOK' /\ FilesOK' /\ RegisteredOK'
<1>1. /\ job'.calib = calibrations /\ ~job'.verified /\ ~job'.tracked
      /\ job'.sel = NoResult /\ ~job'.analytics
  BY SaveEffect DEF Like, Corrected, StagesInv, TypeOK, Job
<1>2. Recalibrated(job, job')
  BY <1>1 DEF Recalibrated, StagesInv, StageOK, Rests, TypeOK, Job
<1>3. reg' = NoFiles /\ UNCHANGED <<files, calibrations>>
  BY <1>2, SaveEffect DEF Retired, Picked, Registered, NoFiles, NoResult
<1> QED
  BY <1>1, <1>3 DEF JobOK, FilesOK, RegisteredOK, NoFiles, NoResult, StagesInv, TypeOK

LEMMA SaveConfirmed ==
    ASSUME WorkflowAssumption, StagesInv, UNCHANGED <<provider, diag>>, call.op = "confirm", call # Idle, NEW then, Save(then),
           Like(Saved, [job EXCEPT !.verified = TRUE]), Clean
    PROVE  JobOK' /\ FilesOK' /\ RegisteredOK'
<1>1. /\ job'.calib = job.calib /\ job'.verified /\ job'.tracked = job.tracked
      /\ job'.sel = job.sel /\ job'.analytics = job.analytics
  BY SaveEffect DEF Like, StagesInv, TypeOK, Job
<1>2. ~Recalibrated(job, job') /\ ~Reselected(job, job') /\ job.calib # 0
  BY <1>1 DEF Recalibrated, Reselected, StagesInv, StageOK, Rests
<1>3. reg' \in Contents /\ UNCHANGED <<files, calibrations>>
  BY SaveEffect
<1>4. AddsFiles
  BY <1>2, SaveEffect, Added
<1>5. JobOK'
  BY <1>1, <1>2, <1>3, <1>4 DEF AddsFiles, StagesInv, JobOK, FilesOK
<1>6. FilesOK'
  BY <1>1, <1>3, <1>4 DEF AddsFiles, StagesInv, FilesOK
<1>7. RegisteredOK'
  BY <1>1, <1>2, <1>3, <1>4 DEF AddsFiles, StagesInv, JobOK, RegisteredOK, FilesOK, Clean, Chosen, NoResult
<1> QED
  BY <1>5, <1>6, <1>7

LEMMA SaveTracked ==
    ASSUME WorkflowAssumption, StagesInv, UNCHANGED <<provider, diag>>, call # Idle, NEW then, Save(then),
           At("track", "saveTracking")
    PROVE  JobOK' /\ FilesOK' /\ RegisteredOK' /\ job'.tracked
<1>1. /\ Like(Saved, [job EXCEPT !.tracked = TRUE])
      /\ job.calib \in {files.tracking, reg.tracking}
      /\ provider = "s3" =>
            \/ files = reg
            \/ files.cand = "absent" /\ reg.cand = "absent"
               /\ files.tracking = job.calib /\ files.chosen = job.sel.sel
      /\ job.calib # 0 /\ job.verified
  BY DEF StagesInv, StageOK, Tracked, Rests, Measurable
<1>2. /\ job'.calib = job.calib /\ job'.verified /\ job'.tracked
      /\ job'.sel = job.sel /\ job'.analytics = job.analytics
  BY <1>1, SaveEffect DEF Like, StagesInv, TypeOK, Job
<1>3. ~Recalibrated(job, job') /\ ~Reselected(job, job')
  BY <1>2 DEF Recalibrated, Reselected
<1>4. reg' \in Contents /\ UNCHANGED <<files, calibrations>> /\ AddsFiles
  BY <1>3, SaveEffect, Added
<1>5. JobOK'
  BY <1>1, <1>2, <1>4 DEF AddsFiles, StagesInv, JobOK, FilesOK
<1>6. FilesOK'
  BY <1>2, <1>4 DEF AddsFiles, StagesInv, FilesOK
<1>7. RegisteredOK'
  BY <1>1, <1>2, <1>4 DEF AddsFiles, StagesInv, RegisteredOK, FilesOK, JobOK, Chosen, NoResult
<1> QED
  BY <1>2, <1>5, <1>6, <1>7

\* The save that follows _refresh_analysis_readiness: the selection it saves is
\* the one the files name, and results of another selection are not there.
LEMMA SaveRelated ==
    ASSUME WorkflowAssumption, StagesInv, UNCHANGED <<provider, diag>>, call # Idle, NEW then, Save(then),
           Related, call.pc = "saveLineage"
    PROVE  JobOK' /\ FilesOK' /\ RegisteredOK'
<1>1. /\ Agreed /\ Signature = call.new.sel /\ job.tracked
      /\ \/ Same
         \/ /\ Like(Saved, [job EXCEPT !.sel = Signature, !.analytics = FALSE])
            /\ Signature # job.sel /\ files.analytics = NoResult /\ files.play = NoResult
  BY DEF StagesInv, StageOK, Related, Rests, Stages, Ops, Reviews
<1>2. files.tracking = job.calib
  BY <1>1 DEF Agreed, StagesInv, FilesOK
<1>3. /\ job'.calib = job.calib /\ job'.verified = job.verified /\ job'.tracked
      /\ job'.sel = Signature
      /\ job'.sel = job.sel => job'.analytics = job.analytics
      /\ job'.sel # job.sel => ~job'.analytics /\ files.analytics = NoResult /\ files.play = NoResult
  BY <1>1, SaveEffect DEF Like, Same, StagesInv, TypeOK, Job
<1>4. ~Recalibrated(job, job') /\ reg' \in Contents /\ UNCHANGED <<files, calibrations>>
  BY <1>3, SaveEffect DEF Recalibrated
<1>5. /\ reg'.tracking = files.tracking /\ reg'.chosen = files.chosen /\ reg'.cand = files.cand
      /\ reg'.picked = files.chosen
      /\ job'.sel # job.sel => reg'.analytics = NoResult /\ reg'.play = NoResult
      /\ job'.sel = job.sel =>
            /\ reg'.analytics \in {files.analytics, reg.analytics}
            /\ reg'.play \in {files.play, reg.play}
  <2>1. reg' = Registered(Retired(reg, job, job'), job, job')
    BY SaveEffect
  <2>2. files.tracking # 0 /\ files.cand # "absent"
    BY <1>1 DEF Agreed
  <2>3. /\ reg'.tracking = files.tracking /\ reg'.chosen = files.chosen /\ reg'.cand = files.cand
        /\ reg'.picked = files.chosen
    BY <2>1, <2>2 DEF Picked, Registered
  <2>4. CASE job'.sel # job.sel
    <3>1. Reselected(job, job')
      BY <2>4 DEF Reselected
    <3>2. /\ Retired(reg, job, job').analytics = NoResult
          /\ Retired(reg, job, job').play = NoResult
      BY <1>4, <3>1 DEF Retired, StagesInv, TypeOK, Contents
    <3> QED
      BY <2>1, <2>3, <2>4, <3>1, <3>2 DEF Picked, Registered
  <2>5. CASE job'.sel = job.sel
    <3>1. ~Reselected(job, job')
      BY <1>3, <2>5 DEF Reselected
    <3> QED
      BY <1>4, <2>3, <2>5, <3>1, SaveEffect, Added DEF AddsFiles
  <2> QED
    BY <2>4, <2>5
<1>6. files.cand = files.chosen /\ files.cand # "absent" /\ job'.sel.sel = files.cand
  BY <1>1, <1>3 DEF Agreed, Signature, NoResult
<1>7. JobOK'
  BY <1>1, <1>2, <1>3, <1>4, <1>5 DEF Signature, Agreed, NoResult, StagesInv, JobOK
<1>8. FilesOK'
  BY <1>2, <1>3, <1>4, <1>5 DEF StagesInv, FilesOK
<1>9. RegisteredOK'
  BY <1>3, <1>4, <1>5, <1>6 DEF StagesInv, RegisteredOK, Chosen
<1> QED
  BY <1>7, <1>8, <1>9

LEMMA SaveAnalyzed ==
    ASSUME WorkflowAssumption, StagesInv, UNCHANGED <<provider, diag>>, call # Idle, NEW then, Save(then),
           At("analyze", "save")
    PROVE  JobOK' /\ FilesOK' /\ RegisteredOK'
<1>1. /\ Agreed /\ Signature = job.sel /\ job.tracked
      /\ Same \/ (Like(Saved, [job EXCEPT !.analytics = TRUE]) /\ job.sel # NoResult)
  BY DEF StagesInv, StageOK, Analyzed, Rests
<1>2. /\ job'.calib = job.calib /\ job'.verified = job.verified /\ job'.tracked = job.tracked
      /\ job'.sel = job.sel
      /\ job'.analytics = job.analytics \/ (job'.analytics /\ job.sel # NoResult)
  BY <1>1, SaveEffect DEF Like, Same, StagesInv, TypeOK, Job
<1>3. ~Recalibrated(job, job') /\ ~Reselected(job, job')
  BY <1>2 DEF Recalibrated, Reselected
<1>4. reg' \in Contents /\ UNCHANGED <<files, calibrations>> /\ AddsFiles
  BY <1>3, SaveEffect, Added
<1>5. files.tracking # 0 /\ files.cand = files.chosen /\ files.cand # "absent" /\ job.sel.sel = files.cand
  BY <1>1 DEF Agreed, Signature, NoResult
<1>6. JobOK'
  BY <1>1, <1>2, <1>4, <1>5 DEF AddsFiles, StagesInv, JobOK, FilesOK
<1>7. FilesOK'
  BY <1>2, <1>4 DEF AddsFiles, StagesInv, FilesOK
<1>8. RegisteredOK'
  BY <1>1, <1>2, <1>4, <1>5 DEF AddsFiles, StagesInv, RegisteredOK, Chosen
<1> QED
  BY <1>6, <1>7, <1>8

LEMMA SavePlayed ==
    ASSUME WorkflowAssumption, StagesInv, UNCHANGED <<provider, diag>>, call # Idle, NEW then, Save(then),
           At("play", "save")
    PROVE  JobOK' /\ FilesOK' /\ RegisteredOK'
<1>1. Same /\ (provider = "s3" => files = [reg EXCEPT !.play = files.play])
  BY DEF StagesInv, StageOK, Played
<1>2. Like(job', job) /\ ~Recalibrated(job, job') /\ ~Reselected(job, job')
  BY <1>1, SaveEffect DEF Like, Same, Recalibrated, Reselected
<1>3. reg' \in Contents /\ UNCHANGED <<files, calibrations>> /\ AddsFiles
  BY <1>2, SaveEffect, Added
<1>4. provider = "s3" => files.cand = reg.cand /\ files.chosen = reg.chosen /\ files.tracking = reg.tracking
  BY <1>1 DEF StagesInv, TypeOK, Contents
<1>5. JobOK'
  BY <1>2, <1>3 DEF AddsFiles, StagesInv, JobOK, FilesOK, Like
<1>6. FilesOK'
  BY <1>2, <1>3 DEF AddsFiles, StagesInv, FilesOK, Like
<1>7. RegisteredOK'
  BY <1>2, <1>3, <1>4 DEF AddsFiles, StagesInv, JobOK, RegisteredOK, Like, Chosen, NoResult
<1> QED
  BY <1>5, <1>6, <1>7

-----------------------------------------------------------------------------
(* Each step of a stage.                                                    *)
USE DEF Same, Clean, Fresh, Editing, Listing, Rests, Found, Calibrated, Confirmed, Tracked, Related, Analyzed, Played

\* Between two stages nothing is promised of the call.
LEMMA Ended ==
    ASSUME WorkflowAssumption, call' = Idle
    PROVE  StageOK'
BY DEF StageOK

LEMMA ConfirmStep ==
    ASSUME WorkflowAssumption, StagesInv, UNCHANGED <<provider, diag>>, Confirm
    PROVE  StagesInv'
<1>1. call' = [op |-> "confirm", pc |-> "edit", arg |-> "none", new |-> job]
  BY DEF Confirm, Begin
<1>2. UNCHANGED <<job, reg>> /\ files' = (IF provider = "s3" THEN reg ELSE files)
  BY DEF Confirm, Begin, Materialized
<1>3. TypeOK'
  BY <1>1, <1>2, Constants DEF Confirm, StagesInv, TypeOK, Ops, Reviews, Steps, Measurable
<1>4. JobOK' /\ FilesOK' /\ RegisteredOK'
  BY <1>2 DEF Confirm, StagesInv, TypeOK, JobOK, FilesOK, RegisteredOK, Chosen
<1>5. StageOK'
  BY <1>1, <1>2 DEF Confirm, StagesInv, TypeOK, JobOK, StageOK, Stages, Ops, Reviews, Like, Measurable
<1> QED
  BY <1>3, <1>4, <1>5 DEF StagesInv

LEMMA TrackStep ==
    ASSUME WorkflowAssumption, StagesInv, UNCHANGED <<provider, diag>>, Track
    PROVE  StagesInv'
<1>1. call' = [op |-> "track", pc |-> "edit", arg |-> "none", new |-> job]
  BY DEF Track, Begin
<1>2. UNCHANGED <<job, reg>> /\ files' = (IF provider = "s3" THEN reg ELSE files)
  BY DEF Track, Begin, Materialized
<1>3. TypeOK'
  BY <1>1, <1>2, Constants DEF Track, StagesInv, TypeOK, Ops, Reviews, Steps, Measurable
<1>4. JobOK' /\ FilesOK' /\ RegisteredOK'
  BY <1>2 DEF Track, StagesInv, TypeOK, JobOK, FilesOK, RegisteredOK, Chosen
<1>5. StageOK'
  BY <1>1, <1>2 DEF Track, StagesInv, TypeOK, JobOK, StageOK, Stages, Ops, Reviews, Like, Measurable
<1> QED
  BY <1>3, <1>4, <1>5 DEF StagesInv

LEMMA AnalyzeStep ==
    ASSUME WorkflowAssumption, StagesInv, UNCHANGED <<provider, diag>>, Analyze
    PROVE  StagesInv'
<1>1. call' = [op |-> "analyze", pc |-> "edit", arg |-> "none", new |-> job]
  BY DEF Analyze, Begin
<1>2. UNCHANGED <<job, reg>> /\ files' = (IF provider = "s3" THEN reg ELSE files)
  BY DEF Analyze, Begin, Materialized
<1>3. TypeOK'
  BY <1>1, <1>2, Constants DEF Analyze, StagesInv, TypeOK, Ops, Reviews, Steps, Measurable
<1>4. JobOK' /\ FilesOK' /\ RegisteredOK'
  BY <1>2 DEF Analyze, StagesInv, TypeOK, JobOK, FilesOK, RegisteredOK, Chosen
<1>5. StageOK'
  BY <1>1, <1>2 DEF Analyze, StagesInv, TypeOK, JobOK, StageOK, Stages, Ops, Reviews, Like, Measurable
<1> QED
  BY <1>3, <1>4, <1>5 DEF StagesInv

LEMMA PlayStep ==
    ASSUME WorkflowAssumption, StagesInv, UNCHANGED <<provider, diag>>, Play
    PROVE  StagesInv'
<1>1. call' = [op |-> "play", pc |-> "edit", arg |-> "none", new |-> job]
  BY DEF Play, Begin
<1>2. UNCHANGED <<job, reg>> /\ files' = (IF provider = "s3" THEN reg ELSE files)
  BY DEF Play, Begin, Materialized
<1>3. TypeOK'
  BY <1>1, <1>2, Constants DEF Play, StagesInv, TypeOK, Ops, Reviews, Steps, Measurable
<1>4. JobOK' /\ FilesOK' /\ RegisteredOK'
  BY <1>2 DEF Play, StagesInv, TypeOK, JobOK, FilesOK, RegisteredOK, Chosen
<1>5. StageOK'
  BY <1>1, <1>2 DEF Play, StagesInv, TypeOK, JobOK, StageOK, Stages, Ops, Reviews, Like, Measurable
<1> QED
  BY <1>3, <1>4, <1>5 DEF StagesInv

LEMMA CalibrateStep ==
    ASSUME WorkflowAssumption, StagesInv, UNCHANGED <<provider, diag>>, Calibrate
    PROVE  StagesInv'
<1>1. call' = [op |-> "calibrate", pc |-> "edit", arg |-> "none", new |-> job]
  BY DEF Calibrate, Begin
<1>2. UNCHANGED <<job, reg>> /\ files' = (IF provider = "s3" THEN reg ELSE files)
  BY DEF Calibrate, Begin, Materialized
<1>0. /\ calibrations' \in 0..MaxCalibrations
      /\ job.calib < calibrations' /\ job.calib <= calibrations'
  <2>1. calibrations \in Nat /\ calibrations < MaxCalibrations /\ job.calib <= calibrations /\ job.calib \in Nat
    BY DEF Calibrate, WorkflowAssumption, StagesInv, TypeOK, JobOK, Job
  <2> QED
    BY <2>1 DEF Calibrate, WorkflowAssumption
<1>3. TypeOK'
  BY <1>0, <1>1, <1>2, Constants DEF StagesInv, TypeOK, Ops, Reviews, Steps, Measurable
<1>4. JobOK' /\ FilesOK' /\ RegisteredOK'
  BY <1>0, <1>2 DEF StagesInv, TypeOK, JobOK, FilesOK, RegisteredOK, Chosen
<1>5. StageOK'
  BY <1>0, <1>1, <1>2 DEF StagesInv, TypeOK, JobOK, StageOK, Stages, Ops, Reviews, Like, Measurable
<1> QED
  BY <1>3, <1>4, <1>5 DEF StagesInv

LEMMA DetectStep ==
    ASSUME WorkflowAssumption, StagesInv, UNCHANGED <<provider, diag>>, DetectCourt
    PROVE  StagesInv'
<1>1. call' = [op |-> "detect", pc |-> "edit", arg |-> "none", new |-> job]
  BY DEF DetectCourt, Begin
<1>2. UNCHANGED <<job, reg>> /\ files' = (IF provider = "s3" THEN reg ELSE files) /\ job.calib = 0
  BY DEF DetectCourt, Begin, Materialized
<1>3. /\ calibrations' \in 0..MaxCalibrations
      /\ calibrations' # 0 /\ job.calib <= calibrations'
  <2>1. calibrations \in Nat /\ calibrations < MaxCalibrations /\ job.calib <= calibrations /\ job.calib \in Nat
    BY DEF DetectCourt, WorkflowAssumption, StagesInv, TypeOK, JobOK, Job
  <2> QED
    BY <2>1 DEF DetectCourt, WorkflowAssumption
<1>4. TypeOK'
  BY <1>1, <1>2, <1>3, Constants DEF StagesInv, TypeOK, Ops, Reviews, Steps
<1>5. JobOK' /\ FilesOK' /\ RegisteredOK'
  BY <1>2, <1>3 DEF StagesInv, TypeOK, JobOK, FilesOK, RegisteredOK, Chosen
<1>6. StageOK'
  BY <1>1, <1>2, <1>3 DEF StagesInv, TypeOK, JobOK, StageOK, Stages, Ops, Reviews, Like
<1> QED
  BY <1>4, <1>5, <1>6 DEF StagesInv

LEMMA ReviewStep ==
    ASSUME WorkflowAssumption, StagesInv, UNCHANGED <<provider, diag>>, NEW op \in Reviews, NEW p \in Choice, Review(op, p)
    PROVE  StagesInv'
<1>1. call' = [op |-> op, pc |-> "edit", arg |-> p, new |-> job]
  BY DEF Review, Begin
<1>2. /\ UNCHANGED <<job, reg, calibrations>> /\ files' = (IF provider = "s3" THEN reg ELSE files)
      /\ Measurable /\ job.tracked
  BY DEF Review, Begin, Materialized
<1>3. TypeOK'
  BY <1>1, <1>2, Constants DEF StagesInv, TypeOK, Ops, Reviews, Steps
<1>4. JobOK' /\ FilesOK' /\ RegisteredOK'
  BY <1>2 DEF StagesInv, TypeOK, JobOK, FilesOK, RegisteredOK, Chosen
<1>5. call'.op \in Ops /\ call'.pc \in Stages[call'.op]
  BY <1>1 DEF Stages, Ops, Reviews
<1>6. StageOK'
  BY <1>1, <1>2, <1>5 DEF StageOK, Reviews, Like, Measurable
<1> QED
  BY <1>3, <1>4, <1>6 DEF StagesInv

LEMMA FailStep ==
    ASSUME WorkflowAssumption, StagesInv, UNCHANGED <<provider, diag>>, Fail
    PROVE  StagesInv'
BY Ended DEF Fail, StagesInv, TypeOK, JobOK, FilesOK, RegisteredOK, Chosen

\* Another transaction moves the version alone.
LEMMA OtherTransactionStep ==
    ASSUME WorkflowAssumption, StagesInv, UNCHANGED <<provider, diag>>, OtherTransaction
    PROVE  StagesInv'
<1>1. job' \in Job /\ Like(job', job) /\ UNCHANGED <<reg, files, calibrations, call>>
  BY DEF OtherTransaction, StagesInv, TypeOK, Job, Like
<1>2. TypeOK' /\ JobOK' /\ FilesOK' /\ RegisteredOK'
  BY <1>1 DEF StagesInv, TypeOK, JobOK, FilesOK, RegisteredOK, Chosen, Like
<1>3. call # Idle => call.op \in Ops /\ call.pc \in Stages[call.op]
  BY DEF StagesInv, StageOK
<1>4. call # Idle => Rests' /\ Editing' /\ Listing' /\ Fresh'
  BY <1>1 DEF StagesInv, StageOK, Like, Measurable
<1>5. call # Idle => Found' /\ Calibrated' /\ Confirmed'
  BY <1>1 DEF StagesInv, TypeOK, Job, StageOK, Like, Corrected
<1>6. call # Idle => Tracked' /\ Played'
  BY <1>1 DEF StagesInv, TypeOK, Job, StageOK, Like
<1>7. call # Idle => Related' /\ Analyzed'
  BY <1>1 DEF StagesInv, TypeOK, Job, StageOK, Like, Agreed, Signature
<1>8. StageOK'
  BY <1>1, <1>3, <1>4, <1>5, <1>6, <1>7 DEF StageOK
<1> QED
  BY <1>2, <1>8 DEF StagesInv

\* A step inside a stage: what the stage becomes, and that the rest is kept.
LEMMA Inside ==
    ASSUME WorkflowAssumption, StagesInv, UNCHANGED <<provider, diag, job, reg, calibrations>>,
           NEW pc \in Steps, NEW n \in Job, call # Idle, files' \in Contents,
           \/ call' = [call EXCEPT !.pc = pc, !.new = n]
           \/ call' = [call EXCEPT !.pc = pc] /\ n = call.new
    PROVE  /\ call' # Idle /\ call'.op = call.op /\ call'.pc = pc /\ call'.new = n
           /\ TypeOK' /\ JobOK'
           /\ call.op \in Ops /\ call.pc \in Stages[call.op]
<1>1. call \in Calls
  BY Under DEF StagesInv
<1>2. call' \in Calls
  BY <1>1, CallMoves
<1>3. call'.op = call.op /\ call'.pc = pc /\ call'.new = n
  BY <1>1 DEF Calls
<1>4. TypeOK' /\ JobOK'
  BY <1>2 DEF StagesInv, TypeOK, JobOK, Calls
<1> QED
  BY <1>2, <1>3, <1>4, Constants DEF StagesInv, StageOK

LEMMA CalibrateEditStep ==
    ASSUME WorkflowAssumption, StagesInv, UNCHANGED <<provider, diag>>, CalibrateEdit
    PROVE  StagesInv'
<1>1. call # Idle /\ call.new \in Job /\ At("calibrate", "edit")
  BY Under, Constants DEF CalibrateEdit, StagesInv, Calls
<1>2. Corrected(call.new) \in Job
  BY <1>1, CorrectedTyped DEF StagesInv, TypeOK
<1>3. files' \in Contents
  BY Constants DEF CalibrateEdit, StagesInv, TypeOK, Contents
<1>4. /\ call' # Idle /\ call'.op = call.op /\ call'.pc = "save" /\ call'.new = Corrected(call.new)
      /\ TypeOK' /\ JobOK'
      /\ UNCHANGED <<job, reg, calibrations>>
  BY <1>1, <1>2, <1>3, Inside DEF CalibrateEdit, Steps
<1>5. FilesOK' /\ RegisteredOK'
  BY <1>1, <1>4 DEF CalibrateEdit, StagesInv, TypeOK, Contents, JobOK, FilesOK, RegisteredOK, StageOK, Chosen, NoFiles, NoResult
<1>6. Like(call'.new, Corrected(job)') /\ files' = NoFiles
  BY <1>1, <1>4 DEF CalibrateEdit, StagesInv, TypeOK, StageOK, Like, Corrected, Job
<1>7. job'.calib < calibrations'
  BY <1>1, <1>4 DEF StagesInv, StageOK
<1>8. StageOK'
  BY <1>1, <1>4, <1>6, <1>7 DEF StageOK, Stages, Ops, Reviews
<1> QED
  BY <1>4, <1>5, <1>8 DEF StagesInv

LEMMA ConfirmEditStep ==
    ASSUME WorkflowAssumption, StagesInv, UNCHANGED <<provider, diag>>, ConfirmEdit
    PROVE  StagesInv'
<1>1. call # Idle /\ call.new \in Job /\ At("confirm", "edit")
  BY Under, Constants DEF ConfirmEdit, StagesInv, Calls
<1>2. [call.new EXCEPT !.verified = TRUE] \in Job
  BY <1>1 DEF Job
<1>3. files' \in Contents
  BY Constants DEF ConfirmEdit, StagesInv, TypeOK, Contents
<1>4. /\ call' # Idle /\ call'.op = call.op /\ call'.pc = "save" /\ call'.new = [call.new EXCEPT !.verified = TRUE]
      /\ TypeOK' /\ JobOK'
      /\ UNCHANGED <<job, reg, calibrations>>
  BY <1>1, <1>2, <1>3, Inside DEF ConfirmEdit, Steps
<1>5. FilesOK' /\ RegisteredOK'
  BY <1>1, <1>4 DEF ConfirmEdit, StagesInv, TypeOK, Contents, JobOK, FilesOK, RegisteredOK, StageOK, Chosen, NoFiles, NoResult
<1>6. Like(call'.new, [job' EXCEPT !.verified = TRUE]) /\ Clean'
  BY <1>1, <1>4 DEF ConfirmEdit, StagesInv, TypeOK, StageOK, Like, Job
<1>7. job'.calib # 0 /\ ~job'.verified
  BY <1>1, <1>4 DEF StagesInv, StageOK
<1>8. StageOK'
  BY <1>1, <1>4, <1>6, <1>7 DEF StageOK, Stages, Ops, Reviews
<1> QED
  BY <1>4, <1>5, <1>8 DEF StagesInv

LEMMA TrackEditStep ==
    ASSUME WorkflowAssumption, StagesInv, UNCHANGED <<provider, diag>>, TrackEdit
    PROVE  StagesInv'
<1>1. call # Idle /\ call.new \in Job /\ At("track", "edit")
  BY Under, Constants DEF TrackEdit, StagesInv, Calls
<1>2. [call.new EXCEPT !.tracked = TRUE] \in Job
  BY <1>1 DEF Job
<1>3. /\ Like(call.new, job) /\ Clean /\ Measurable
      /\ files' = files \/ files' = [files EXCEPT !.tracking = job.calib, !.chosen = "none"]
      /\ files' \in Contents
  <2>1. Like(call.new, job) /\ Clean /\ Measurable
    BY <1>1 DEF StagesInv, StageOK
  <2>2. files' = files \/ files' = [files EXCEPT !.tracking = job.calib, !.chosen = "none"]
    BY <2>1 DEF TrackEdit, Like
  <2> QED
    BY <2>1, <2>2, Constants DEF StagesInv, TypeOK, Contents, Job
<1>4. /\ call' # Idle /\ call'.op = call.op /\ call'.pc = "saveTracking" /\ call'.new = [call.new EXCEPT !.tracked = TRUE]
      /\ TypeOK' /\ JobOK'
      /\ UNCHANGED <<job, reg, calibrations>>
  BY <1>1, <1>2, <1>3, Inside DEF TrackEdit, Steps
<1>5. FilesOK' /\ RegisteredOK'
  BY <1>3, <1>4 DEF StagesInv, TypeOK, Contents, FilesOK, RegisteredOK, Chosen
<1>6. Like(call'.new, [job' EXCEPT !.tracked = TRUE])
  BY <1>3, <1>4 DEF StagesInv, TypeOK, Like, Job
<1>7. /\ job'.calib \in {files'.tracking, reg'.tracking}
      /\ provider' = "s3" =>
            \/ files' = reg'
            \/ files'.cand = "absent" /\ reg'.cand = "absent"
               /\ files'.tracking = job'.calib /\ files'.chosen = job'.sel.sel
  <2>1. CASE files' = files
    <3>1. Readable("tracking", 0) = job.calib
      <4>1. [files EXCEPT !.tracking = call.new.calib, !.chosen = "none"].tracking = call.new.calib
        BY DEF StagesInv, TypeOK, Contents
      <4>2. call.new.calib = job.calib /\ job.calib # 0
        BY <1>3 DEF Like, Measurable
      <4> QED
        BY <2>1, <4>1, <4>2 DEF TrackEdit
    <3>2. job.calib \in {files.tracking, reg.tracking}
      BY <1>3, <3>1 DEF Readable, Measurable, StagesInv, FilesOK
    <3> QED
      BY <1>3, <1>4, <2>1, <3>2
  <2>2. CASE files' # files
    <3>1. files' = [files EXCEPT !.tracking = job.calib, !.chosen = "none"] /\ Readable("tracking", 0) = 0
      BY <1>3, <2>2 DEF TrackEdit, Like
    <3>2. files'.tracking = job.calib /\ files'.cand = files.cand /\ files'.chosen = "none"
      BY <3>1 DEF StagesInv, TypeOK, Contents
    <3>3. provider = "s3" => reg.cand = "absent" /\ files.cand = "absent" /\ job.sel.sel = "none"
      BY <1>3, <3>1 DEF Readable, Measurable, StagesInv, RegisteredOK, JobOK, NoResult
    <3> QED
      BY <1>4, <3>2, <3>3
  <2> QED
    BY <2>1, <2>2
<1>8. StageOK'
  BY <1>1, <1>3, <1>4, <1>6, <1>7 DEF StageOK, Stages, Ops, Reviews, Measurable
<1> QED
  BY <1>4, <1>5, <1>8 DEF StagesInv

\* A step that moves the lists alone, and what it leaves of the files.
KeepsResults ==
    /\ files' \in Contents
    /\ files'.tracking = files.tracking /\ files'.analytics = files.analytics /\ files'.play = files.play

LEMMA Edits ==
    ASSUME WorkflowAssumption, StagesInv, UNCHANGED <<provider, diag, job, reg, calibrations>>,
           NEW pc \in {"choose", "rebuild", "refresh"}, call # Idle, call' = [call EXCEPT !.pc = pc],
           call.op \in Reviews \union {"track", "analyze"}, pc \in Stages[call.op],
           call.pc \in {"edit", "edit2", "choose", "rebuild"}, call.op = "track" => call.pc = "edit2",
           KeepsResults, pc = "choose" => files'.cand # "absent"
    PROVE  StagesInv'
<1>1. call \in Calls /\ call.new \in Job
  BY Under DEF StagesInv, Calls
<1>2. /\ call' # Idle /\ call'.op = call.op /\ call'.pc = pc /\ call'.new = call.new
      /\ TypeOK' /\ JobOK' /\ call.op \in Ops
  BY <1>1, Inside DEF Steps, KeepsResults
<1>3. FilesOK' /\ RegisteredOK'
  BY <1>2 DEF KeepsResults, StagesInv, FilesOK, RegisteredOK, Chosen
<1>4. Like(call'.new, job')
  BY <1>2 DEF StagesInv, StageOK, Like
<1>5. Rests'
  BY <1>2 DEF StagesInv, StageOK, Measurable, Reviews
<1>6. StageOK'
  BY <1>2, <1>4, <1>5 DEF StageOK, Reviews
<1> QED
  BY <1>2, <1>3, <1>6 DEF StagesInv

LEMMA ListedKeeps ==
    ASSUME WorkflowAssumption, StagesInv, NEW sel \in Choice, Listed(sel)
    PROVE  KeepsResults /\ files'.cand # "absent"
<1>1. sel # "absent" /\ sel \in Choice
  BY DEF Choice, WorkflowAssumption
<1> QED
  BY <1>1, Constants DEF Listed, KeepsResults, StagesInv, TypeOK, Contents

LEMMA BuiltKeeps ==
    ASSUME WorkflowAssumption, StagesInv, NEW sel \in Keeping, Built(sel)
    PROVE  KeepsResults
BY Constants DEF Built, Keeping, KeepsResults, StagesInv, TypeOK, Contents

\* The list moved, and tracking.json follows if the selection did.
LEMMA FollowStep ==
    ASSUME WorkflowAssumption, StagesInv, UNCHANGED <<provider, diag, job, reg, calibrations>>,
           call # Idle, call.pc = "edit", call.op \in {"reject", "merge"},
           NEW old, NEW sel \in Choice, Listed(sel), Follow(old, sel)
    PROVE  StagesInv'
<1>1. KeepsResults /\ files'.cand # "absent"
  BY ListedKeeps
<1>2. PICK pc \in {"choose", "refresh"} : call' = [call EXCEPT !.pc = pc]
  BY DEF Follow
<1>3. pc \in Stages[call.op]
  BY <1>2 DEF Stages
<1> QED
  BY <1>1, <1>2, <1>3, Edits DEF Reviews

LEMMA TrackEnsureStep ==
    ASSUME WorkflowAssumption, StagesInv, UNCHANGED <<provider, diag>>, TrackEnsure
    PROVE  StagesInv'
<1>1. /\ call # Idle /\ At("track", "edit2") /\ Goto("refresh")
      /\ UNCHANGED <<job, reg, calibrations>>
  BY Constants DEF TrackEnsure
<1>2. KeepsResults
  BY ListedKeeps DEF TrackEnsure
<1>3. "refresh" \in Stages["track"]
  BY DEF Stages
<1> QED
  BY <1>1, <1>2, <1>3, Edits

LEMMA SelectEditStep ==
    ASSUME WorkflowAssumption, StagesInv, UNCHANGED <<provider, diag>>, SelectEdit
    PROVE  StagesInv'
<1>1. /\ call # Idle /\ At("select", "edit") /\ Goto("choose") /\ Listed(call.arg)
      /\ UNCHANGED <<job, reg, calibrations>>
  BY Constants DEF SelectEdit
<1>2. call.arg \in Choice
  BY <1>1, Under DEF StagesInv, Calls
<1>3. KeepsResults /\ files'.cand # "absent"
  BY <1>1, <1>2, ListedKeeps
<1>4. "choose" \in Stages["select"]
  BY DEF Stages
<1> QED
  BY <1>1, <1>3, <1>4, Edits DEF Reviews

LEMMA RejectEditStep ==
    ASSUME WorkflowAssumption, StagesInv, UNCHANGED <<provider, diag>>, RejectEdit
    PROVE  StagesInv'
<1>1. call # Idle /\ At("reject", "edit") /\ UNCHANGED <<job, reg, calibrations>>
  BY Constants DEF RejectEdit
<1>2. PICK old \in Choice, sel \in Choice : Listed(sel) /\ Follow(old, sel)
  BY Constants DEF RejectEdit
<1> QED
  BY <1>1, <1>2, FollowStep

LEMMA MergeEditStep ==
    ASSUME WorkflowAssumption, StagesInv, UNCHANGED <<provider, diag>>, MergeEdit
    PROVE  StagesInv'
<1>1. /\ call # Idle /\ At("merge", "edit") /\ files.cand # "absent"
      /\ UNCHANGED <<job, reg, calibrations>>
  BY Constants DEF MergeEdit, InList
<1>2. files.cand \in Choice /\ Players \subseteq Choice
  BY <1>1 DEF StagesInv, TypeOK, Contents, Choice
<1>3. PICK sel \in Choice : Listed(sel) /\ Follow(files.cand, sel)
  BY <1>2 DEF MergeEdit
<1> QED
  BY <1>1, <1>3, FollowStep

LEMMA RestoreEditStep ==
    ASSUME WorkflowAssumption, StagesInv, UNCHANGED <<provider, diag>>, RestoreEdit
    PROVE  StagesInv'
<1>1. /\ call # Idle /\ At("restore", "edit") /\ Goto("refresh")
      /\ UNCHANGED <<job, reg, files, calibrations>>
  BY Constants DEF RestoreEdit
<1>2. KeepsResults
  BY <1>1 DEF KeepsResults, StagesInv, TypeOK
<1>3. "refresh" \in Stages["restore"]
  BY DEF Stages
<1> QED
  BY <1>1, <1>2, <1>3, Edits DEF Reviews

LEMMA ChooseStep ==
    ASSUME WorkflowAssumption, StagesInv, UNCHANGED <<provider, diag>>, Choose
    PROVE  StagesInv'
<1>1. /\ call # Idle /\ call.pc = "choose" /\ Goto("refresh")
      /\ UNCHANGED <<job, reg, calibrations>>
  BY Constants DEF Choose
<1>2. call.op \in {"select", "reject", "merge"}
  BY <1>1 DEF StagesInv, StageOK, Stages, Ops, Reviews
<1>3. files.cand \in Choice
  BY <1>1 DEF StagesInv, TypeOK, Contents, StageOK
<1>4. KeepsResults
  BY <1>3 DEF Choose, KeepsResults, StagesInv, TypeOK, Contents
<1>5. "refresh" \in Stages[call.op]
  BY <1>2 DEF Stages
<1> QED
  BY <1>1, <1>2, <1>4, <1>5, Edits DEF Reviews

LEMMA GenerateEditStep ==
    ASSUME WorkflowAssumption, StagesInv, UNCHANGED <<provider, diag>>, GenerateEdit
    PROVE  StagesInv'
<1>1. /\ call # Idle /\ At("generate", "edit") /\ Goto("refresh")
      /\ UNCHANGED <<job, reg, calibrations>>
  BY Constants DEF GenerateEdit
<1>2. KeepsResults
  BY BuiltKeeps DEF GenerateEdit
<1>3. "refresh" \in Stages["generate"]
  BY DEF Stages
<1> QED
  BY <1>1, <1>2, <1>3, Edits DEF Reviews

LEMMA UnmergeEditStep ==
    ASSUME WorkflowAssumption, StagesInv, UNCHANGED <<provider, diag>>, UnmergeEdit
    PROVE  StagesInv'
<1>1. /\ call # Idle /\ At("unmerge", "edit") /\ Goto("rebuild") /\ files.cand # "absent"
      /\ UNCHANGED <<job, reg, calibrations>>
  BY Constants DEF UnmergeEdit
<1>2. KeepsResults
  <2>1. Keeping \subseteq Choice
    BY <1>1, Constants DEF Keeping, StagesInv, TypeOK, Contents
  <2> QED
    BY <2>1, ListedKeeps DEF UnmergeEdit
<1>3. "rebuild" \in Stages["unmerge"]
  BY DEF Stages
<1> QED
  BY <1>1, <1>2, <1>3, Edits DEF Reviews

LEMMA UnmergeBuildStep ==
    ASSUME WorkflowAssumption, StagesInv, UNCHANGED <<provider, diag>>, UnmergeBuild
    PROVE  StagesInv'
<1>1. /\ call # Idle /\ At("unmerge", "rebuild") /\ Goto("refresh")
      /\ UNCHANGED <<job, reg, calibrations>>
  BY Constants DEF UnmergeBuild
<1>2. KeepsResults
  BY BuiltKeeps DEF UnmergeBuild
<1>3. "refresh" \in Stages["unmerge"]
  BY DEF Stages
<1> QED
  BY <1>1, <1>2, <1>3, Edits DEF Reviews

LEMMA AnalyzeEnsureStep ==
    ASSUME WorkflowAssumption, StagesInv, UNCHANGED <<provider, diag>>, AnalyzeEnsure
    PROVE  StagesInv'
<1>1. /\ call # Idle /\ At("analyze", "edit") /\ Goto("refresh")
      /\ UNCHANGED <<job, reg, files, calibrations>>
  BY Constants DEF AnalyzeEnsure
<1>2. KeepsResults
  BY <1>1 DEF KeepsResults, StagesInv, TypeOK
<1>3. "refresh" \in Stages["analyze"]
  BY DEF Stages
<1> QED
  BY <1>1, <1>2, <1>3, Edits

LEMMA DetectEditStep ==
    ASSUME WorkflowAssumption, StagesInv, UNCHANGED <<provider, diag>>, DetectEdit
    PROVE  StagesInv'
<1>1. /\ call # Idle /\ call.new \in Job /\ At("detect", "edit")
      /\ UNCHANGED <<job, reg, files, calibrations>>
  BY Under, Constants DEF DetectEdit, StagesInv, Calls
<1>2. PICK n \in {Detected, call.new} : call' = [call EXCEPT !.pc = "save", !.new = n]
  BY DEF DetectEdit
<1>3. n \in Job
  BY <1>1, <1>2 DEF Detected, Job, StagesInv, TypeOK
<1>4. /\ call' # Idle /\ call'.op = call.op /\ call'.pc = "save" /\ call'.new = n
      /\ TypeOK' /\ JobOK'
  BY <1>1, <1>2, <1>3, Inside DEF Steps, StagesInv, TypeOK
<1>5. FilesOK' /\ RegisteredOK' /\ Clean'
  BY <1>1 DEF StagesInv, FilesOK, RegisteredOK, StageOK, Chosen
<1>6. \/ Like(call'.new, job')
      \/ Like(call'.new, [job' EXCEPT !.calib = calibrations', !.verified = FALSE])
  <2>1. Like(call.new, job)
    BY <1>1 DEF StagesInv, StageOK
  <2>2. CASE n = call.new
    BY <1>1, <1>4, <2>1, <2>2 DEF Like
  <2>3. CASE n = Detected
    <3>1. /\ n.calib = calibrations /\ n.verified = FALSE /\ n.tracked = job.tracked
          /\ n.sel = job.sel /\ n.analytics = job.analytics
      BY <1>1, <2>1, <2>3 DEF Detected, Like, Job
    <3>2. Like(n, [job EXCEPT !.calib = calibrations, !.verified = FALSE])
      BY <3>1 DEF Like, StagesInv, TypeOK, Job
    <3> QED
      BY <1>1, <1>4, <3>2
  <2> QED
    BY <1>2, <2>2, <2>3
<1>7. job'.calib = 0 /\ calibrations' # 0
  BY <1>1 DEF StagesInv, StageOK
<1>8. StageOK'
  BY <1>1, <1>4, <1>5, <1>6, <1>7 DEF StageOK, Stages, Ops, Reviews
<1> QED
  BY <1>4, <1>5, <1>8 DEF StagesInv

LEMMA AnalyzeComputeStep ==
    ASSUME WorkflowAssumption, StagesInv, UNCHANGED <<provider, diag>>, AnalyzeCompute
    PROVE  StagesInv'
<1>1. call # Idle /\ call.new \in Job /\ At("analyze", "compute")
  BY Under, Constants DEF AnalyzeCompute, StagesInv, Calls
<1>2. [call.new EXCEPT !.analytics = TRUE] \in Job
  BY <1>1 DEF Job
<1>3. /\ Like(call.new, job) /\ Measurable /\ job.tracked
      /\ Agreed /\ Signature = job.sel /\ job.sel # NoResult
      /\ files' = files \/ files' = [files EXCEPT !.analytics = job.sel]
      /\ files' \in Contents
  <2>1. /\ Like(call.new, job) /\ Measurable /\ job.tracked
        /\ Agreed /\ Signature = job.sel /\ job.sel # NoResult
    BY <1>1 DEF AnalyzeCompute, Like, StagesInv, StageOK
  <2>2. [calib |-> files.tracking, sel |-> files.chosen] = job.sel
    BY <2>1 DEF Signature, Agreed
  <2>3. files' = files \/ files' = [files EXCEPT !.analytics = job.sel]
    BY <2>2 DEF AnalyzeCompute
  <2> QED
    BY <2>1, <2>3 DEF StagesInv, TypeOK, Contents, Job
<1>4. /\ call' # Idle /\ call'.op = call.op /\ call'.pc = "save" /\ call'.new = [call.new EXCEPT !.analytics = TRUE]
      /\ TypeOK' /\ JobOK'
      /\ UNCHANGED <<job, reg, calibrations>>
  BY <1>1, <1>2, <1>3, Inside DEF AnalyzeCompute, Steps
<1>5. FilesOK' /\ RegisteredOK'
  BY <1>3, <1>4 DEF StagesInv, TypeOK, Contents, FilesOK, RegisteredOK, Chosen
<1>6. Like(call'.new, [job' EXCEPT !.analytics = TRUE])
  BY <1>3, <1>4 DEF StagesInv, TypeOK, Like, Job
<1>7. Agreed' /\ Signature' = job'.sel /\ job'.sel # NoResult
  BY <1>3, <1>4 DEF StagesInv, TypeOK, Contents, Agreed, Signature
<1>8. StageOK'
  BY <1>1, <1>3, <1>4, <1>6, <1>7 DEF StageOK, Stages, Ops, Reviews, Measurable
<1> QED
  BY <1>4, <1>5, <1>8 DEF StagesInv

LEMMA PlayEditStep ==
    ASSUME WorkflowAssumption, StagesInv, UNCHANGED <<provider, diag>>, PlayEdit
    PROVE  StagesInv'
<1>1. call # Idle /\ call.new \in Job /\ At("play", "edit")
  BY Under, Constants DEF PlayEdit, StagesInv, Calls
<1>2. call.new \in Job
  BY <1>1
<1>3. /\ Like(call.new, job) /\ Clean /\ Measurable /\ job.tracked
      /\ files' = [files EXCEPT !.play = [calib |-> files.tracking, sel |-> files.cand]]
      /\ files' \in Contents
  <2>1. Like(call.new, job) /\ Clean /\ Measurable /\ job.tracked
    BY <1>1 DEF StagesInv, StageOK
  <2>2. /\ files' = [files EXCEPT !.play = [calib |-> files.tracking, sel |-> files.cand]]
        /\ [calib |-> files.tracking, sel |-> files.cand] \in Evidence
    BY DEF PlayEdit, StagesInv, TypeOK, Contents, Evidence
  <2> QED
    BY <2>1, <2>2 DEF StagesInv, TypeOK, Contents
<1>4. /\ call' # Idle /\ call'.op = call.op /\ call'.pc = "save" /\ call'.new = call.new
      /\ TypeOK' /\ JobOK'
      /\ UNCHANGED <<job, reg, calibrations>>
  BY <1>1, <1>2, <1>3, Inside DEF PlayEdit, Steps
<1>5. FilesOK' /\ RegisteredOK'
  BY <1>1, <1>4 DEF PlayEdit, StagesInv, TypeOK, Contents, JobOK, FilesOK, RegisteredOK, StageOK, Chosen, NoFiles, NoResult
<1>6. Same'
  BY <1>3, <1>4 DEF Like
<1>7. provider' = "s3" => files' = [reg' EXCEPT !.play = files'.play]
  BY <1>3, <1>4 DEF StagesInv, TypeOK, Contents
<1>8. StageOK'
  BY <1>1, <1>3, <1>4, <1>6, <1>7 DEF StageOK, Stages, Ops, Reviews, Measurable
<1> QED
  BY <1>4, <1>5, <1>8 DEF StagesInv

LEMMA MarkFailedStep ==
    ASSUME WorkflowAssumption, StagesInv, UNCHANGED <<provider, diag>>, MarkFailed
    PROVE  StagesInv'
<1>1. call # Idle /\ call.new \in Job /\ call.pc \in {"edit", "compute"} /\ call.op \in {"calibrate", "track", "analyze"}
  BY Under, Constants DEF MarkFailed, StagesInv, Calls
<1>2. call.new \in Job
  BY <1>1
<1>3. files' \in Contents
  BY Constants DEF MarkFailed, StagesInv, TypeOK, Contents
<1>4. /\ call' # Idle /\ call'.op = call.op /\ call'.pc = "save" /\ call'.new = call.new
      /\ TypeOK' /\ JobOK'
      /\ UNCHANGED <<job, reg, calibrations>>
  BY <1>1, <1>2, <1>3, Inside DEF MarkFailed, Steps
<1>5. FilesOK' /\ RegisteredOK'
  BY <1>1, <1>4 DEF MarkFailed, StagesInv, TypeOK, Contents, JobOK, FilesOK, RegisteredOK, StageOK, Chosen, NoFiles, NoResult
<1>6. Same' /\ UNCHANGED <<files, provider>>
  BY <1>1, <1>4 DEF MarkFailed, StagesInv, StageOK, Like
<1>7. Rests'
  BY <1>1, <1>4 DEF StagesInv, StageOK, Measurable
<1>8. call.pc = "edit" => Clean'
  BY <1>1, <1>4, <1>6 DEF StagesInv, StageOK
<1>9. call.op = "analyze" => Agreed' /\ Signature' = job'.sel
  BY <1>1, <1>4, <1>6 DEF MarkFailed, StagesInv, StageOK, Agreed, Signature
<1>10. StageOK'
  BY <1>1, <1>4, <1>6, <1>7, <1>8, <1>9 DEF MarkFailed, StageOK, Stages, Ops, Reviews
<1> QED
  BY <1>4, <1>5, <1>10 DEF StagesInv

\* _refresh_analysis_readiness: the lineage is what the files say.
LEMMA RefreshStep ==
    ASSUME WorkflowAssumption, StagesInv, UNCHANGED <<provider, diag>>, Refresh
    PROVE  StagesInv'
<1>1. call # Idle /\ call.new \in Job /\ call.op \in Reviews \union {"track", "analyze"}
  BY Under, Constants DEF Refresh, StagesInv, StageOK, Stages, Calls, Ops, Reviews
<1>2. /\ Agreed /\ Like(call.new, job) /\ Measurable /\ job.tracked
      /\ call.op = "track" => job.tracked
  BY <1>1 DEF Refresh, StagesInv, StageOK, Measurable
<1>3. Signature \in Evidence
  BY Constants DEF Agreed, Refresh, Signature, Evidence, StagesInv, TypeOK, Contents
<1>4. CASE Signature # call.new.sel
  <2>1. /\ call' = [call EXCEPT !.pc = "saveLineage", !.new = [call.new EXCEPT !.sel = Signature, !.analytics = FALSE]]
        /\ files' = Removed(files) /\ UNCHANGED <<job, reg, calibrations>>
    BY <1>4 DEF Refresh
  <2>2. [call.new EXCEPT !.sel = Signature, !.analytics = FALSE] \in Job
    BY <1>1, <1>3 DEF Job
  <2>3. /\ files' \in Contents /\ files'.analytics = NoResult /\ files'.play = NoResult
        /\ files'.tracking = files.tracking /\ files'.cand = files.cand /\ files'.chosen = files.chosen
    BY <2>1, Constants DEF Removed, StagesInv, TypeOK, Contents
  <2>4. /\ call' # Idle /\ call'.op = call.op /\ call'.pc = "saveLineage"
        /\ call'.new = [call.new EXCEPT !.sel = Signature, !.analytics = FALSE]
        /\ TypeOK' /\ JobOK'
    BY <1>1, <2>1, <2>2, <2>3, Inside DEF Steps
  <2>5. FilesOK' /\ RegisteredOK'
    BY <2>1, <2>3 DEF StagesInv, FilesOK, RegisteredOK, Chosen
  <2>6. Signature' = Signature /\ Agreed'
    BY <1>2, <2>3 DEF Signature, Agreed
  <2>7. Like(call'.new, [job' EXCEPT !.sel = Signature', !.analytics = FALSE]) /\ Signature # job.sel
    BY <1>1, <1>2, <1>4, <2>1, <2>4, <2>6 DEF Like, Job, StagesInv, TypeOK
  <2>8. Signature' = call'.new.sel
    BY <1>1, <2>4, <2>6 DEF Job
  <2>9. StageOK'
    BY <1>1, <1>2, <2>1, <2>3, <2>4, <2>6, <2>7, <2>8 DEF StageOK, Stages, Ops, Reviews, Measurable
  <2> QED
    BY <2>4, <2>5, <2>9 DEF StagesInv
<1>5. CASE Signature = call.new.sel
  <2>1. UNCHANGED <<job, reg, files, calibrations>>
    BY <1>5 DEF Refresh
  <2>2. CASE call' = Idle
    BY <2>1, <2>2, Ended DEF StagesInv, TypeOK, JobOK, FilesOK, RegisteredOK, Chosen
  <2>3. ASSUME NEW pc \in {"saveLineage", "compute"}, call' = [call EXCEPT !.pc = pc],
               pc = "compute" => call.op = "analyze"
        PROVE  StagesInv'
    <3>1. /\ call' # Idle /\ call'.op = call.op /\ call'.pc = pc /\ call'.new = call.new
          /\ TypeOK' /\ JobOK'
      BY <1>1, <2>1, <2>3, Inside DEF Steps, StagesInv, TypeOK
    <3>2. FilesOK' /\ RegisteredOK'
      BY <2>1 DEF StagesInv, FilesOK, RegisteredOK, Chosen
    <3>3. Signature' = Signature /\ Agreed' /\ Same' /\ Signature = job.sel
      BY <1>2, <1>5, <2>1, <3>1 DEF Signature, Agreed, Like
    <3>4. Measurable' /\ job'.tracked
      BY <1>2, <2>1 DEF Measurable
    <3>5. ASSUME pc = "saveLineage" PROVE StageOK'
      BY <1>1, <1>5, <3>1, <3>3, <3>4, <3>5 DEF StageOK, Stages, Ops, Reviews
    <3>6. ASSUME pc = "compute" PROVE StageOK'
      BY <2>1, <2>3, <3>1, <3>3, <3>4, <3>6 DEF StageOK, Stages, Ops, Reviews
    <3>7. StageOK'
      BY <3>5, <3>6
    <3> QED
      BY <3>1, <3>2, <3>7 DEF StagesInv
  <2> QED
    BY <1>5, <2>2, <2>3 DEF Refresh
<1> QED
  BY <1>4, <1>5

LEMMA TrackSaveStep ==
    ASSUME WorkflowAssumption, StagesInv, UNCHANGED <<provider, diag>>, TrackSave
    PROVE  StagesInv'
<1>1. call # Idle /\ Save("edit2") /\ call \in Calls
  BY Under, Constants DEF TrackSave, StagesInv
<1>2. TypeOK'
  BY <1>1, SaveTypes DEF Steps
<1>3. JobOK' /\ FilesOK' /\ RegisteredOK' /\ job'.tracked
  BY <1>1, SaveTracked DEF TrackSave
<1>4. call' = [call EXCEPT !.pc = "edit2", !.new = job'] /\ job' \in Job
  BY <1>1, SaveEffect
<1>5. call'.op = "track" /\ call'.pc = "edit2" /\ call'.new = job'
  BY <1>1, <1>4 DEF TrackSave, Calls
<1>6. Measurable'
  BY <1>3 DEF JobOK, Measurable
<1>7. Same' /\ Rests'
  BY <1>3, <1>5, <1>6 DEF Like
<1>8. StageOK'
  BY <1>5, <1>7 DEF StageOK, Stages, Ops, Reviews
<1> QED
  BY <1>2, <1>3, <1>8 DEF StagesInv

LEMMA LineageSaveStep ==
    ASSUME WorkflowAssumption, StagesInv, UNCHANGED <<provider, diag>>, LineageSave
    PROVE  StagesInv'
<1>1. call # Idle /\ call.pc = "saveLineage" /\ call \in Calls
  BY Under, Constants DEF LineageSave, StagesInv
<1>2. Related /\ call.op \in Reviews \union {"track", "analyze"}
  BY <1>1 DEF StagesInv, StageOK, Stages, Ops, Reviews
<1>3. CASE call.op # "analyze"
  <2>1. Save("idle")
    BY <1>3 DEF LineageSave
  <2>2. TypeOK'
    BY <1>1, <2>1, SaveTypes
  <2>3. JobOK' /\ FilesOK' /\ RegisteredOK'
    BY <1>1, <1>2, <2>1, SaveRelated
  <2> QED
    BY <1>1, <2>1, <2>2, <2>3, SaveEffect, Ended DEF StagesInv
<1>4. CASE call.op = "analyze"
  <2>1. Save("compute")
    BY <1>4 DEF LineageSave
  <2>2. TypeOK'
    BY <1>1, <2>1, SaveTypes DEF Steps
  <2>3. JobOK' /\ FilesOK' /\ RegisteredOK'
    BY <1>1, <1>2, <2>1, SaveRelated
  <2>4. /\ call' = [call EXCEPT !.pc = "compute", !.new = job'] /\ job' \in Job
        /\ Like(job', call.new) /\ UNCHANGED files
    BY <1>1, <2>1, SaveEffect
  <2>5. call'.op = "analyze" /\ call'.pc = "compute" /\ call'.new = job'
    BY <1>1, <1>4, <2>4 DEF Calls
  <2>6. Agreed' /\ Signature' = job'.sel
    BY <1>1, <1>2, <2>4 DEF Like, Agreed, Signature
  <2>7. Measurable' /\ job'.tracked
    <3>1. job.tracked /\ job.calib # 0 /\ job.verified
      BY <1>1, <1>4 DEF StagesInv, StageOK, Measurable
    <3>2. call.new.calib = job.calib /\ call.new.tracked = job.tracked /\ call.new.verified = job.verified
      BY <1>1, <1>2 DEF Like, Job, StagesInv, TypeOK
    <3> QED
      BY <2>4, <3>1, <3>2 DEF Like, Measurable
  <2>8. StageOK'
    BY <2>5, <2>6, <2>7 DEF StageOK, Stages, Ops, Reviews, Like
  <2> QED
    BY <2>2, <2>3, <2>8 DEF StagesInv
<1> QED
  BY <1>3, <1>4

LEMMA LastSaveStep ==
    ASSUME WorkflowAssumption, StagesInv, UNCHANGED <<provider, diag>>, LastSave
    PROVE  StagesInv'
<1>1. call # Idle /\ call.pc = "save" /\ Save("idle")
  BY Constants DEF LastSave
<1>2. TypeOK'
  BY <1>1, SaveTypes
<1>3. call.op \in {"detect", "calibrate", "confirm", "track", "analyze", "play"}
  BY <1>1 DEF StagesInv, StageOK, Stages, Ops, Reviews
<1>4. JobOK' /\ FilesOK' /\ RegisteredOK'
  <2>1. CASE call.op = "calibrate"
    <3>1. (Same /\ Clean) \/ (Like(Saved, Corrected(job)) /\ files = NoFiles)
      BY <1>1, <2>1 DEF StagesInv, StageOK
    <3> QED
      BY <1>1, <2>1, <3>1, SaveSame, SaveCalibrated
  <2>2. CASE call.op = "confirm"
    <3>1. Like(Saved, [job EXCEPT !.verified = TRUE]) /\ Clean
      BY <1>1, <2>2 DEF StagesInv, StageOK
    <3> QED
      BY <1>1, <2>2, <3>1, SaveConfirmed
  <2>3. CASE call.op = "track"
    <3>1. Same /\ Clean
      BY <1>1, <2>3 DEF StagesInv, StageOK
    <3> QED
      BY <1>1, <3>1, SaveSame
  <2>4. CASE call.op = "analyze"
    BY <1>1, <2>4, SaveAnalyzed
  <2>5. CASE call.op = "play"
    BY <1>1, <2>5, SavePlayed
  <2>6. CASE call.op = "detect"
    <3>1. Clean /\ (Same \/ Like(Saved, [job EXCEPT !.calib = calibrations, !.verified = FALSE]))
      BY <1>1, <2>6 DEF StagesInv, StageOK
    <3> QED
      BY <1>1, <2>6, <3>1, SaveSame, SaveDetected
  <2> QED
    BY <1>3, <2>1, <2>2, <2>3, <2>4, <2>5, <2>6
<1> QED
  BY <1>1, <1>2, <1>4, SaveEffect, Ended DEF StagesInv

-----------------------------------------------------------------------------
(* The invariant.                                                           *)
LEMMA StagesStart ==
    ASSUME WorkflowAssumption, Init
    PROVE  StagesInv
BY Constants DEF Init, Quiet, StagesInv, TypeOK, JobOK, FilesOK, RegisteredOK, StageOK, NewJob, NoFiles, NoResult,
       WorkflowAssumption

LEMMA StagesStep ==
    ASSUME WorkflowAssumption, StagesInv, UNCHANGED <<provider, diag>>, Stage
    PROVE  StagesInv'
<1>1. ASSUME NEW op \in Reviews, NEW p \in Choice, Review(op, p) PROVE StagesInv'
  BY <1>1, ReviewStep
<1>2. Players \subseteq Choice /\ "none" \in Choice /\ "select" \in Reviews
  BY DEF Choice, Reviews
<1> QED
  BY <1>1, <1>2, FailStep, OtherTransactionStep, DetectStep, DetectEditStep, CalibrateStep, CalibrateEditStep,
     ConfirmStep, ConfirmEditStep, TrackStep, TrackEditStep, TrackSaveStep, TrackEnsureStep,
     SelectEditStep, RejectEditStep, RestoreEditStep, MergeEditStep, ChooseStep,
     GenerateEditStep, UnmergeEditStep, UnmergeBuildStep, RefreshStep, LineageSaveStep,
     AnalyzeStep, AnalyzeEnsureStep, AnalyzeComputeStep, PlayStep, PlayEditStep, MarkFailedStep, LastSaveStep
     DEF Stage, SelectPlayer

\* A step that leaves the stages alone.
LEMMA StagesStutter ==
    ASSUME StagesInv, UNCHANGED <<provider, job, reg, files, calibrations, call>>,
           diag' = diag \/ TypeOK'
    PROVE  StagesInv'
<1>1. TypeOK' /\ JobOK' /\ FilesOK' /\ RegisteredOK'
  BY DEF StagesInv, TypeOK, JobOK, FilesOK, RegisteredOK, Chosen
<1>2. call # Idle =>
        /\ call.op \in Ops /\ call.pc \in Stages[call.op]
        /\ Rests' /\ Editing' /\ Listing' /\ Fresh' /\ Found' /\ Calibrated' /\ Confirmed'
  BY DEF StagesInv, StageOK, Like, Measurable, Corrected
<1>3. call # Idle => Tracked' /\ Related' /\ Analyzed' /\ Played'
  BY DEF StagesInv, StageOK, Like, Agreed, Signature
<1> QED
  BY <1>1, <1>2, <1>3 DEF StagesInv, StageOK

\* The diagnostic answers only if the registrations and the selection that it
\* began with are the current ones, and those belong to the job.
LEMMA DiagnosticStep ==
    ASSUME WorkflowAssumption, StagesInv, DiagnosticOK, UNCHANGED provider, Diagnostic
    PROVE  StagesInv' /\ DiagnosticOK'
<1>1. CASE DiagnosticBegin
  <2>1. provider = "s3" /\ reg.tracking # 0 /\ diag' = [pc |-> "transfer", seen |-> reg, court |-> 0, player |-> NoResult]
    BY <1>1 DEF DiagnosticBegin, Quiet
  <2>2. TypeOK'
    BY <2>1, Constants DEF Diagnostic, StagesInv, TypeOK, WorkflowAssumption
  <2> QED
    BY <2>1, <2>2, StagesStutter DEF Diagnostic, DiagnosticOK, DiagnosticIsCurrent
<1>2. CASE DiagnosticAgree
  <2>1. /\ diag.pc = "transfer" /\ diag' = [diag EXCEPT !.pc = "agreed"]
        /\ diag.seen.analytics = [calib |-> diag.seen.tracking, sel |-> diag.seen.cand]
    BY <1>2 DEF DiagnosticAgree, Agreeing
  <2>2. TypeOK' /\ diag'.pc = "agreed" /\ diag'.seen = diag.seen
    BY <2>1 DEF Diagnostic, StagesInv, TypeOK
  <2> QED
    BY <2>1, <2>2, StagesStutter DEF Diagnostic, DiagnosticOK, DiagnosticIsCurrent
<1>3. CASE DiagnosticAnswer
  <2>1. /\ diag.pc = "agreed" /\ Unchanged(diag.seen)
        /\ diag' = [diag EXCEPT !.pc = "answered", !.court = job.calib, !.player = job.sel]
    BY <1>3 DEF DiagnosticAnswer
  <2>2. /\ TypeOK' /\ diag'.pc = "answered" /\ diag'.seen = diag.seen
        /\ diag'.court = job.calib /\ diag'.player = job.sel
    BY <2>1 DEF Diagnostic, StagesInv, TypeOK, Job
  <2>3. /\ reg.tracking = diag.seen.tracking /\ reg.analytics = diag.seen.analytics
        /\ reg.picked = diag.seen.picked
    BY <2>1 DEF Unchanged, Records
  <2>4. diag.seen.tracking = job.calib /\ diag.seen.analytics = job.sel
    BY <2>1, <2>3 DEF DiagnosticOK, StagesInv, FilesOK, NoResult
  <2>5. job.sel.sel = diag.seen.picked
    BY <2>1, <2>3 DEF DiagnosticOK, StagesInv, RegisteredOK
  <2> QED
    BY <2>1, <2>2, <2>4, <2>5, StagesStutter DEF Diagnostic, DiagnosticOK, DiagnosticIsCurrent
<1>4. CASE DiagnosticRefuse
  <2>1. diag' = Quiet /\ TypeOK' /\ diag'.pc = "quiet"
    BY <1>4, Constants DEF DiagnosticRefuse, Diagnostic, Quiet, StagesInv, TypeOK, WorkflowAssumption
  <2> QED
    BY <2>1, StagesStutter DEF Diagnostic, DiagnosticOK, DiagnosticIsCurrent
<1> QED
  BY <1>1, <1>2, <1>3, <1>4 DEF Diagnostic

\* The inductive invariant of the stages and of the diagnostic beside them.
WorkflowInv == StagesInv /\ DiagnosticOK

LEMMA WorkflowStart ==
    ASSUME WorkflowAssumption, Init
    PROVE  WorkflowInv
BY StagesStart DEF Init, Quiet, WorkflowInv, DiagnosticOK, DiagnosticIsCurrent

LEMMA WorkflowStep ==
    ASSUME WorkflowAssumption, WorkflowInv, Next
    PROVE  WorkflowInv'
<1>1. CASE Stage /\ UNCHANGED diag
  BY <1>1, StagesStep DEF Next, WorkflowInv, DiagnosticOK, DiagnosticIsCurrent
<1>2. CASE Diagnostic
  BY <1>2, DiagnosticStep DEF Next, WorkflowInv
<1> QED
  BY <1>1, <1>2 DEF Next

LEMMA WorkflowStutter ==
    ASSUME WorkflowInv, UNCHANGED vars
    PROVE  WorkflowInv'
BY StagesStutter DEF vars, WorkflowInv, DiagnosticOK, DiagnosticIsCurrent

\* Between two stages the invariant is the five properties.
LEMMA WorkflowSafe ==
    ASSUME WorkflowInv
    PROVE  /\ TypeOK /\ ReportMatchesSelection /\ TrackingMatchesCourt
           /\ SelectionRegistered /\ PlayMatchesSelection /\ DiagnosticIsCurrent
BY DEF WorkflowInv, StagesInv, JobOK, FilesOK, RegisteredOK, Chosen, Between, Readable, Offered, Report, SavedPlay, ReportMatchesSelection,
       TrackingMatchesCourt, SelectionRegistered, PlayMatchesSelection, DiagnosticOK, NoResult

=============================================================================
