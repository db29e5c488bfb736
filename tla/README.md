# Court4: formal model

Court4 accepts recordings of padel and pickleball matches, analyses them and
keeps the results. This directory holds TLA+ modules about its back end and the
parts of its web client that keep state, the TLC configurations that check them
and the proofs that TLAPS checks. Paths below are relative to the repository.

## 1. The system

| component | state it keeps | operations | who it talks to |
|---|---|---|---|
| Direct uploads (`app/services/uploads.py`) | `UploadSession` rows; multipart uploads and objects at the provider | initiate, part URLs, complete, poll, abort, verify and analyse, duplicate cleanup, retry cleanup; reconciliation script | object storage, analysis reservation, workflow; background tasks of the API |
| Object storage (`app/persistence/object_storage.py`) | objects and multipart uploads in S3 or on local disk | create, complete, abort multipart; HEAD, read, put, delete | called between database transactions |
| Persistence service (`app/persistence/service.py`) | analyses, runs, stage executions, artifacts, verifications, selections, idempotency records, event log | reserve_analysis, start_run, transition_run, stage executions, persist_job, register artifacts | PostgreSQL: row locks, advisory locks, partial unique indexes |
| Analysis workflow (`app/services/jobs/workflow.py`) | the job document of an analysis | create, calibrate, confirm, detect court, track, candidate edits, select player, analytics, active play | repository, video and tracking libraries |
| Job repository and media lock (`app/services/jobs/repository.py`) | a private workspace; advisory locks held by connections | save_job, materialise, publish artifacts, media_operation | persistence, object storage |
| Deletion (`match_lifecycle.py`, `source_media.py`) | lifecycle state and tombstones of analyses and videos | delete match, delete recording | media lock, object storage |
| Workspace capacity (`app/persistence/storage.py`) | per-root counters of bytes, active jobs and reads | reserve, extend, release | repository |
| Authentication (`app/auth/service.py`) | users, refresh sessions, account tokens | register, login, refresh, verify, reset and change password, revoke | PostgreSQL advisory locks, email |
| Player candidates (`app/services/candidates/`) | the saved collection of candidates, the selection in `tracking.json` | associate, select, reject, restore, merge, unmerge, regenerate | workflow |
| Match insights (`tracking/continuity.py`, `analytics/`, `recording_quality/`, `match_iq/`) | none (derived from observations) | candidate quality, readiness, movement, gate, insights | workflow |
| Active play (`app/services/active_play/`) | one evidence file | features, windows, intervals, report | workflow, evidence calibration |
| Play history (`app/services/history/`) | none (derived) | analyses page; contribution, comparability, groups, trends | repository |
| Evidence calibration and readiness (`evidence_calibration/`, `calibration_readiness/`) | a manifest, three reports, integrity and governance records | evaluate, write reports, decide | files an operator edits |
| Web client (`web/`) | tokens of a tab, the refresh cookie, one upload page | refresh, restore, logout; transfer, retry, resume, cancel | the API, presigned URLs |
| Court vision and detectors, sports rules, routes, settings, email, migrations, storage reconciliation | - | wiring, numerical code, reports | all |

`PROJECT.json` lists every component with what is modelled of it.

### What is hard

* *Three failure domains.* PostgreSQL, the object store and the API processes
  fail separately. The code keeps no transaction open across slow provider
  calls, so every provider call lies between two transactions, and what one
  transaction saw may no longer hold in the next.
* *No job queue.* A verification runs as a background task of the response that
  scheduled it. If the process dies, only a later poll starts another; a
  timestamp lease keeps most, but not all, pairs of tasks apart.
* *Same bytes, twice.* Uploads of the same content have to converge on one
  analysis, and the extra object has to be deleted exactly once, also when the
  process dies between the delete and the commit.
* *Long-lived, interactive analyses.* Stages read a job document, compute for
  minutes and write the document back; the user corrects and deletes meanwhile,
  and each correction has to retire exactly what depended on it.
* *Security state.* Refresh tokens rotate, and reuse, resets and revocations
  race with rotation; several tabs share one cookie and refresh on their own.
* *A browser in the middle of an upload.* Requests are lost, abandoned, answered
  late or repeated; the page is reloaded; the wrong file is chosen to resume.
* *Evidence read piece by piece.* Reports, integrity records and histories are
  read file by file while others are written.
* *Chains of judgements over the same observations.* Candidate quality,
  readiness, measurement and gate are computed by separate code from the same
  frames and have to agree.

### What makes each component correct

* Direct uploads: the owner's limit holds; one request completes a multipart
  upload; analyses come from the declared bytes only; equal bytes are analysed
  once unless asked; a cancelled, failed or completed session stays so; a
  polled verification is decided.
* Persistence service: one active run per analysis; a run or an attempt ends
  once; keys replay their first outcome; nothing is promoted that did not complete.
* Workflow: an artifact is current only if it was computed from the current
  calibration, tracking and selection.
* Deletion: once a deletion is recorded no reader sees, and no writer brings
  back, the media; a retried deletion ends.
* Capacity: the counters equal what live reservations hold.
* Authentication: at most one live refresh session per family; a reused token
  ends its family; nothing issued before a reset outlives it.
* Web client: a login that ended is not brought back by a late answer; one whole
  file goes to verification and only the user destroys a session.
* Candidates: every raw track is in one candidate, nobody is in two places, the
  decisions of the user survive regeneration.
* Insights: what may be selected can be measured, what is ready is not refused,
  advice rests on one track without a gap.
* Active play: play is claimed only where two players are followed and move; the
  states add up to the time classified.
* History: what is compared is sound; groups are apart and in order; what the
  page announces agrees with what it shows.
* Readiness: the next phase opens only on current, complete, reproduced evidence.

## 2. The modules

### `DirectUpload.tla`

One owner's upload sessions. Every database transaction is one action; every
provider call that lies between two transactions is an action of its own.

| variable | code |
|---|---|
| `status`, `again`, `content` | `UploadSession.status`, `.reanalyze`, the content behind `court4_file_identity` |
| `due`, `cleaned`, `lease` | `expires_at <= now`, `aborted_at`, `verification_started_at` against the lease |
| `pending`, `result` | `failure_reason = "duplicate_cleanup_pending"`, the analysis named by `result_payload` |
| `hashed` | `verified_sha256` is set |
| `multi`, `store` | the provider's multipart upload (with what its parts hold) and object |
| `analysis`, `idem` | the `Analysis` row of the session, the idempotency record of `direct-upload:<id>` |
| `pc`, `on` | the next step of each request or background task, and its session |

| operation | actions |
|---|---|
| `initiate` | `Initiate` (admission, expiry of abandoned sessions, row), `InitiateRolledBack` (429, provider error, lost commit) |
| `create_part_urls`, the browser's PUTs | `Expire`, `CreatePartUrls`, `PutParts` |
| `complete` | `Expire` or `RequestComplete`, `ClaimCompletion`, `ProviderComplete`, `HeadUpload`, `RestoreUploading` or `RecordCompletion` or `Fail` |
| `get` | `Expire`, `Poll` (schedules the task) |
| `abort` | `RequestAbort` (claim), `Abort` (provider abort under the row lock) |
| `verify_and_analyze` | `Begin`, `ClaimLease`, `Verify`, `RecordVerified` or `Snapshot`, `Materialize`, `Reserve`, `Inspect`, `SaveJob`, `Finish`, `Cleanup`, `Fail` |
| `cleanup_duplicate`, retry | `Cleanup` |
| `reconcile_multipart_uploads.py` | `ReconcileScript` |
| time, death | `TimeToLiveEnds`, `LeaseLapses`, `Crash`, `AbortLost`; a `Death` inside `Abort` and `Cleanup` is a commit that got lost after the provider acted |

Reductions, and why they lose nothing the properties speak of:

* One owner: locks, limits, keys and duplicate search are per owner.
* Time is two flags that may turn at any moment, which includes every schedule
  real clocks produce.
* Requests carry a file identity, as those of the web client do; without it the
  service cannot tell altered bytes of the right size and does not claim to.
* `create_part_urls` has two transactions; the second re-checks what it needs,
  so it is modelled with `Expire` as the first.
* A workspace capacity refusal is a `Fault` in `Materialize`.
* A request that the code rejects without a change is not a step.
* A multipart upload whose creating transaction rolled back has no row and is
  outside the model: nothing in the code can see it.
* Deletion of finished matches is in `MatchMedia`: an upload session that has
  ended is not changed by it beyond wiping its private columns.

### `UploadPromise.tla`

What the owner is promised, without rows, leases, workers or providers: a
session is open, finalizing, withdrawn, failed or answered; at most `Limit` are
open or finalizing; an answer is an analysis in the library; withdrawn, failed
and answered are final. `DirectUpload` instantiates it as `Promise` with
`phase` read off the status column, `answer` off the recorded result of a
completed session and `library` off the analyses that exist. `Publish` in
`failed` is deliberate: a worker that lost its lease may create the analysis of
a session another worker has failed.

### `MatchMedia.tla`

The media of one match from its creation to its deletion. Requests and
background tasks are processes; a database transaction is one action and a call
to the object store or a sweep of the local disk is an action of its own, so
everything that may happen between two of them does.

| variable | code |
|---|---|
| `life`, `video`, `keyed` | `Analysis.lifecycle_state`, `UploadedVideo.state`, `UploadedVideo.storage_key is not None` |
| `phase`, `run` | what `Analysis.state` and the payload say of inspection and analytics, `AnalysisRun.state` |
| `upload` | the `UploadSession` of the match: none, at work, ended |
| `registry` | `AnalysisArtifact` rows: current, retired (`is_current` false), deleted |
| `store` | objects at the provider |
| `local`, `abandoned` | the workspaces of requests, and of processes that died |
| `mode` | the advisory lock `source-media:<owner>:<analysis>` a connection holds |
| `pc`, `op`, `todo`, `want`, `fresh` | step and operation of a process, the objects it listed, the outcome it will save, whether the row version it loaded is current |
| `ever` | history variable: objects that were registered at some time |

| operation | actions |
|---|---|
| creating the match (`_create_analysis_from_staging`) | `StartCreate`, `Reserve`, `Inspect`, `LockSave`, the save, `Unlock`, `Settle` |
| `save_job` | `SaveCheck` (tombstone, retained source, stale version), `Put` (one object each), `Persist` (`persist_job` with its checks repeated under the row lock) |
| calibrate, track, analyse (`@media_operation(exclusive=True)`) | `StartWork`, `Load`, `Download`, `Compute`, then saves |
| `load_job`, `resolve_artifact` | `StartRead`, `Load`, `Download` |
| `MatchLifecycleService.delete` | `StartPurge`, `ClaimPurge`, `Erase` (one object each), `Sweep`, `FinalizePurge` |
| `SourceMediaService.delete` | `StartRelease`, `ClaimRelease`, `Erase`, `Sweep`, `FinalizeRelease` |
| the end of a request | `Unlock`, `Close` (removes the workspace) |
| another task of the same upload | `SettleElsewhere` |
| death, a broken lock connection | `Crash` (the lock goes, the workspace stays), `DropLock` (the lock goes, its process works on) |

Reductions:

* One match: locks, keys and rows are per analysis. The store is S3.
* The artifacts are the recording, versions of one playback video under
  `tracking/`, and versions of one report document. Versions share their logical
  key and differ in their provider key, as `artifact_object_key` builds it from
  the checksum. More logical keys of either kind behave like these two.
* `save_job` makes three reads before it uploads (tombstone, retained source,
  stale version). They are one step: each of them only refuses, and `Persist`
  repeats all of them. For the same reason the guard of a workflow operation and
  the load that follows it are one step.
* A document stands for every artifact that is not playback media; that a
  corrected court also retires analytics is the subject of `WorkflowStages`. Results that an
  operation regenerates replace those it loaded.
* The recording may be released when the analysis is completed, the rule for
  pickleball; a padel recording may go as soon as it is inspected.
* `Compute` is any workflow operation seen from the media: it writes a version,
  discards what a corrected court invalidates or fails, and saves as often as it
  likes.
* `upload` abbreviates `DirectUpload`: while the session is at work it ends by
  the task that creates the match (`Settle`) or by another one.
* Workspaces are those of one host, as the sweep sees them
  (`court4-<owner>-*`).
* Recordings shared by two analyses, and registry keys that do not match their
  rebuilt form, are refused without a change and left out; so are local storage,
  imports of old matches and diagnostic reads.

### `RetentionPromise.tla`

What the owner is promised about media, without locks, rows or workspaces: what
is offered is kept, only what is not offered is destroyed, and a match that was
deleted offers nothing again. `MatchMedia` instantiates it with `offered` as
what a live match offers (current artifacts, without playback media once the
recording is being deleted), `kept` as the objects at the provider and `closed`
as the committed tombstone.

### `AnalysisRuns.tla`, `RunPromise.tla`

The runs of one analysis: `start_run` (an unlocked read of the idempotency
record, then the insert, or the recovery from a unique index in a second
transaction), `transition_run` with its row version, the run part of
`persist_job`, and the claim of a deletion, which cancels runs. The code takes
its two row locks in two orders; where these wait for each other PostgreSQL
rolls one transaction back, which is a transaction that did not happen.
`RunPromise` says what an analysis promises of its runs: one at a time, an ended
run never changes, the result is the last run that completed, and nothing runs
after a deletion.

### `StageAttempts.tla`

The attempts of the optional ball stage: starting takes the lock of the
analysis, a transition is one conditional update, and a registration checks its
attempt before it writes (two actions). Workers, a recovery process that marks
attempts stale and a deletion interleave.

### `StorageCapacity.tla`

`LocalStorage`'s counters of one process: reservations of the three admissions,
extensions, releases, bounded reads and the hard stop against the free space of
the volume, with requests that write less or more than they reserved and
processes that die and leave their workspace.

### `WorkflowStages.tla`

The stages of one analysis over the job document, the registry and the files of
a workspace: court detection, calibration, confirmation, tracking, the reviews of
candidates (select, reject, restore, merge, unmerge, generate), analytics and
active play, each with its load, its writes, `_refresh_analysis_readiness` and
its save, in which `persist_job` registers and retires. A stage fails or dies
after each of its writes, and `start_run` moves the row version under it. With
S3 each request has its own workspace; with local storage all share one and a
failed stage leaves its files. Artifacts carry what they were computed from,
which is what the property compares.

| variable | code |
|---|---|
| `provider` | the storage setting, fixed at start-up |
| `job` | what `job_payload` says of court, tracking, selection and analytics; `row_version` |
| `reg` | `AnalysisArtifact` rows with `is_current`, and the current row of `player_selections` (`picked`) |
| `files` | the workspace of the stage |
| `calibrations` | calibration ids handed out |
| `call` | the stage that runs, its step, and the job document it will save |
| `diag` | the tracking diagnostic: its step, what it read, what was current when it answered |

The evidence signature of the code is a digest of tracking, collection and
candidate; here it is the court of the tracking and the candidate, which is what
tells two digests of one analysis apart when tracking is not repeated on one
court. What a review does to the collection beyond the selection is the subject
of `CandidateReview`. The tracking diagnostic
(`app/services/tracking/diagnostic.py`) is the one reader of a running stage: it
reads registrations and the selection under the lock, transfers the objects
without it and compares everything once more before it answers.

### `AuthSessions.tla`, `SessionPromise.tla`

One account: refresh sessions in families, account links, passwords. `login`,
`refresh` and the consumption of a link read a row before they take the lock of
the account, and are two actions each; every other operation is one.
`SessionPromise` speaks of logins only: an ended login stays ended, and a new
password ends all but the one it was set from.

### `WebSession.tla`

The browser: tabs with an access token each and one cookie. Requests and answers
are separate steps, an answer may be lost, a logout or another login may come
between. It implements `SessionPromise` too, read off what the API honours.

### `UploadClient.tla`

The upload page against the sessions of the API, which are abbreviated to what a
client can tell apart (`DirectUpload` has their detail). The transfer has
workers with attempts, refused and refreshed part URLs; the page has the
dropzone, the release of an earlier session, cancellation, and the recovery page
after a reload. A request that failed or was abandoned is kept in `late` and may
be served at any later time, or never.

### `FragmentAssociation.tla`, `CandidateReview.tla`

The first builds candidates from fragments: all plausible continuations, ranked
and joined greedily, except where a rival on court at the same time could supply
an endpoint. The second edits the saved collection: a candidate is the set of
raw tracks it joins, since its id is a hash of it; every operation is one action
since it holds the exclusive media lock; regeneration starts from the
observations and applies saved rejections and merges again.

### `MovementEvidence.tla`

A recording yields frame by frame where a candidate is: on court, off court, not
seen, under a new track. From the same frames the module computes the candidate
and its eligibility, preflight and readiness, measured time, distance and zones,
the gate and the rules of Match IQ. Durations are frames and ratios are compared
in percent; the rounding of a sum of floats is a parameter of its own, since one
finding is about it.

### `PlayMotion.tla`

The features and the classification of the shadow play estimate, on quarter
seconds and along one line, in units in which the code's means are whole
numbers: segments, smoothing, velocities, windows, classification, merging and
the report.

### `ActivePlayReview.tla`, `EvidenceEvaluation.tla`, `CalibrationReadiness.tla`

What a reviewer's labels say of the evidence. `ActivePlayReview` measures
reviewed intervals against windows and simulates another policy;
`EvidenceEvaluation` counts samples into the metrics, the disagreement list, the
policy errors, the simulations and the review list, which separate functions
count separately; `CalibrationReadiness` has the command that writes three
reports and an integrity record one after the other, the edits of everything it
reads, and the dashboard that reads the same files one after the other and
decides.

### `PlayHistory.tla`

Two requests without a lock. The page of analyses scans metadata, filters,
counts and slices, then projects the analyses of the page. The progress answer
projects every analysis, reads the reports of the included ones a second time,
and compares the earlier half of the comparable ones with the recent half.
`library` changes between any two reads. Aggregates are quotients of two sums,
compared by cross-multiplication.

### Instances and proofs

The MC modules instantiate the components. Five of them put several components
side by side: `MCEnds`, `MCAnalysis`, `MCSessions`, `MCPlayers`, `MCEvidence`.
These components share no variable, so interleaving them would multiply states
and add no behaviour of any of them; `focus`, chosen in `Init`, is the one that
moves, and a property speaks of the component in focus. For four of the suites the
composition is a module of its own with the constants still open, which is what
the proofs are about: `AccountSessions` (the service, a browser with one tab, a
browser with several), `AnalysisWork` (runs, ball attempts, the volume, stages),
`PlayerWork` (the upload page, association, review, measurement, play estimate)
and `EvidenceWork` (readiness, evaluation, review of play, histories in four
libraries); `MCSessions`, `MCAnalysis`, `MCPlayers` and `MCEvidence` only fix
symmetry and values. Symmetry permutes model values that the modules treat alike;
no property names one, and no run with a liveness property uses it.
`DirectUploadProofs`, `MatchMediaProofs`, `SessionProofs`, `WorkflowProofs`,
`AnalysisProofs`, `EvidenceProofs` and `PlayerProofs` hold the proofs; `FiniteSums`
has what the last two need of finite sets: counting their parts, their first
elements in an order, and sums over them.

## 3. The runs

| run | instance | what it shows |
|---|---|---|
| `upload_race` | 2 sessions of one content, 2 processes, true and altered bytes, 1 fault, 1 crash | types; one request completes the multipart upload; only declared bytes are analysed, with lapsing leases; equal contents converge; a duplicate is answered only when its copy is gone; the intent to delete it is never lost; `DirectUpload` implements `UploadPromise` |
| `upload_capacity` | 3 sessions, 1 process, limit 2 | the owner's limit and the provider's, through expiry, cancellation, rolled back admissions, restored completions, lost commits |
| `media_safety` | 2 processes, 2 videos, 1 document, 1 fault, 1 crash, or 1 lost lock | types; a recording or match reported deleted is gone, retired versions, interrupted deletions and abandoned workspaces included; when the lock is lost while its holder works on, row checks alone keep a deletion final and offered bytes in place; `MatchMedia` implements `RetentionPromise` |
| `ends` | an upload that fails, one whose worker dies, a match with 2 processes, a tab with 3 tokens | what must happen in the end (below) |
| `analysis` | 2 workers and 3 runs; 3 workers and 3 attempts; 2 requests on a volume of 8 units; 2 players and 2 calibrations with S3 and with local storage | runs implement `RunPromise`; attempts follow the runs and end once; the counters equal what is held and the hard stop holds; current artifacts match the current calibration and selection, and a diagnostic describes what is current when it answers |
| `sessions` | 3 sessions, 2 links, 2 requests, 1 password change; 1 tab with 2 accounts; 2 tabs with 1 account, 1 lost answer each | one live session per family, reuse ends a family, links work once and reset links not after a change; `AuthSessions` and `WebSession` implement `SessionPromise`; a tab does not report its own rotation as reuse |
| `players` | 2 sessions, 2 files, 2 workers, 2 attempts, 1 fault; 3 or 4 fragments; 4 tracks and 3 decisions; 6 frames in 4 recordings; 3 players over 24 quarter seconds in 2 windows | the upload page sends one whole file and only the user destroys a session; nobody is in two places and rivals abstain; decisions survive; measurement, readiness and gate agree; play is claimed only where two players are followed and move |
| `evidence` | 3 samples and 3 edits; pairs of samples; 2 intervals over 3 units; histories of 3 to 7 analyses with 0 or 1 change | readiness is earned; counts agree; reviewed time is partitioned; compared reports are sound; groups, answers and pages are honest |
| `upload_inspected`, `media_source_kept`, `auth_stale_login`, `candidate_rejected_merge` | see section 6 | expected to be violated |

Why the bounds are enough. Races over a session need two processes, one of them
slow; two sessions of one content make duplicates, and three compete for two
places with one expired or cancelled. `MaxFaults` and `MaxCrashes` bound
failures in all instances: one is enough to lose any one answer, commit or
worker. A completed, failed or aborted session never returns to use, so
instances need no more sessions than take part in a race. Deadlock is not
checked: when all sessions are final and the budgets are spent the service
rests. A deletion competes with one other operation at a time under the media
lock, so two processes suffice for `MatchMedia`; two versions of the playback
video make one of them retired, and one document tells what a released recording
must leave alone. Erasure needs the lock and is stated for behaviours that did
not lose it; finality must not need it. Three runs and three attempts have one
ended, one active and one that starts; two calibrations are a court and its
correction, and the bounds on row versions (9 with S3, 6 with local storage)
leave room for every stage once and a second selection or a correction after
them; three sessions are a login, its rotation and a rotation of that; two tabs
share one cookie. Three fragments make a chain that could overlap and four a
rival at each end; six frames hold a gap longer than the threshold with strong
evidence on both sides. Seven histories with a window of five make a middle and
an omitted report at once.

Three constraints keep instances small. `DropsAlone` (`media_safety`): once a
lock was lost, other faults are explored one step deep only. `SessionsOrLinks`
(`sessions`): the last session and the last link are not both used up. `FewLate`
(`players`): one abandoned request is under way at a time. Each cuts only
combinations of failures, never a whole kind.

Fairness (`FairSpec` in `MCEnds`). A request or task that runs goes on until it
ends or its process dies (`WF` of `ProcStep`). The lease is a timestamp and time
passes (`WF` of `LeaseLapses`). The web client polls a finalizing session until
it is decided, so polls recur whenever the session is finalizing (`SF` of `Poll`;
it is strong since a poll needs a free process). In `MatchMedia` a process that
runs goes on until it ends (`WF` of `Running`), and a user repeats a deletion
that was not confirmed (`SF` of `RetryPurge` and `RetryRelease`, the retry both
error messages ask for). `MatchLifecycleService.delete` tries its lock once, so
no fairness of the code excludes that other requests hold it at every attempt:
`DeletionsEnd` is stated for matches that come to rest again and again
(`[]<>Quiet`). In the browser an answer that was not lost arrives and its tab
goes on (`WF` of `Network`). No fairness is assumed of users otherwise, of the
reconciliation script, or against crashes and faults beyond their bound. Under
it, a session that entered verification is decided (`FinalizationDecided`); one
stays in `completing` for ever only if a process died (`CompletionResolves`);
an accepted deletion that is repeated ends (`DeletionsEnd`); a browser that
restores its session gets it back or learns that it is over (`RestoringEnds`).

## 4. The proofs

`DirectUploadProofs` proves, for any finite set of
sessions, any processes and contents and any bounds (`ConstantsAssumption`),
that the following hold in every reachable state:

* `TypeCorrect`: `TypeOK`;
* `CapacityTheorem`: `CapacityRespected` and `ProviderCapacityRespected`;
* `CompletionTheorem`: `CompletionExclusive`;
* `SourceTheorem`: `AnalysedSourceIsDeclared`;
* `DuplicateTheorem`: `OneAnalysisPerContent` and `DuplicateAnswered`;
* `CleanupTheorem`: the action property `CleanupIntentDurable`;
* `Refinement`: `KeepsPromise`.

None of them is inductive. `IInv` strengthens them with what the code relies on
without writing it down:

* `ProcInv`: a request between the claim and its outcome owns `completing`;
  a task works on a session that left completion for good, so expiry and
  cancellation, which only take sessions before it, cannot touch it.
* `RowInv`: the verified checksum is recorded before anything is created from
  the object, and the object then holds the declared bytes or was deleted as a
  duplicate.
* `ResultInv`: the idempotency record, the analysis and the recorded result
  agree; a pending cleanup always names another session's analysis.
* `MultiInv`: an unfinished multipart upload belongs to a session that is
  counted or that the next admission aborts first. This is why freeing a place
  at the cancellation claim, before the provider abort, is safe.

`Invariance` is the conjunction of one lemma per part (`TypeOKStep`,
`ProcInvStep`, `RowInvStep`, `ResultInvStep`, `MultiInvStep`,
`OneAnalysisStep`), each with one step per action. The limits need counting:
`OnlyInitiateAdmits` shows that no other action adds to the sessions counted or
to the open multipart uploads, and `CapacityStep` that `Initiate` counts every
other holder before it adds one.

The refinement rests on `IInv` too. Its step lemma uses six facts about the
mapping (`Unseen`, `MovedOn`, `MovedWithin`, `Answered`, `Published`,
`Admitting`): what changes a status, a result or an analysis is one step of the
promise, everything else is not seen. `IInv` excludes the steps that would have
no counterpart: a failure of a completed session, an answer without an analysis,
an admission that does not count every other holder.

`MatchMediaProofs` proves of `MatchMedia`, for any
processes, any versions and any bounds (`MediaAssumption`):

* `TypeCorrect`: `TypeOK`;
* `OfferedTheorem`: `OfferedBytesExist`;
* `TombstoneTheorem`: the action property `TombstoneIsFinal`;
* `RetentionRefinement`: `KeepsRetentionPromise`;
* `RecordingTheorem`: `RecordingDeletedEverywhere`;
* `PurgeTheorem`: `PurgeIsComplete`.

The first four do not need the media lock and hold when connections lose it.
Their invariant `IInv` says why:

* `ErasingInv`: whoever erases has committed its intent, and a release lists
  playback media only.
* `SavingInv`: what a save has listed is in the store, or the row says that a
  deletion has begun and `Persist` will refuse. A process that lists nothing
  yet has an empty list, and one that saves has an outcome.
* `RowInv`: a match that does not exist has no artifacts, and a tombstone has
  its recording marked.

The last two are about bytes that the lock protects. `ErasureInv` holds as long
as no lock was lost:

* `LockInv`: the holder of the exclusive lock is alone, and every step that
  relies on the lock has it.
* `CheckedInv`: what a save or a download found in the row still holds, since a
  deletion could not have claimed in between.
* `ManifestInv`: everything a match ever registered is still listed, and what
  remains of it at the provider is in the manifest of whoever erases. Manifests
  are read from rows of every state, so an interrupted deletion starts over
  with all of it.

Every step lemma has one step per action; actions that a conjunct cannot see are
dealt with together.

`SessionProofs` proves of `AccountSessions`, for any tokens, links, requests, tabs
and accounts:

* `TokensTheorem`: `TokensWorkOnce`;
* `SessionRefinement`: `KeepsSessionPromise`;
* `BrowserRefinement`: `KeepsBrowserPromise`;
* `SingleFlightTheorem`: `NoSelfInflictedReuse`.

Instead of comparing each operation of the service with each part of the
invariant, `RowStep` and `LinkStep` show once that whatever
an operation does to sessions is one of the moves of `RowMove` (a login, a
rotation, the end of some sessions, the passing of time), and to links one of
`LinkMove`. The invariant is that a family has at most one live session and none
once a reuse was seen (`FamilyInv`), that a link not yet consumed was not used and
an active reset link is as young as the password (`LinkInv`), and what a request
that waits for the lock still knows of the row it read (`RequestInv`): nothing but
that the row exists, which is why the code must read it again. The same moves
give the refinement: a login is a family, open while it has a live session. In
the browser `SingleFlight` says that one refresh is under way at a time, that it
presents no rotated token, and that the cookie is rotated only while the answer
with its successor is on the way.

`AnalysisProofs` proves of `AnalysisWork`, for any requests, keys, fingerprints,
workers, sizes, players and calibrations and any bounds:

* `RunRefinement`: `KeepsRunPromise`;
* `AttemptsFollowTheorem`: `AttemptsFollow`;
* `AttemptsTheorem`: `AttemptsEndOnce`;
* `CapacityTheorem`: `CapacityKept`;
* `ArtifactsTheorem`: `ArtifactsMatch`.

`RunsInv` strengthens the first two: a run that is not the last has ended, a
deleted match has no active run, a key that was answered is bound to the one run
of its answers (`KeysBound`), and a transition goes from the state it read to one
that may follow and alone holds the run it updated (`TransitionsSound`). `RunMove`
lists what a step can do to the runs, each of which is a step of the promise.
`BallInv` does the same for the attempts of the ball stage: evidence of an attempt
that is still active was not retired, and `Permission` is why a late transition of
an attempt that was marked stale matches no row.

The counters of the volume are sums over requests, slots and bytes. They are
written as cardinalities (`UnitsAre`, `FiniteUnits`), since what a recursive sum
computes is beyond the provers. `SplitTotal`, `UpdateTotal` and `BackedTotal` say
how a sum changes with one row; `DiskGrowStep` and `DiskGiveBackStep` are then
every admission, extension and release. `DiskInv` adds to `CapacityKept` that what
a request has yet to write is backed by one of its own reservations until it
releases it (`Backed`), which is why the reserved bytes bound what is still to
come.

`WorkflowProofs` holds the inductive invariant of `ArtifactsTheorem`, with S3 and
with local storage. The properties speak of the states between two stages; they
hold because of what holds within one:

* `JobOK`: no flag of the job is set without the one it rests on.
* `FilesOK`, `RegisteredOK`: files and registrations were computed from the court
  of the job, or are absent; with S3 the collection and active play follow too.
* `StageOK`: what the running stage will save differs from the job in the fields
  of that stage alone (`Found`, `Calibrated`, `Confirmed`, `Tracked`, `Related`,
  `Analyzed`), and the files that `persist_job` will register were computed from
  the court and the selection it will save.
* `DiagnosticOK`: what the diagnostic transferred names one court and one player,
  so that comparing the registrations at its end suffices; it needs nothing of
  the steps in between.

`SelectionRegistered` and `PlayMatchesSelection` are stated for S3 only: with local
storage a failed stage leaves its choice in the shared workspace. `FilesOK` is the
part that holds of both, and why a report is right with both. `RowMove`,
`RunMove` and their kin are lemmas about steps, so that a new operation adds one
case to one lemma.

`PlayerProofs` proves of `PlayerWork`, for any recording and thresholds, any
tracks, groups, ranks and compatibility checks, any number of decisions and any
motion of any players:

* `AssociationTheorem`: `OnePersonPerCandidate`;
* `RivalsTheorem`: the action property `RivalsAbstain`;
* `CandidatesTheorem`: `CandidatesConsistent`;
* `RespectTheorem`: the action properties `ReviewRespected`;
* `MeasurementTheorem`: `MeasurementHonest`;
* `PlayTheorem`: `PlayEstimateHonest`;
* `UploadPageTheorem`: `UploadPageHonest`, for any sessions, parts, files and
  workers, and any bounds on attempts, faults and keys.

Association adds `ConsideredClosed`: an edge that was considered cannot be joined
any more, since joining only makes groups larger and a larger group conflicts with
more. In the review, a step says little about the partition, because `Unmerge` and
`Generate` fold all saved decisions over fresh groups. `Nested` and `Top` say what
that fold yields without running it: a merge joins whole groups, an older merge
lies inside a younger one or apart from it, and the candidates are the largest of
the groups and active merges (`AppliedTop`, `TopPartitions`). Each operation is then
a statement about that set. `PoolExists` is where the fold gets a value: it shows,
by the least number for which there is none, that the recursive function exists.

`MovementInv` is small: observations are in the order of their frames and tracks
never go back. The work is in the sums. `SumIsTotal` (`FiniteSums`) shows that a sum taken one
element after the other, in whatever order, is the number of units its values
consist of (`Total`), so that a sum over disjoint parts, over a subset or with one
element removed is a fact about cardinalities (`TotalSplit`, `TotalPart`,
`TotalStep`). Then the zones partition the counted intervals, all gaps together are
the span (`GapsTelescope`), and a gap of zero leaves no interval out: that is why
advice rests on a track without interruption (`AdviceEarned`). `TimeTakesIntervals`
is where Match IQ's own minimum of observations follows from readiness' minimum of
time, and with it the assumption the thresholds must satisfy: `StrongDuration`
exceeds `MaxGap * (MinObservations - 2)`. `InsightsAre` shows that the limit of four
insights never cuts a list, because shares of one whole exclude each other.

`PlayTheorem` rests on `PlayInv`. A window is judged once, so the invariant keeps what
its verdict says (`Says`): it covers the ticks from `(k - 1) * WindowTicks` to
`End(k)`, and if it is classified, two sound players share it (`Shared`). An interval
is a run of windows of its state (`Spans`) whose merged features are still enough for
that state (`Justified`), neighbours differ, and the last interval ends where the
last window does. Neither part follows from the other: merging averages intensities
and keeps the weaker of two levels, so that the merged features are no window's
features, and `MergeIs` shows that averages, sums and weaker levels of two justified
neighbours justify their union (`AverageIs`, `WeakerIs`). `Shared` is where the
streams matter. `SampleJoins` and `SampleMoves` follow the smoothing: a velocity
sample joins two usable observations of one track with nothing recorded between them,
and it is zero unless the player took a step near it; therefore a player that a
sample covers was followed, and moved if the sample says so (`CoveredIsFollowed`).
This needs gaps of at most three ticks, windows of some length and at least one
moment of common movement (`MotionAssumption`), which the policy's constants satisfy.
The report adds up because the intervals telescope (`TicksTelescope`).

`UploadPageTheorem` rests on `UploadInv` with `PlaceInv`:

* `RowsInv`: a session holds parts of its own file only.
* `KeysInv`: an idempotency key stands for one file wherever it is - in a row, in
  a request that nobody waits for, in the run, in the form - which is why a late
  or repeated `initiate` cannot hand a run the session of another file.
* `LateInv`: what an abandoned request may still do: store a part of the
  session's own file, or delete a session the user gave up.
* `RunInv`, `PlaceInv`: a run works on a session that exists and, where bytes are
  sent, is of its file, and it belongs to the view that started it.
* `TransferInv`: the workers share out what was not received when they began, no
  part is with two of them, and what counts as received is in the session.
* `FormInv`, `ShownInv`, `ReleaseInv`: what the page remembers exists, and what it
  releases was given up by the user.

`RowsMove` says what any request may do to the sessions; every action of the page
is a move of the rows and a move of one part of the page.

`EvidenceProofs` proves of `EvidenceWork`, for any manifests, artifacts and
policies, sample lists, intervals, labels and libraries:

* `ReadinessTheorem`: `ReadyIsEarned`;
* `EvaluationTheorem`: `EvaluationConsistent`;
* `ReviewTheorem`: `PlayReviewHonest`;
* `ComparisonTheorem`: `ComparedAreSound`;
* `HistoryTheorem`: `HistoryHonest`.

The evaluation command writes four files one after the other. `EvaluatorInv` says
that those it has written so far are of the output it holds, `RecordInv` that an
integrity record was therefore written over three reports of one output, and
`ReaderInv` and `DecidedInv` what one dashboard request has read by each of its
steps, although the files change under it. `EvaluationTheorem` and `ReviewTheorem`
are about counts that separate functions make of one list: they hold because the
sets counted are partitions of one another (`PartsAddUp`, `ApartAddUp`,
`SecondsAddUp`), which is shown with cardinalities instead of sums.

The history invariants are stated for any library `h`, an argument of the instance
`History(h)`, so that one proof serves the four. `HistoryInv` keeps, for every
analysis that was included, what it was judged from, although the analysis may have
changed since. `ReadInv` says that every included analysis has been read again, as
some report, before an answer is given; `PageInv` that the analyses listed for a
page are judged, being judged or still to be judged; `QuietInv` that without a change
all that was read is what the library holds. They are inductive and short; the rest
follows from one state.

`FirstsAre` is what "the latest n" and "the earliest n" rest on: different elements
have different places in an order, so exactly n places are below n. With it
`HalvesApart` counts: fewer than n before one analysis and fewer than n after
another that is not later cannot cover 2n analyses. `AnnouncedIs` reduces status,
trend and metrics to one number, that of the comparable reports. `TotalRates` carries a
comparison of rates from single reports to the quotient of their sums, and
`ZonesExhaust` makes the changes of the three zones sum to zero, so that not all can
grow. `SliceIs` is the arithmetic of offset and limit. Two assumptions of
`HistoryWellFormed` matter: the comparison takes at least four reports, and signals
belong to a readiness assessment, so an analysis without one has none.

Every inductive invariant of these proofs was checked by TLC on the instance of its
run.

## 5. What is only model-checked, and what is not modelled

All properties of the passing runs are proved as well except the four liveness
properties of `ends`, which stay with TLC: it alone treats fairness and `ENABLED`.
The findings of section 6 are counterexamples TLC found, on one instance each.

Not modelled:

* Court vision, detectors and ball tracking: floating-point images, geometry and
  learned models, whose correctness is statistical. Heat maps, speeds, averages
  and rates are left out for the same reason.
* Storage reconciliation: it lists rows and files once and changes nothing
  without a second command of the operator.
* Routes, settings, wording, logging and email: no state, or one request each.
* Migrations, imports of old matches and compatibility layouts: they run once,
  offline.
* Rate limits, display names and the shape of tokens and passwords.
* The read routes of the API and the pages of the client that only display.

## 6. Findings

Four runs are expected to be violated:

* `upload_inspected`: `CONCURRENCY_AND_IDEMPOTENCY.md:35` says that a retryable
  failure lets the same key resume. When a task dies between the commit of the
  reservation and the save of the inspected job, the resumed task finds the
  idempotency record, skips the inspection (`if not reservation.created`) and
  completes the session with an analysis that no operation will inspect.
* `media_source_kept`: `PHASE_1_8F_PRODUCT_INTEGRITY_AND_MATCH_LIFECYCLE.md:54`
  says that the original recording is deleted with its match. `delete` finds the
  recording by `UploadedVideo.storage_key`, which only `persist_job` sets. The
  object of a direct upload exists from the start and a save puts before it
  registers, so when the first `persist_job` does not commit (a fault, a death, a
  busy lock) the match is reported deleted and its recording stays.
* `auth_stale_login`: a test and `PHASE_1_8C_B_ACCOUNT_SECURITY.md:49` say that
  a reset racing a login leaves no session with the old password. `login`
  selects the user again under the lock without `populate_existing`, so the
  object of the first read stays and its old hash is verified.
* `candidate_rejected_merge`: `CURRENT_TASK.md:59` says that regeneration
  preserves rejections. They are looked up among the automatic groups before the
  saved merges are applied, so a merged candidate that was rejected comes back.

The others have no run of their own. Each is a property defined in the module
named, with its comment; adding it to the cfg of its suite (through the MC
module's instance) reproduces the counterexample.

| property | module | disagreement |
|---|---|---|
| `UnsuccessfulCreatesNoAnalysis` | `DirectUpload` | a failed session may leave an analysis, against `PHASE_1_8D2_DIRECT_MULTIPART_UPLOADS.md:21` |
| `NeverPurgedUnderWriter` | `MatchMedia` | a match is purged while its creation inspects the video without the lock, against `match_lifecycle.py:77`; the save then fails and nothing is resurrected |
| `NewerRetiresEarlier` | `StageAttempts` | a registration that checked a live attempt adds current artifacts after a newer attempt completed |
| `DataOfShownUser`, `LoggedOutHoldsNoToken`, `TransientFailureKeepsUser` | `WebSession` | another tab's login feeds the cache of the user shown; a refresh in flight outlives a logout in its tab; a lost refresh answer ends the login as reuse |
| `RetryRecoversInitiation`, `RecoveryLeadsOut` | `UploadClient` | "Analyze Again" does not keep its key for a retry; a session whose verification failed leaves a recovery page neither of whose buttons leads out |
| `ContinuityIsRecognised`, `DistributionIsBalanced` | `MovementEvidence` | rounding makes a track without a gap fragmented; the reported threshold of the balanced distribution is not the one applied |
| `NoCriticalDisagreementRemains`, `ReadyIsReproduced` | `CalibrationReadiness` | broken intervals are not counted as critical; results and integrity record of two evaluations are paired |
| `FailedIsExcluded`, `FilteredStatusIsShown` | `PlayHistory` | legacy candidate evidence turns failed and ready analyses into processing ones after the filter, the counts and the exclusion looked at the stored status |

## 7. Plan

1. `MatchMedia` composed with `DirectUpload` (instead of the abbreviated upload
   session) and with `AnalysisRuns`.
2. The dashboard's review completion and policy safety rows in
   `CalibrationReadiness`.
3. Storage reconciliation: rows against objects while saves and deletions run.
