------------------------ MODULE CalibrationReadiness ------------------------
(***************************************************************************)
(* The calibration readiness gate.  A reviewer edits the manifest of       *)
(* labelled samples, an engineer replaces artifacts, policies and the      *)
(* governance record; the evaluation command (scripts/calibrate_evidence)  *)
(* reads manifest and artifacts and writes three reports and an integrity  *)
(* record, one file after the other; the internal dashboard                *)
(* (CalibrationReadinessService.get_summary) reads the files one after the *)
(* other, possibly while the command runs, and decides whether the next    *)
(* phase may start.  The evaluation is deterministic, so a report is       *)
(* identified with the inputs it was computed from, and equal hashes with  *)
(* equal inputs.                                                           *)
(***************************************************************************)
EXTENDS Naturals, FiniteSets

CONSTANTS Manifests,        \* the manifests the reviewer may save: sets of samples
          ArtifactStates,    \* sample id -> readiness of its artifacts
          Policies,          \* values of the production policies in the code
          MinimumSamples, MinimumReviewed, MinimumCurrent, MinimumIntervals,
          Missing, Invalid,  \* an absent file, and one that does not parse
          MaxChanges         \* bound on edits, deployments and evaluations

Splits == {"development", "validation", "holdout"}
\* What a reviewer may have labelled in a sample, and what he found wrong.
Labels == {"identity", "tracking", "active", "boundary", "broken"}
Samples == [id : Nat, split : Splits, reviewed : BOOLEAN, labels : SUBSET Labels]

InputsWellFormed ==
    /\ \A m \in Manifests : m \subseteq Samples
    /\ {MinimumSamples, MinimumReviewed, MinimumCurrent, MinimumIntervals, MaxChanges} \subseteq Nat

VARIABLES manifest,        \* the manifest file
          artifacts,       \* the artifacts under the repository root
          policy,          \* the policies of the deployed code
          governance,      \* the governance record: [frozen, budgets] or Missing
          results, report, disagreements,   \* the three report files
          integrity,       \* the integrity record
          evaluator,       \* the command: [pc, out]
          reader,          \* the request: what it has read so far
          history,         \* <<inputs, evaluations completed, at most 2>>
          changes

files == <<results, report, disagreements, integrity>>
inputs == <<manifest, artifacts, policy, governance>>
vars == <<inputs, files, evaluator, reader, history, changes>>

Outputs == [manifest : Manifests, artifacts : ArtifactStates, policy : Policies]
Records == [manifest : Manifests, policy : Policies, results : Outputs \union {Invalid},
            report : Outputs \union {Invalid}, disagreements : Outputs \union {Invalid},
            status : {"match", "changed", "not_verified"}]
Governances == [frozen : BOOLEAN, budgets : BOOLEAN]
Idle == [pc |-> "idle"]

Init == /\ manifest \in Manifests /\ artifacts \in ArtifactStates /\ policy \in Policies
        /\ governance \in Governances \union {Missing}
        /\ results = Missing /\ report = Missing /\ disagreements = Missing /\ integrity = Missing
        /\ evaluator = Idle /\ reader = Idle /\ history = [o \in Outputs |-> 0] /\ changes = 0

-----------------------------------------------------------------------------
(* What the summary counts.  An output stands for the results file. *)

\* _artifact_readiness of a sample under the evaluated artifacts.
ArtifactReadiness(out, s) == out.artifacts[s.id]

Unlabelled(m, label) == {s \in m : label \notin s.labels}
NotReady(out) == {s \in out.manifest : ArtifactReadiness(out, s) # "ready"}

\* What evaluate_manifest reports as disagreements of tracking continuity.
BrokenContinuity(out) == {s \in out.manifest : {"tracking", "broken"} \subseteq s.labels}

\* The critical categories of _disagreement_summary: artifacts that are not
\* ready, and samples whose identity, continuity or play was never labelled.
CriticalDisagreements(m, out) ==
    NotReady(out) \union Unlabelled(m, "identity") \union Unlabelled(m, "tracking")
        \union (IF \E s \in m : "active" \in s.labels
                THEN Unlabelled(m, "active")
                     \union {s \in m : "active" \in s.labels /\ "boundary" \notin s.labels}
                ELSE {})

Represented(m) == {s.split : s \in m}
ReviewedIntervals(out) == {s \in out.manifest : "active" \in s.labels}
CurrentSchema(out) == {s \in out.manifest : ArtifactReadiness(out, s) = "ready"}

EvidenceComplete(m, out) ==
    /\ Cardinality(m) >= MinimumSamples
    /\ Represented(m) = Splits
    /\ Cardinality({s \in m : s.reviewed}) >= MinimumReviewed
    /\ Cardinality(CurrentSchema(out)) >= MinimumCurrent
    /\ Cardinality(ReviewedIntervals(out)) >= MinimumIntervals
    /\ CriticalDisagreements(m, out) = {}

-----------------------------------------------------------------------------
(* The evaluation command. *)

Changing == changes < MaxChanges /\ changes' = changes + 1

\* evaluate_manifest: the manifest and the artifacts are read, nothing written.
Evaluate ==
    /\ evaluator = Idle /\ manifest \in Manifests /\ Changing
    /\ evaluator' = [pc |-> "results",
                     out |-> [manifest |-> manifest, artifacts |-> artifacts, policy |-> policy]]
    /\ UNCHANGED <<inputs, files, reader, history>>

\* write_calibration_reports, one write_text at a time: the file is replaced
\* by the new report, or left truncated when the process dies in the write.
NextFile == [results |-> "report", report |-> "disagreements", disagreements |-> "integrity"]
WriteReport ==
    /\ evaluator # Idle /\ evaluator.pc \in DOMAIN NextFile
    /\ \E survives \in BOOLEAN :
          LET content == IF survives THEN evaluator.out ELSE Invalid IN
          /\ evaluator' = IF survives THEN [evaluator EXCEPT !.pc = NextFile[@]] ELSE Idle
          /\ results' = IF evaluator.pc = "results" THEN content ELSE results
          /\ report' = IF evaluator.pc = "report" THEN content ELSE report
          /\ disagreements' = IF evaluator.pc = "disagreements" THEN content ELSE disagreements
    /\ UNCHANGED <<inputs, integrity, reader, history, changes>>

\* write_integrity_record compares the new hashes with the previous record of
\* the same manifest and policies.
Comparable(previous, out) ==
    /\ previous \notin {Missing, Invalid}
    /\ previous.manifest = out.manifest /\ previous.policy = out.policy
OutputsMatch_ReportOnly(previous) == previous.report # Missing
OutputsMatch(previous) ==
    /\ previous.results = results /\ previous.report = report
    /\ previous.disagreements = disagreements
StatusOf(previous, out) ==
    IF ~Comparable(previous, out) THEN "not_verified"
    ELSE IF OutputsMatch(previous) THEN "match" ELSE "changed"

Seen(out) == [history EXCEPT ![out] = IF @ < 2 THEN @ + 1 ELSE @]

WriteIntegrity ==
    /\ evaluator # Idle /\ evaluator.pc = "integrity"
    /\ \E survives \in BOOLEAN :
          integrity' = IF ~survives THEN Invalid
                       ELSE [manifest |-> evaluator.out.manifest, policy |-> evaluator.out.policy,
                             results |-> results, report |-> report,
                             disagreements |-> disagreements,
                             status |-> StatusOf(integrity, evaluator.out)]
    /\ evaluator' = Idle
    /\ history' = Seen(evaluator.out)
    /\ UNCHANGED <<inputs, results, report, disagreements, reader, changes>>

-----------------------------------------------------------------------------
(* People. *)

EditManifest ==
    /\ Changing
    /\ manifest' \in (Manifests \union {Missing, Invalid}) \ {manifest}
    /\ UNCHANGED <<artifacts, policy, governance, files, evaluator, reader, history>>
ReplaceArtifacts ==
    /\ Changing
    /\ artifacts' \in ArtifactStates \ {artifacts}
    /\ UNCHANGED <<manifest, policy, governance, files, evaluator, reader, history>>
\* A deployment replaces the process: requests of the old code are gone.
Deploy ==
    /\ Changing
    /\ policy' \in Policies \ {policy} /\ reader' = Idle
    /\ UNCHANGED <<manifest, artifacts, governance, files, evaluator, history>>
Govern ==
    /\ Changing
    /\ governance' \in (Governances \union {Missing}) \ {governance}
    /\ UNCHANGED <<manifest, artifacts, policy, files, evaluator, reader, history>>

-----------------------------------------------------------------------------
(* The dashboard request: _load_manifest, _load_results, _load_governance,  *)
(* _load_integrity, and then the hashes of the report files.                *)

Advance(field, value, pc) == reader' = [x \in DOMAIN reader \union {field, "pc"} |->
    IF x = "pc" THEN pc ELSE IF x = field THEN value ELSE reader[x]]
ReadOnly == UNCHANGED <<inputs, files, evaluator, history, changes>>

LoadManifest == reader = Idle /\ Advance("manifest", manifest, "results") /\ ReadOnly
LoadResults == reader.pc = "results" /\ Advance("results", results, "governance") /\ ReadOnly
LoadGovernance ==
    reader.pc = "governance" /\ Advance("governance", governance, "integrity") /\ ReadOnly
LoadIntegrity == reader.pc = "integrity" /\ Advance("integrity", integrity, "files") /\ ReadOnly

Readable(file) == file \notin {Missing, Invalid}
ReportCurrent(m, r) == r.manifest = m /\ r.policy = policy
IntegrityMatchesFiles(record) ==
    record.results = results /\ record.report = report /\ record.disagreements = disagreements
\* _overall_status: every source is present, valid and current.
SourcesCurrent(r) ==
    /\ Readable(r.manifest) /\ Readable(r.results) /\ Readable(r.integrity) /\ Readable(r.governance)
    /\ ReportCurrent(r.manifest, r.results)
    /\ IntegrityMatchesFiles(r.integrity)

\* _policy_safety: both policies are frozen for review, both budgets approved.
Approved(record) == record.frozen /\ record.budgets

\* evaluate_readiness: first integrity, then evidence, then the approvals.
Verdict(r) ==
    IF ~SourcesCurrent(r) \/ r.integrity.status # "match" THEN "NOT_READY"
    ELSE IF ~EvidenceComplete(r.manifest, r.results) THEN "COLLECTING_EVIDENCE"
    ELSE IF ~Approved(r.governance) THEN "READY_FOR_POLICY_REVIEW"
    ELSE "READY_FOR_PHASE_1_6B"
Decide == /\ reader.pc = "files"
          /\ Advance("verdict", Verdict(reader), "decided") /\ ReadOnly
Answered == reader.pc = "decided" /\ reader' = Idle /\ ReadOnly

Next == \/ Evaluate \/ WriteReport \/ WriteIntegrity
        \/ EditManifest \/ ReplaceArtifacts \/ Deploy \/ Govern
        \/ LoadManifest \/ LoadResults \/ LoadGovernance \/ LoadIntegrity \/ Decide \/ Answered

Spec == Init /\ [][Next]_vars

-----------------------------------------------------------------------------
(* Properties. *)

TypeOK == /\ manifest \in Manifests \union {Missing, Invalid}
          /\ artifacts \in ArtifactStates /\ policy \in Policies
          /\ governance \in Governances \union {Missing}
          /\ {results, report, disagreements} \subseteq Outputs \union {Missing, Invalid}
          /\ integrity \in Records \union {Missing, Invalid}
          /\ history \in [Outputs -> 0 .. 2] /\ changes \in 0 .. MaxChanges

Ready == reader.pc = "decided" /\ reader.verdict = "READY_FOR_PHASE_1_6B"

\* "Repeat report hashes match" is earned: an integrity record that says match
\* names results that two completed evaluations of the same manifest,
\* artifacts and policies produced, whatever crashed in between.
MatchMeansReproduced ==
    integrity \notin {Missing, Invalid} =>
        (integrity.status = "match" =>
            /\ history[integrity.results] = 2
            /\ integrity.results.manifest = integrity.manifest
            /\ integrity.report = integrity.results)

\* The phase opens only on results for the manifest the request saw, under
\* the policies the code now has, and with both approvals - although the
\* files may be rewritten while the request reads them.
ReadyIsCurrent ==
    Ready => /\ reader.results.manifest = reader.manifest
             /\ reader.results.policy = policy
             /\ reader.governance.frozen /\ reader.governance.budgets

\* "Repeat report hashes match": ... and only on results that were reproduced.
\* A request that read the results before two evaluations ran reads the record
\* of the second one.
ReadyIsReproduced == Ready => history[reader.results] = 2

\* ... and every split is represented by samples whose artifacts are current.
ReadyRestsOnEvidence ==
    Ready => /\ \A split \in Splits : \E s \in reader.results.manifest : s.split = split
             /\ \A s \in reader.results.manifest :
                   {"identity", "tracking"} \subseteq s.labels
                   /\ reader.results.artifacts[s.id] = "ready"

\* The criterion's text: "No critical readiness disagreements remain."  The
\* evaluation reports a broken interval as a tracking continuity disagreement.
NoCriticalDisagreementRemains == Ready => BrokenContinuity(reader.results) = {}
=============================================================================
