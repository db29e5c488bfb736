------------------------- MODULE EvidenceEvaluation -------------------------
(***************************************************************************)
(* The calibration evaluation (evidence_calibration/evaluator.py): samples *)
(* are evaluated one after the other against the reviewer's labels, and    *)
(* independent functions count the same outcomes for the metrics, the      *)
(* disagreement list, the policy errors, the threshold simulations and the *)
(* manual review list.  A sample is its labels and what the artifacts and  *)
(* the policies yield for it.                                              *)
(***************************************************************************)
EXTENDS Integers, FiniteSets, Sequences

CONSTANT Manifests       \* the manifests that are evaluated: sequences of samples

Qualities == 0 .. 3      \* UNSUITABLE, LIMITED, GOOD, EXCELLENT: QUALITY_ORDER
Gates == {"NORMAL", "CAUTIOUS", "MEASUREMENT_ONLY", "INSUFFICIENT_EVIDENCE"}
Allowed == {"NORMAL", "CAUTIOUS"}
None == -1               \* no quality
NoGate == "none"
Required == {"metadata", "candidates", "analytics"}
Versioned == {"candidates", "match_iq"}
Stages == Required \union Versioned
\* What a stage's reference leads to.
Found == {"unreferenced", "absent", "invalid", "old", "current"}

\* quality, gate and proposed are what the assessment, the regenerated match
\* report and the assessment under the proposed threshold give for the sample.
SampleShape == [split : {"development", "validation", "holdout"}, reviewed : BOOLEAN,
                complete : BOOLEAN, verdict : Qualities \union {None},
                expected : Qualities \union {None}, expectedGate : Gates \union {NoGate},
                artifacts : [Stages -> Found], quality : Qualities, gate : Gates,
                proposed : Qualities]

SamplesWellFormed ==
    \A m \in Manifests : /\ m \in Seq(SampleShape)
                         /\ \A i \in DOMAIN m, k \in Stages \ Versioned : m[i].artifacts[k] # "old"

VARIABLES samples,       \* the manifest
          evaluated      \* the samples evaluated so far, in its order
vars == <<samples, evaluated>>

-----------------------------------------------------------------------------
(* One sample. *)

\* _load_standard_artifact and _load_versioned_artifact.
StatusOf(s, k) == CASE s.artifacts[k] = "unreferenced" -> "not_referenced"
                    [] s.artifacts[k] = "absent" -> "missing"
                    [] s.artifacts[k] = "invalid" -> "invalid"
                    [] s.artifacts[k] = "old" -> "stale"
                    [] OTHER -> "available"
Compatibility(s, k) == CASE StatusOf(s, k) \in {"not_referenced", "missing"} -> "missing"
                         [] StatusOf(s, k) = "invalid" -> "incompatible"
                         [] StatusOf(s, k) = "stale" -> "legacy_compatible"
                         [] OTHER -> "ready"
Loaded(s, k) == StatusOf(s, k) \in {"available", "stale"}
Warned(s) == \E k \in Stages : \/ StatusOf(s, k) = "stale"
                               \/ StatusOf(s, k) = "missing" /\ k \in Required
Failed(s) == \E k \in Stages : StatusOf(s, k) = "invalid"

Compatibilities(s) == {Compatibility(s, k) : k \in Stages}
ArtifactReadiness(s) ==
    IF Compatibilities(s) = {"missing"} THEN "missing"
    ELSE IF "incompatible" \in Compatibilities(s) THEN "incompatible"
    ELSE IF "missing" \in Compatibilities(s) THEN "partial"
    ELSE IF "legacy_compatible" \in Compatibilities(s) THEN "legacy_compatible"
    ELSE "ready"

\* A reviewed recording verdict overrides the sample's expectation.
ExpectedQuality(s) == IF s.verdict # None THEN s.verdict ELSE s.expected

\* Nothing is assessed without the inspection metadata.
SystemQuality(s) == IF Loaded(s, "metadata") THEN s.quality ELSE None
SimulatedQuality(s) == IF Loaded(s, "metadata") THEN s.proposed ELSE None
GateOf == <<"INSUFFICIENT_EVIDENCE", "MEASUREMENT_ONLY", "CAUTIOUS", "NORMAL">>
\* The gate of the regenerated report, else the one the quality stands for.
SystemGate(s) == IF Loaded(s, "analytics") THEN s.gate
                 ELSE IF SystemQuality(s) = None THEN NoGate ELSE GateOf[SystemQuality(s) + 1]

Compared(s) == SystemQuality(s) # None /\ ExpectedQuality(s) # None
Delta(s) == SystemQuality(s) - ExpectedQuality(s)
GateCompared(s) == SystemGate(s) # NoGate /\ s.expectedGate # NoGate

\* A perfect assessment has no reason code; any other warns.
SampleStatus(s) == IF SystemQuality(s) = None /\ SystemGate(s) = NoGate THEN "failed"
                   ELSE IF Warned(s) \/ Failed(s) \/ SystemQuality(s) \in 0 .. 2 THEN "partial"
                   ELSE "evaluated"

RequiresManualReview(s) ==
    \/ ~s.reviewed \/ SampleStatus(s) # "evaluated"
    \/ Compared(s) /\ Delta(s) # 0
    \/ GateCompared(s) /\ SystemGate(s) # s.expectedGate
    \/ \E k \in Stages : StatusOf(s, k) \in {"missing", "stale", "invalid"}

-----------------------------------------------------------------------------
(* The whole manifest.  Indices stand for the sample identifiers. *)

Ids == DOMAIN evaluated
Count(P(_)) == Cardinality({i \in Ids : P(evaluated[i])})

\* RecordingQualityMetrics.
QualityPairs == Count(Compared)
ExactCount == Count(LAMBDA s : Compared(s) /\ Delta(s) = 0)
AcceptableCount == Count(LAMBDA s : Compared(s) /\ Delta(s) \in -1 .. 1)
Overestimated == Count(LAMBDA s : Compared(s) /\ Delta(s) > 0)
Underestimated == Count(LAMBDA s : Compared(s) /\ Delta(s) < 0)
Confusion == [e \in Qualities |-> [a \in Qualities |->
    Count(LAMBDA s : Compared(s) /\ ExpectedQuality(s) = e /\ SystemQuality(s) = a)]]

\* EvidenceGateMetrics: what was expected decides the row.
ValidPairs == Count(LAMBDA s : GateCompared(s) /\ s.expectedGate \in Allowed)
ValidAllowed == Count(LAMBDA s : GateCompared(s) /\ s.expectedGate \in Allowed /\ SystemGate(s) \in Allowed)
ValidSuppressed == Count(LAMBDA s : /\ GateCompared(s) /\ s.expectedGate \in Allowed
                                    /\ SystemGate(s) = "INSUFFICIENT_EVIDENCE")
UnsuitablePairs == Count(LAMBDA s : GateCompared(s) /\ s.expectedGate = "INSUFFICIENT_EVIDENCE")
UnsuitableAllowed ==
    Count(LAMBDA s : /\ GateCompared(s) /\ s.expectedGate = "INSUFFICIENT_EVIDENCE"
                     /\ SystemGate(s) # "INSUFFICIENT_EVIDENCE")
UnsuitableSuppressed ==
    Count(LAMBDA s : /\ GateCompared(s) /\ s.expectedGate = "INSUFFICIENT_EVIDENCE"
                     /\ SystemGate(s) = "INSUFFICIENT_EVIDENCE")

\* _policy_error_reasons counts the same errors again, by itself.
FalseAcceptance == Count(LAMBDA s : /\ s.expectedGate = "INSUFFICIENT_EVIDENCE"
                                    /\ SystemGate(s) \notin {NoGate, "INSUFFICIENT_EVIDENCE"})
FalseSuppression == Count(LAMBDA s : /\ s.expectedGate \in Allowed
                                     /\ SystemGate(s) = "INSUFFICIENT_EVIDENCE")

\* _build_disagreements: the identifiers listed under each category.
Disagreements == [
    recording_assessment |-> {i \in Ids : Compared(evaluated[i]) /\ Delta(evaluated[i]) # 0},
    insight_gating |-> {i \in Ids : /\ GateCompared(evaluated[i])
                                    /\ SystemGate(evaluated[i]) # evaluated[i].expectedGate},
    incomplete_annotation |-> {i \in Ids : ~evaluated[i].complete}]

\* _threshold_analysis: only development samples are simulated.
Eligible_All == Ids
Eligible == {i \in Ids : evaluated[i].split = "development"}
Excluded == {i \in Ids : evaluated[i].split # "development"}
Affected == {i \in Eligible : SimulatedQuality(evaluated[i]) # SystemQuality(evaluated[i])}
Improvements == {i \in Affected : /\ SystemQuality(evaluated[i]) # ExpectedQuality(evaluated[i])
                                  /\ SimulatedQuality(evaluated[i]) = ExpectedQuality(evaluated[i])}
Regressions == {i \in Affected : /\ SystemQuality(evaluated[i]) = ExpectedQuality(evaluated[i])
                                 /\ SimulatedQuality(evaluated[i]) # ExpectedQuality(evaluated[i])}
Unchanged == Cardinality(Eligible) - Cardinality(Affected)

Init == samples \in Manifests /\ evaluated = <<>>

\* The loop of evaluate_manifest; a sample that raises is kept as failed.
EvaluateSample == /\ Len(evaluated) < Len(samples)
                  /\ evaluated' = Append(evaluated, samples[Len(evaluated) + 1])
                  /\ UNCHANGED samples
Next == EvaluateSample
Spec == Init /\ [][Next]_vars

-----------------------------------------------------------------------------
(* Properties. *)

TypeOK == /\ samples \in Manifests /\ Len(evaluated) <= Len(samples)
          /\ evaluated = SubSeq(samples, 1, Len(evaluated))

\* Every compared sample is exact, over- or underestimated, in one cell of the
\* confusion matrix, and listed as a disagreement exactly when it is not exact.
QualityCountsAgree ==
    /\ ExactCount + Overestimated + Underestimated = QualityPairs
    /\ ExactCount <= AcceptableCount /\ AcceptableCount <= QualityPairs
    /\ ExactCount = Confusion[0][0] + Confusion[1][1] + Confusion[2][2] + Confusion[3][3]
    /\ Cardinality(Disagreements.recording_assessment) = QualityPairs - ExactCount

\* The gate errors of the metrics are the policy errors, and each of them is a
\* listed gating disagreement.
GateErrorsAgree ==
    /\ UnsuitableAllowed = FalseAcceptance /\ ValidSuppressed = FalseSuppression
    /\ UnsuitableAllowed + UnsuitableSuppressed = UnsuitablePairs
    /\ ValidAllowed + ValidSuppressed <= ValidPairs
    /\ UnsuitableAllowed + ValidSuppressed <= Cardinality(Disagreements.insight_gating)

\* Validation and holdout samples never take part in a simulation, an
\* improvement is never a regression, and every simulated sample is accounted for.
HoldoutProtected ==
    /\ Affected \intersect Excluded = {} /\ Eligible \intersect Excluded = {}
    /\ Improvements \intersect Regressions = {}
    /\ Unchanged + Cardinality(Affected) + Cardinality(Excluded) = Len(evaluated)

\* A sample nobody has to look at again was labelled, agrees with its labels,
\* and rests only on artifacts that are present, valid and of this version.
PassedSamplesAreSound ==
    \A i \in Ids : ~RequiresManualReview(evaluated[i]) =>
        /\ i \notin Disagreements.recording_assessment \union Disagreements.insight_gating
        /\ ArtifactReadiness(evaluated[i]) \in {"ready", "partial"}
        /\ \A k \in Stages : evaluated[i].artifacts[k] \in {"current", "unreferenced"}
=============================================================================
