---------------------------- MODULE EvidenceProofs ----------------------------
(***************************************************************************)
(* Proofs about the services that judge evidence, for any manifests,       *)
(* artifacts and policies, any samples, any reviewed intervals and any     *)
(* library of analyses.                                                    *)
(***************************************************************************)
EXTENDS EvidenceWork, FiniteSums, SequenceTheorems

-----------------------------------------------------------------------------
(* Readiness for the next phase.                                            *)

Written == {"report", "disagreements", "integrity"}

\* The evaluation command holds the output it writes, and what it has written
\* so far is that output: only one command runs at a time.
EvaluatorInv ==
    evaluator # Readiness!Idle =>
        /\ evaluator \in [pc : {"results"} \union Written, out : Readiness!Outputs]
        /\ evaluator.pc # "results" => results = evaluator.out
        /\ evaluator.pc \in {"disagreements", "integrity"} => report = evaluator.out
        /\ evaluator.pc = "integrity" => disagreements = evaluator.out

\* An integrity record was written over three reports of one output, which an
\* evaluation produced, and says "match" only of one that two produced.
RecordInv ==
    Readiness!Readable(integrity) =>
        /\ integrity.results \in Readiness!Outputs
        /\ integrity.report = integrity.results /\ integrity.disagreements = integrity.results
        /\ integrity.manifest = integrity.results.manifest
        /\ integrity.policy = integrity.results.policy
        /\ history[integrity.results] >= 1
        /\ integrity.status = "match" => history[integrity.results] = 2

\* What a request has read when it gets to each of its steps.
ReaderInv ==
    /\ "pc" \in DOMAIN reader
    /\ reader.pc \in {"idle", "results", "governance", "integrity", "files", "decided"}
    /\ reader.pc # "idle" => "manifest" \in DOMAIN reader
    /\ reader.pc \in {"governance", "integrity", "files", "decided"} => "results" \in DOMAIN reader
    /\ reader.pc \in {"integrity", "files", "decided"} => "governance" \in DOMAIN reader

\* A request that opened the phase saw current sources, evidence and approvals.
DecidedInv ==
    Readiness!Ready =>
        /\ Readiness!ReportCurrent(reader.manifest, reader.results)
        /\ Readiness!EvidenceComplete(reader.manifest, reader.results)
        /\ Readiness!Approved(reader.governance)

ReadyInv == Readiness!TypeOK /\ EvaluatorInv /\ RecordInv /\ ReaderInv /\ DecidedInv

LEMMA ReadyInit == ASSUME Readiness!Init PROVE ReadyInv
<1>. USE WellFormed DEF WellFormed, Readiness!InputsWellFormed, Readiness!Init
<1>1. Readiness!TypeOK BY DEF Readiness!TypeOK
<1>2. EvaluatorInv /\ RecordInv BY DEF EvaluatorInv, RecordInv, Readiness!Readable
<1>3. ReaderInv /\ DecidedInv BY DEF ReaderInv, DecidedInv, Readiness!Ready, Readiness!Idle
<1>. QED BY <1>1, <1>2, <1>3 DEF ReadyInv

LEMMA ReadyTypeStep == ASSUME ReadyInv, [Readiness!Next]_readyVars PROVE Readiness!TypeOK'
<1>. USE WellFormed DEF WellFormed, Readiness!InputsWellFormed, ReadyInv, Readiness!TypeOK,
         Readiness!ReadOnly, Readiness!inputs, Readiness!files, Readiness!Changing
<1>1. ASSUME Readiness!Evaluate PROVE Readiness!TypeOK' BY <1>1 DEF Readiness!Evaluate
<1>2. ASSUME Readiness!WriteReport PROVE Readiness!TypeOK'
  BY <1>2 DEF Readiness!WriteReport, EvaluatorInv
<1>3. ASSUME Readiness!WriteIntegrity PROVE Readiness!TypeOK'
  <2>1. evaluator.out \in Readiness!Outputs /\ results = evaluator.out /\ report = evaluator.out
        /\ disagreements = evaluator.out
    BY <1>3 DEF Readiness!WriteIntegrity, EvaluatorInv, Written
  <2>2. integrity' \in Readiness!Records \union {Missing, Invalid}
    <3>1. CASE integrity' = Invalid BY <3>1
    <3>2. CASE integrity' = [manifest |-> evaluator.out.manifest, policy |-> evaluator.out.policy,
                             results |-> results, report |-> report,
                             disagreements |-> disagreements,
                             status |-> Readiness!StatusOf(integrity, evaluator.out)]
      BY <3>2, <2>1 DEF Readiness!Records, Readiness!Outputs, Readiness!StatusOf
    <3>. QED BY <1>3, <3>1, <3>2 DEF Readiness!WriteIntegrity
  <2>3. history' \in [Readiness!Outputs -> 0 .. 2]
    BY <1>3, <2>1 DEF Readiness!WriteIntegrity, Readiness!Seen
  <2>. QED BY <1>3, <2>2, <2>3 DEF Readiness!WriteIntegrity
<1>4. ASSUME Readiness!EditManifest PROVE Readiness!TypeOK' BY <1>4 DEF Readiness!EditManifest
<1>5. ASSUME Readiness!ReplaceArtifacts PROVE Readiness!TypeOK' BY <1>5 DEF Readiness!ReplaceArtifacts
<1>6. ASSUME Readiness!Deploy PROVE Readiness!TypeOK' BY <1>6 DEF Readiness!Deploy
<1>7. ASSUME Readiness!Govern PROVE Readiness!TypeOK' BY <1>7 DEF Readiness!Govern
<1>8. ASSUME Readiness!LoadManifest PROVE Readiness!TypeOK' BY <1>8 DEF Readiness!LoadManifest
<1>9. ASSUME Readiness!LoadResults PROVE Readiness!TypeOK' BY <1>9 DEF Readiness!LoadResults
<1>10. ASSUME Readiness!LoadGovernance PROVE Readiness!TypeOK' BY <1>10 DEF Readiness!LoadGovernance
<1>11. ASSUME Readiness!LoadIntegrity PROVE Readiness!TypeOK' BY <1>11 DEF Readiness!LoadIntegrity
<1>12. ASSUME Readiness!Decide PROVE Readiness!TypeOK' BY <1>12 DEF Readiness!Decide
<1>13. ASSUME Readiness!Answered PROVE Readiness!TypeOK' BY <1>13 DEF Readiness!Answered
<1>14. CASE UNCHANGED readyVars BY <1>14 DEF readyVars
<1>. QED BY <1>1, <1>2, <1>3, <1>4, <1>5, <1>6, <1>7, <1>8, <1>9, <1>10, <1>11, <1>12, <1>13, <1>14
         DEF Readiness!Next

LEMMA EvaluatorStep == ASSUME ReadyInv, [Readiness!Next]_readyVars PROVE EvaluatorInv'
<1>. USE DEF ReadyInv, EvaluatorInv, Written, Readiness!ReadOnly, Readiness!inputs, Readiness!files
<1>1. ASSUME Readiness!Evaluate PROVE EvaluatorInv'
  BY <1>1 DEF Readiness!Evaluate, Readiness!TypeOK, Readiness!Outputs
<1>2. ASSUME Readiness!WriteReport PROVE EvaluatorInv'
  BY <1>2 DEF Readiness!WriteReport, Readiness!NextFile
<1>3. ASSUME Readiness!WriteIntegrity PROVE EvaluatorInv' BY <1>3 DEF Readiness!WriteIntegrity
<1>4. ASSUME Readiness!EditManifest PROVE EvaluatorInv' BY <1>4 DEF Readiness!EditManifest
<1>5. ASSUME Readiness!ReplaceArtifacts PROVE EvaluatorInv' BY <1>5 DEF Readiness!ReplaceArtifacts
<1>6. ASSUME Readiness!Deploy PROVE EvaluatorInv' BY <1>6 DEF Readiness!Deploy
<1>7. ASSUME Readiness!Govern PROVE EvaluatorInv' BY <1>7 DEF Readiness!Govern
<1>8. ASSUME Readiness!LoadManifest PROVE EvaluatorInv' BY <1>8 DEF Readiness!LoadManifest
<1>9. ASSUME Readiness!LoadResults PROVE EvaluatorInv' BY <1>9 DEF Readiness!LoadResults
<1>10. ASSUME Readiness!LoadGovernance PROVE EvaluatorInv' BY <1>10 DEF Readiness!LoadGovernance
<1>11. ASSUME Readiness!LoadIntegrity PROVE EvaluatorInv' BY <1>11 DEF Readiness!LoadIntegrity
<1>12. ASSUME Readiness!Decide PROVE EvaluatorInv' BY <1>12 DEF Readiness!Decide
<1>13. ASSUME Readiness!Answered PROVE EvaluatorInv' BY <1>13 DEF Readiness!Answered
<1>14. CASE UNCHANGED readyVars BY <1>14 DEF readyVars
<1>. QED BY <1>1, <1>2, <1>3, <1>4, <1>5, <1>6, <1>7, <1>8, <1>9, <1>10, <1>11, <1>12, <1>13, <1>14
         DEF Readiness!Next

\* Only the last write of an evaluation changes the integrity record.
LEMMA RecordStep == ASSUME ReadyInv, [Readiness!Next]_readyVars PROVE RecordInv'
<1>. USE DEF ReadyInv, RecordInv, Readiness!ReadOnly, Readiness!inputs, Readiness!files, Readiness!Readable
<1>1. ASSUME Readiness!WriteIntegrity PROVE RecordInv'
  <2>. DEFINE out == evaluator.out
  <2>1. /\ out \in Readiness!Outputs
        /\ results = out /\ report = out /\ disagreements = out
    BY <1>1 DEF Readiness!WriteIntegrity, EvaluatorInv, Written
  <2>2. /\ history' = [history EXCEPT ![out] = IF history[out] < 2 THEN history[out] + 1 ELSE history[out]]
        /\ history \in [Readiness!Outputs -> 0 .. 2]
    BY <1>1 DEF Readiness!WriteIntegrity, Readiness!Seen, Readiness!TypeOK
  <2>3. history'[out] >= 1 /\ (history[out] >= 1 => history'[out] = 2)
    BY <2>1, <2>2
  <2>. SUFFICES ASSUME integrity' = [manifest |-> out.manifest, policy |-> out.policy,
                             results |-> results, report |-> report,
                             disagreements |-> disagreements,
                             status |-> Readiness!StatusOf(integrity, out)]
                PROVE RecordInv'
    BY <1>1 DEF Readiness!WriteIntegrity
  <2>4. ASSUME integrity'.status = "match" PROVE history[out] >= 1
    BY <2>1, <2>4 DEF Readiness!StatusOf, Readiness!Comparable, Readiness!OutputsMatch
  <2>. QED BY <2>1, <2>3, <2>4
<1>2. CASE UNCHANGED <<integrity, history>> BY <1>2
<1>3. ASSUME Readiness!Next, ~Readiness!WriteIntegrity PROVE UNCHANGED <<integrity, history>>
  BY <1>3 DEF Readiness!Next, Readiness!Evaluate, Readiness!WriteReport, Readiness!EditManifest,
      Readiness!ReplaceArtifacts, Readiness!Deploy, Readiness!Govern, Readiness!LoadManifest,
      Readiness!LoadResults, Readiness!LoadGovernance, Readiness!LoadIntegrity, Readiness!Decide,
      Readiness!Answered
<1>. QED BY <1>1, <1>2, <1>3 DEF readyVars

\* A request keeps what it has read; a deployment ends it, so that a request
\* that decided did so under the policies that are in force.
LEMMA ReaderStep == ASSUME ReadyInv, [Readiness!Next]_readyVars PROVE ReaderInv' /\ DecidedInv'
<1>. USE DEF ReadyInv, ReaderInv
<1>1. CASE UNCHANGED <<reader, policy>>
  BY <1>1 DEF DecidedInv, Readiness!Ready, Readiness!ReportCurrent
<1>2. CASE reader' = Readiness!Idle BY <1>2 DEF Readiness!Idle, DecidedInv, Readiness!Ready
<1>3. ASSUME Readiness!LoadManifest PROVE ReaderInv' /\ DecidedInv'
  <2>1. Readiness!Advance("manifest", manifest, "results") BY <1>3 DEF Readiness!LoadManifest
  <2>. QED BY <2>1 DEF DecidedInv, Readiness!Ready, Readiness!Advance
<1>4. ASSUME Readiness!LoadResults PROVE ReaderInv' /\ DecidedInv'
  <2>1. Readiness!Advance("results", results, "governance") /\ reader.pc = "results"
    BY <1>4 DEF Readiness!LoadResults
  <2>. QED BY <2>1 DEF DecidedInv, Readiness!Ready, Readiness!Advance
<1>5. ASSUME Readiness!LoadGovernance PROVE ReaderInv' /\ DecidedInv'
  <2>1. Readiness!Advance("governance", governance, "integrity") /\ reader.pc = "governance"
    BY <1>5 DEF Readiness!LoadGovernance
  <2>. QED BY <2>1 DEF DecidedInv, Readiness!Ready, Readiness!Advance
<1>6. ASSUME Readiness!LoadIntegrity PROVE ReaderInv' /\ DecidedInv'
  <2>1. Readiness!Advance("integrity", integrity, "files") /\ reader.pc = "integrity"
    BY <1>6 DEF Readiness!LoadIntegrity
  <2>. QED BY <2>1 DEF DecidedInv, Readiness!Ready, Readiness!Advance
<1>7. ASSUME Readiness!Decide PROVE ReaderInv' /\ DecidedInv'
  <2>1. Readiness!Advance("verdict", Readiness!Verdict(reader), "decided") /\ reader.pc = "files"
        /\ policy' = policy
    BY <1>7 DEF Readiness!Decide, Readiness!ReadOnly, Readiness!inputs
  <2>2. /\ DOMAIN reader' = DOMAIN reader \union {"verdict", "pc"}
        /\ reader'.pc = "decided" /\ reader'.verdict = Readiness!Verdict(reader)
        /\ \A x \in DOMAIN reader \ {"verdict", "pc"} : reader'[x] = reader[x]
    BY <2>1 DEF Readiness!Advance
  <2>3. /\ reader'.manifest = reader.manifest /\ reader'.results = reader.results
        /\ reader'.governance = reader.governance
    BY <2>1, <2>2
  <2>4. ASSUME Readiness!Verdict(reader) = "READY_FOR_PHASE_1_6B"
        PROVE  /\ Readiness!SourcesCurrent(reader) /\ Readiness!Approved(reader.governance)
               /\ Readiness!EvidenceComplete(reader.manifest, reader.results)
    BY <2>4 DEF Readiness!Verdict
  <2>5. DecidedInv'
    BY <2>1, <2>2, <2>3, <2>4 DEF DecidedInv, Readiness!Ready, Readiness!SourcesCurrent,
       Readiness!ReportCurrent, Readiness!EvidenceComplete, Readiness!CriticalDisagreements,
       Readiness!NotReady, Readiness!Unlabelled, Readiness!CurrentSchema, Readiness!ReviewedIntervals,
       Readiness!Represented, Readiness!ArtifactReadiness, Readiness!Approved
  <2>. QED BY <2>1, <2>2, <2>5
<1>8. ASSUME Readiness!Next PROVE \/ Readiness!LoadManifest \/ Readiness!LoadResults
                                  \/ Readiness!LoadGovernance \/ Readiness!LoadIntegrity
                                  \/ Readiness!Decide \/ reader' = Readiness!Idle
                                  \/ UNCHANGED <<reader, policy>>
  BY <1>8 DEF Readiness!Next, Readiness!Evaluate, Readiness!WriteReport, Readiness!WriteIntegrity,
      Readiness!EditManifest, Readiness!ReplaceArtifacts, Readiness!Deploy, Readiness!Govern,
      Readiness!Answered, Readiness!inputs
<1>. QED BY <1>1, <1>2, <1>3, <1>4, <1>5, <1>6, <1>7, <1>8 DEF readyVars, Readiness!inputs

\* What the verdict requires is what the property promises.
LEMMA ReadyConsequence == ASSUME ReadyInv PROVE ReadyIsEarned
<1>1. Readiness!MatchMeansReproduced
  BY DEF ReadyInv, RecordInv, Readiness!MatchMeansReproduced, Readiness!Readable
<1>2. Readiness!ReadyIsCurrent
  BY DEF ReadyInv, DecidedInv, Readiness!ReadyIsCurrent, Readiness!ReportCurrent, Readiness!Approved
<1>3. Readiness!ReadyRestsOnEvidence
  <2>. SUFFICES ASSUME Readiness!Ready PROVE Readiness!ReadyRestsOnEvidence
    BY DEF Readiness!ReadyRestsOnEvidence
  <2>1. /\ reader.results.manifest = reader.manifest
        /\ Readiness!Represented(reader.manifest) = Readiness!Splits
        /\ Readiness!CriticalDisagreements(reader.manifest, reader.results) = {}
    BY DEF ReadyInv, DecidedInv, Readiness!ReportCurrent, Readiness!EvidenceComplete
  <2>2. \A split \in Readiness!Splits : \E s \in reader.results.manifest : s.split = split
    BY <2>1 DEF Readiness!Represented
  <2>3. \A s \in reader.results.manifest :
           "identity" \in s.labels /\ "tracking" \in s.labels
           /\ reader.results.artifacts[s.id] = "ready"
    BY <2>1 DEF Readiness!CriticalDisagreements, Readiness!NotReady, Readiness!Unlabelled,
       Readiness!ArtifactReadiness
  <2>. QED BY <2>2, <2>3 DEF Readiness!ReadyRestsOnEvidence
<1>. QED BY <1>1, <1>2, <1>3 DEF ReadyIsEarned, ReadyInv

\* The next phase opens only on evidence that is current and was reproduced,
\* for any manifests, artifacts and policies, although the four files are
\* written one by one, by an evaluation that may die in a write, and read one
\* by one (write_calibration_reports, evaluate_readiness).
THEOREM ReadinessTheorem == Spec => []ReadyIsEarned
<1>. DEFINE Inv == focus = "readiness" => ReadyInv
<1>1. Init => Inv BY ReadyInit DEF Init
<1>2. Inv /\ [Next]_vars => Inv'
  <2>. SUFFICES ASSUME Inv, [Next]_vars, focus' = "readiness" PROVE ReadyInv'
    OBVIOUS
  <2>1. focus = "readiness" /\ [Readiness!Next]_readyVars BY DEF Next, vars, Histories
  <2>. QED BY <2>1, ReadyTypeStep, EvaluatorStep, RecordStep, ReaderStep DEF ReadyInv
<1>3. Inv => ReadyIsEarned BY ReadyConsequence DEF ReadyIsEarned
<1>. QED BY <1>1, <1>2, <1>3, PTL DEF Spec

-----------------------------------------------------------------------------
(* The evaluation of a manifest.                                            *)

\* The components count as this module does.
LEMMA SameCounts ==
    /\ \A T : Evaluation!Cardinality(T) = Cardinality(T)
    /\ \A T : Review!Cardinality(T) = Cardinality(T) /\ Review!IsFiniteSet(T) = IsFiniteSet(T)
    /\ \A h, T : History(h)!Cardinality(T) = Cardinality(T) /\ History(h)!IsFiniteSet(T) = IsFiniteSet(T)
BY DEF Evaluation!Cardinality, Review!Cardinality, Review!IsFiniteSet, History!Cardinality,
       History!IsFiniteSet, Cardinality, IsFiniteSet

\* The samples evaluated so far are the first of the manifest.
EvaluationInv ==
    /\ samples \in SampleLists /\ evaluated \in Seq(Evaluation!SampleShape)
    /\ Len(evaluated) <= Len(samples)
    /\ \A i \in 1 .. Len(evaluated) : evaluated[i] = samples[i]

LEMMA EvaluatedSamples ==
    ASSUME EvaluationInv
    PROVE  /\ samples \in Seq(Evaluation!SampleShape) /\ Len(samples) \in Nat
           /\ Len(evaluated) \in Nat /\ Evaluation!Ids = 1 .. Len(evaluated)
           /\ IsFiniteSet(Evaluation!Ids) /\ Cardinality(Evaluation!Ids) = Len(evaluated)
           /\ \A i \in Evaluation!Ids : evaluated[i] \in Evaluation!SampleShape
<1>1. samples \in Seq(Evaluation!SampleShape)
  BY WellFormed DEF WellFormed, Evaluation!SamplesWellFormed, EvaluationInv
<1>2. Len(samples) \in Nat BY <1>1, LenProperties
<1>3. /\ Len(evaluated) \in Nat /\ Evaluation!Ids = 1 .. Len(evaluated)
      /\ \A i \in 1 .. Len(evaluated) : evaluated[i] \in Evaluation!SampleShape
  BY LenProperties, ElementOfSeq DEF EvaluationInv, Evaluation!Ids
<1>4. IsFiniteSet(1 .. Len(evaluated)) /\ Cardinality(1 .. Len(evaluated)) = Len(evaluated)
  BY <1>3, UpTo
<1>. QED BY <1>1, <1>2, <1>3, <1>4

LEMMA EvaluationInit == ASSUME Evaluation!Init PROVE EvaluationInv
<1>1. samples \in Seq(Evaluation!SampleShape)
  BY WellFormed DEF WellFormed, Evaluation!SamplesWellFormed, Evaluation!Init
<1>2. Len(samples) \in Nat BY <1>1, LenProperties
<1>3. <<>> \in Seq(Evaluation!SampleShape) /\ Len(<<>>) = 0 BY EmptySeq
<1>. QED BY <1>2, <1>3 DEF Evaluation!Init, EvaluationInv

LEMMA EvaluationStep == ASSUME EvaluationInv, [Evaluation!Next]_sampleVars PROVE EvaluationInv'
<1>1. CASE UNCHANGED sampleVars BY <1>1 DEF sampleVars, EvaluationInv
<1>2. ASSUME Evaluation!Next PROVE EvaluationInv'
  <2>. DEFINE n == Len(evaluated)
  <2>1. /\ n < Len(samples) /\ samples' = samples
        /\ evaluated' = Append(evaluated, samples[n + 1])
    BY <1>2 DEF Evaluation!Next, Evaluation!EvaluateSample
  <2>2. n \in Nat /\ Len(samples) \in Nat /\ samples \in Seq(Evaluation!SampleShape)
    BY EvaluatedSamples
  <2>3. samples[n + 1] \in Evaluation!SampleShape BY <2>1, <2>2, ElementOfSeq
  <2>4. /\ evaluated' \in Seq(Evaluation!SampleShape) /\ Len(evaluated') = n + 1
        /\ evaluated'[n + 1] = samples[n + 1]
        /\ \A i \in 1 .. n : evaluated'[i] = evaluated[i]
    BY <2>1, <2>3, AppendProperties DEF EvaluationInv
  <2>5. \A i \in 1 .. n + 1 : evaluated'[i] = samples[i]
    BY <2>2, <2>4 DEF EvaluationInv
  <2>. QED BY <2>1, <2>2, <2>4, <2>5 DEF EvaluationInv
<1>. QED BY <1>1, <1>2

LEMMA EvaluationTypeOK == ASSUME EvaluationInv PROVE Evaluation!TypeOK
<1>. DEFINE n == Len(evaluated)
<1>1. /\ n \in Nat /\ Len(samples) \in Nat /\ n <= Len(samples)
      /\ samples \in Seq(Evaluation!SampleShape)
  BY EvaluatedSamples DEF EvaluationInv
<1>2. \A i \in 1 .. n : samples[i] \in Evaluation!SampleShape BY <1>1, ElementOfSeq
<1>3. /\ SubSeq(samples, 1, n) \in Seq(Evaluation!SampleShape)
      /\ Len(SubSeq(samples, 1, n)) = n
      /\ \A i \in 1 .. n : SubSeq(samples, 1, n)[i] = samples[i]
  BY <1>1, <1>2, SubSeqProperties
<1>4. evaluated = SubSeq(samples, 1, n) BY <1>3, SeqEqual DEF EvaluationInv
<1>. QED BY <1>1, <1>4 DEF EvaluationInv, Evaluation!TypeOK

\* The qualities of a sample are known, and so is how far they lie apart.
LEMMA SampleQualities ==
    ASSUME NEW s \in Evaluation!SampleShape
    PROVE  /\ Evaluation!SystemQuality(s) \in -1 .. 3 /\ Evaluation!ExpectedQuality(s) \in -1 .. 3
           /\ Evaluation!SimulatedQuality(s) \in -1 .. 3
BY DEF Evaluation!SampleShape, Evaluation!SystemQuality, Evaluation!ExpectedQuality,
       Evaluation!SimulatedQuality, Evaluation!Qualities, Evaluation!None

LEMMA QualityCounts == ASSUME EvaluationInv PROVE Evaluation!QualityCountsAgree
<1>. DEFINE Ids == Evaluation!Ids
            q(i) == Evaluation!SystemQuality(evaluated[i])
            e(i) == Evaluation!ExpectedQuality(evaluated[i])
            Pairs == {i \in Ids : q(i) # -1 /\ e(i) # -1}
            Exact == {i \in Ids : (q(i) # -1 /\ e(i) # -1) /\ q(i) - e(i) = 0}
            Over == {i \in Ids : (q(i) # -1 /\ e(i) # -1) /\ q(i) - e(i) > 0}
            Under == {i \in Ids : (q(i) # -1 /\ e(i) # -1) /\ q(i) - e(i) < 0}
            Near == {i \in Ids : (q(i) # -1 /\ e(i) # -1) /\ q(i) - e(i) \in -1 .. 1}
            Cell(k) == {i \in Ids : (q(i) # -1 /\ e(i) # -1) /\ e(i) = k /\ q(i) = k}
            Apart == {i \in Ids : (q(i) # -1 /\ e(i) # -1) /\ q(i) - e(i) # 0}
<1>1. IsFiniteSet(Ids) /\ \A i \in Ids : q(i) \in -1 .. 3 /\ e(i) \in -1 .. 3
  BY EvaluatedSamples, SampleQualities
<1>2. IsFiniteSet(Pairs) BY <1>1, FS_Subset
<1>3. /\ Evaluation!QualityPairs = Cardinality(Pairs)
      /\ Evaluation!ExactCount = Cardinality(Exact)
      /\ Evaluation!AcceptableCount = Cardinality(Near)
      /\ Evaluation!Overestimated = Cardinality(Over)
      /\ Evaluation!Underestimated = Cardinality(Under)
  BY SameCounts DEF Evaluation!QualityPairs, Evaluation!ExactCount, Evaluation!AcceptableCount,
     Evaluation!Overestimated, Evaluation!Underestimated, Evaluation!Count, Evaluation!Compared,
     Evaluation!Delta, Evaluation!None
<1>4. \A k \in 0 .. 3 : Evaluation!Confusion[k][k] = Cardinality(Cell(k))
  BY SameCounts DEF Evaluation!Confusion, Evaluation!Count, Evaluation!Compared, Evaluation!None, Evaluation!Qualities
<1>5. Cardinality(Evaluation!Disagreements.recording_assessment) = Cardinality(Apart)
  BY SameCounts DEF Evaluation!Disagreements, Evaluation!Compared, Evaluation!Delta, Evaluation!None
<1>6. Exact \union Apart = Pairs /\ Exact \intersect Apart = {}
  BY <1>1
<1>7. Over \union Under = Apart /\ Over \intersect Under = {}
  BY <1>1
<1>8. Exact \subseteq Near /\ Near \subseteq Pairs BY <1>1
<1>9. Cardinality(Exact) = Cardinality(Cell(0)) + Cardinality(Cell(1)) + Cardinality(Cell(2)) + Cardinality(Cell(3))
  <2>1. /\ (Cell(0) \union Cell(1)) \union (Cell(2) \union Cell(3)) = Exact
        /\ (Cell(0) \union Cell(1)) \intersect (Cell(2) \union Cell(3)) = {}
        /\ Cell(0) \intersect Cell(1) = {} /\ Cell(2) \intersect Cell(3) = {}
    BY <1>1
  <2>. HIDE DEF Exact, Cell
  <2>2. IsFiniteSet(Exact) BY <1>2, <1>6, PartsAddUp
  <2>3. /\ Cardinality(Cell(0) \union Cell(1)) + Cardinality(Cell(2) \union Cell(3)) = Cardinality(Exact)
        /\ IsFiniteSet(Cell(0) \union Cell(1)) /\ IsFiniteSet(Cell(2) \union Cell(3))
    BY <2>1, <2>2, PartsAddUp
  <2>4. /\ Cardinality(Cell(0)) + Cardinality(Cell(1)) = Cardinality(Cell(0) \union Cell(1))
        /\ Cardinality(Cell(0)) \in Nat /\ Cardinality(Cell(1)) \in Nat
    BY <2>1, <2>3, ApartAddUp
  <2>5. /\ Cardinality(Cell(2)) + Cardinality(Cell(3)) = Cardinality(Cell(2) \union Cell(3))
        /\ Cardinality(Cell(2)) \in Nat /\ Cardinality(Cell(3)) \in Nat
    BY <2>1, <2>3, ApartAddUp
  <2>. QED BY <2>3, <2>4, <2>5
<1>. HIDE DEF Pairs, Exact, Over, Under, Near, Cell, Apart
<1>10. /\ Cardinality(Exact) + Cardinality(Apart) = Cardinality(Pairs) /\ IsFiniteSet(Apart)
       /\ Cardinality(Exact) \in Nat /\ Cardinality(Apart) \in Nat /\ Cardinality(Pairs) \in Nat
  BY <1>2, <1>6, PartsAddUp
<1>11. /\ Cardinality(Over) + Cardinality(Under) = Cardinality(Apart)
       /\ Cardinality(Over) \in Nat /\ Cardinality(Under) \in Nat
  BY <1>7, <1>10, PartsAddUp
<1>12. Cardinality(Near) <= Cardinality(Pairs) /\ IsFiniteSet(Near)
  BY <1>2, <1>8, PartIsSmaller, FS_Subset
<1>13. Cardinality(Exact) <= Cardinality(Near) BY <1>8, <1>12, PartIsSmaller
<1>. QED BY <1>3, <1>4, <1>5, <1>9, <1>10, <1>11, <1>12, <1>13, SameCounts DEF Evaluation!QualityCountsAgree

LEMMA GateErrors == ASSUME EvaluationInv PROVE Evaluation!GateErrorsAgree
<1>. DEFINE Ids == Evaluation!Ids
            g(i) == Evaluation!SystemGate(evaluated[i])
            e(i) == evaluated[i].expectedGate
            cmp(i) == g(i) # "none" /\ e(i) # "none"
            Poor == {i \in Ids : cmp(i) /\ e(i) = "INSUFFICIENT_EVIDENCE"}
            Accepted == {i \in Ids : cmp(i) /\ e(i) = "INSUFFICIENT_EVIDENCE"
                                     /\ g(i) # "INSUFFICIENT_EVIDENCE"}
            Refused == {i \in Ids : cmp(i) /\ e(i) = "INSUFFICIENT_EVIDENCE"
                                    /\ g(i) = "INSUFFICIENT_EVIDENCE"}
            Valid == {i \in Ids : cmp(i) /\ e(i) \in Evaluation!Allowed}
            Passed == {i \in Ids : cmp(i) /\ e(i) \in Evaluation!Allowed /\ g(i) \in Evaluation!Allowed}
            Suppressed == {i \in Ids : cmp(i) /\ e(i) \in Evaluation!Allowed
                                       /\ g(i) = "INSUFFICIENT_EVIDENCE"}
            Listed == {i \in Ids : cmp(i) /\ g(i) # e(i)}
<1>1. IsFiniteSet(Ids) BY EvaluatedSamples
<1>2. /\ Evaluation!UnsuitablePairs = Cardinality(Poor)
      /\ Evaluation!UnsuitableAllowed = Cardinality(Accepted)
      /\ Evaluation!UnsuitableSuppressed = Cardinality(Refused)
      /\ Evaluation!ValidPairs = Cardinality(Valid)
      /\ Evaluation!ValidAllowed = Cardinality(Passed)
      /\ Evaluation!ValidSuppressed = Cardinality(Suppressed)
  BY SameCounts DEF Evaluation!UnsuitablePairs, Evaluation!UnsuitableAllowed, Evaluation!UnsuitableSuppressed,
     Evaluation!ValidPairs, Evaluation!ValidAllowed, Evaluation!ValidSuppressed, Evaluation!Count,
     Evaluation!GateCompared, Evaluation!NoGate
<1>3. Evaluation!FalseAcceptance = Cardinality(Accepted)
  <2>1. {i \in Ids : e(i) = "INSUFFICIENT_EVIDENCE" /\ g(i) \notin {"none", "INSUFFICIENT_EVIDENCE"}} = Accepted
    OBVIOUS
  <2>. QED BY <2>1, SameCounts DEF Evaluation!FalseAcceptance, Evaluation!Count, Evaluation!NoGate
<1>4. Evaluation!FalseSuppression = Cardinality(Suppressed)
  <2>1. {i \in Ids : e(i) \in Evaluation!Allowed /\ g(i) = "INSUFFICIENT_EVIDENCE"} = Suppressed
    BY DEF Evaluation!Allowed
  <2>. QED BY <2>1, SameCounts DEF Evaluation!FalseSuppression, Evaluation!Count
<1>5. Evaluation!Disagreements.insight_gating = Listed
  BY DEF Evaluation!Disagreements, Evaluation!GateCompared, Evaluation!NoGate
<1>6. Accepted \union Refused = Poor /\ Accepted \intersect Refused = {} /\ IsFiniteSet(Poor)
  BY <1>1, FS_Subset
<1>7. /\ Passed \intersect Suppressed = {} /\ Passed \union Suppressed \in SUBSET Valid
      /\ IsFiniteSet(Valid)
  BY <1>1, FS_Subset DEF Evaluation!Allowed
<1>8. /\ Accepted \intersect Suppressed = {} /\ Accepted \union Suppressed \in SUBSET Listed
      /\ IsFiniteSet(Listed)
  BY <1>1, FS_Subset DEF Evaluation!Allowed
<1>. HIDE DEF Poor, Accepted, Refused, Valid, Passed, Suppressed, Listed
<1>9. Cardinality(Accepted) + Cardinality(Refused) = Cardinality(Poor) BY <1>6, PartsAddUp
<1>10. Cardinality(Passed) + Cardinality(Suppressed) <= Cardinality(Valid)
  <2>1. IsFiniteSet(Passed \union Suppressed) BY <1>7, FS_Subset
  <2>2. Cardinality(Passed \union Suppressed) <= Cardinality(Valid) BY <1>7, PartIsSmaller
  <2>. QED BY <1>7, <2>1, <2>2, PartsAddUp
<1>11. Cardinality(Accepted) + Cardinality(Suppressed) <= Cardinality(Listed)
  <2>1. IsFiniteSet(Accepted \union Suppressed) BY <1>8, FS_Subset
  <2>2. Cardinality(Accepted \union Suppressed) <= Cardinality(Listed) BY <1>8, PartIsSmaller
  <2>. QED BY <1>8, <2>1, <2>2, PartsAddUp
<1>. QED BY <1>2, <1>3, <1>4, <1>5, <1>9, <1>10, <1>11, SameCounts DEF Evaluation!GateErrorsAgree

LEMMA HoldoutApart == ASSUME EvaluationInv PROVE Evaluation!HoldoutProtected
<1>1. /\ Evaluation!Eligible \union Evaluation!Excluded = Evaluation!Ids
      /\ Evaluation!Eligible \intersect Evaluation!Excluded = {}
      /\ Evaluation!Affected \in SUBSET Evaluation!Eligible
      /\ Evaluation!Improvements \intersect Evaluation!Regressions = {}
  BY DEF Evaluation!Eligible, Evaluation!Excluded, Evaluation!Affected, Evaluation!Improvements,
     Evaluation!Regressions
<1>2. /\ Cardinality(Evaluation!Eligible) + Cardinality(Evaluation!Excluded) = Len(evaluated)
      /\ IsFiniteSet(Evaluation!Eligible)
      /\ Cardinality(Evaluation!Eligible) \in Nat /\ Cardinality(Evaluation!Excluded) \in Nat
      /\ Len(evaluated) \in Nat
  BY <1>1, PartsAddUp, EvaluatedSamples
<1>3. Cardinality(Evaluation!Affected) \in Nat BY <1>1, <1>2, PartIsSmaller
<1>. QED BY <1>1, <1>2, <1>3, SameCounts DEF Evaluation!HoldoutProtected, Evaluation!Unchanged

LEMMA PassedSound == ASSUME EvaluationInv PROVE Evaluation!PassedSamplesAreSound
<1>. SUFFICES ASSUME NEW i \in Evaluation!Ids, ~Evaluation!RequiresManualReview(evaluated[i])
              PROVE  /\ i \notin Evaluation!Disagreements.recording_assessment
                     /\ i \notin Evaluation!Disagreements.insight_gating
                     /\ Evaluation!ArtifactReadiness(evaluated[i]) \in {"ready", "partial"}
                     /\ \A k \in Evaluation!Stages :
                           evaluated[i].artifacts[k] \in {"current", "unreferenced"}
  BY DEF Evaluation!PassedSamplesAreSound
<1>. DEFINE s == evaluated[i]
<1>1. s \in Evaluation!SampleShape BY EvaluatedSamples
<1>2. s.artifacts \in [Evaluation!Stages -> Evaluation!Found] BY <1>1 DEF Evaluation!SampleShape
<1>3. \A k \in Evaluation!Stages : Evaluation!StatusOf(s, k) \in {"not_referenced", "available"}
  BY <1>2 DEF Evaluation!RequiresManualReview, Evaluation!StatusOf, Evaluation!Found
<1>4. \A k \in Evaluation!Stages : s.artifacts[k] \in {"current", "unreferenced"}
  BY <1>2, <1>3 DEF Evaluation!StatusOf, Evaluation!Found
<1>5. "metadata" \in Evaluation!Stages BY DEF Evaluation!Stages, Evaluation!Required
<1>6. \E k \in Evaluation!Stages : Evaluation!StatusOf(s, k) = "available"
  <2>1. Evaluation!SampleStatus(s) = "evaluated" BY DEF Evaluation!RequiresManualReview
  <2>2. Evaluation!SystemQuality(s) # -1 \/ Evaluation!SystemGate(s) # "none"
    BY <2>1 DEF Evaluation!SampleStatus, Evaluation!None, Evaluation!NoGate
  <2>3. Evaluation!Loaded(s, "metadata") \/ Evaluation!Loaded(s, "analytics")
    BY <2>2 DEF Evaluation!SystemQuality, Evaluation!SystemGate, Evaluation!None, Evaluation!NoGate
  <2>. QED BY <1>3, <2>3 DEF Evaluation!Loaded, Evaluation!Stages, Evaluation!Required
<1>7. /\ "incompatible" \notin Evaluation!Compatibilities(s)
      /\ "legacy_compatible" \notin Evaluation!Compatibilities(s)
      /\ "ready" \in Evaluation!Compatibilities(s)
  BY <1>3, <1>6 DEF Evaluation!Compatibilities, Evaluation!Compatibility
<1>8. Evaluation!ArtifactReadiness(s) \in {"ready", "partial"}
  BY <1>7 DEF Evaluation!ArtifactReadiness
<1>9. /\ i \notin Evaluation!Disagreements.recording_assessment
      /\ i \notin Evaluation!Disagreements.insight_gating
  BY DEF Evaluation!RequiresManualReview, Evaluation!Disagreements
<1>. QED BY <1>4, <1>8, <1>9

\* However many samples are evaluated, and whatever their labels, artifacts and
\* policies yield, the separate counts of evaluate_manifest agree, the holdout
\* is never simulated, and a sample that passed without review is sound.
THEOREM EvaluationTheorem == Spec => []EvaluationConsistent
<1>. DEFINE Inv == focus = "evaluation" => EvaluationInv
<1>1. Init => Inv BY EvaluationInit DEF Init
<1>2. Inv /\ [Next]_vars => Inv'
  <2>. SUFFICES ASSUME Inv, [Next]_vars, focus' = "evaluation" PROVE EvaluationInv'
    OBVIOUS
  <2>1. focus = "evaluation" /\ [Evaluation!Next]_sampleVars BY DEF Next, vars, Histories
  <2>. QED BY <2>1, EvaluationStep
<1>3. Inv => EvaluationConsistent
  BY EvaluationTypeOK, QualityCounts, GateErrors, HoldoutApart, PassedSound DEF EvaluationConsistent
<1>. QED BY <1>1, <1>2, <1>3, PTL DEF Spec

-----------------------------------------------------------------------------
(* The review of active play.                                               *)

\* The reviewed intervals lie in the recording, are not empty and do not overlap.
ReviewInv ==
    /\ IsFiniteSet(intervals) /\ Cardinality(intervals) <= MaxIntervals
    /\ intervals \subseteq [start : 0 .. Duration, end : 1 .. Duration, label : ReviewLabels]
    /\ \A i \in intervals : i.start < i.end
    /\ \A i, j \in intervals : i # j => i.end <= j.start \/ j.end <= i.start
    /\ <<windows, simulated>> \in Reports

LEMMA ReviewInit == ASSUME Review!Init PROVE ReviewInv
<1>1. PICK pair \in Reports : windows = pair[1] /\ simulated = pair[2] BY DEF Review!Init
<1>2. pair \in [1 .. 2 -> [1 .. Duration -> Review!States \union {Review!None}]]
  BY WellFormed DEF WellFormed, Review!ReviewWellFormed
<1>3. pair = <<pair[1], pair[2]>> BY <1>2
<1>4. IsFiniteSet({}) /\ Cardinality({}) = 0 BY FS_EmptySet
<1>5. MaxIntervals \in Nat BY WellFormed DEF WellFormed, Review!ReviewWellFormed
<1>. QED BY <1>1, <1>3, <1>4, <1>5 DEF ReviewInv, Review!Init

LEMMA ReviewStep == ASSUME ReviewInv, [Review!Next]_windowVars PROVE ReviewInv'
<1>1. CASE UNCHANGED windowVars BY <1>1 DEF windowVars, ReviewInv
<1>2. ASSUME NEW a \in 0 .. Duration, NEW b \in 0 .. Duration, NEW label \in ReviewLabels,
             Review!AddInterval(a, b, label)
      PROVE  ReviewInv'
  <2>. DEFINE new == [start |-> a, end |-> b, label |-> label]
  <2>1. /\ a < b /\ Cardinality(intervals) < MaxIntervals
        /\ \A i \in intervals : b <= i.start \/ i.end <= a
        /\ intervals' = intervals \union {new} /\ UNCHANGED <<windows, simulated>>
    BY <1>2, SameCounts DEF Review!AddInterval
  <2>2. /\ Duration \in Nat /\ MaxIntervals \in Nat
    BY WellFormed DEF WellFormed, Review!ReviewWellFormed
  <2>3. IsFiniteSet(intervals') /\ Cardinality(intervals') <= MaxIntervals
    <3>1. /\ IsFiniteSet(intervals') /\ Cardinality(intervals) \in Nat
          /\ \/ Cardinality(intervals') = Cardinality(intervals)
             \/ Cardinality(intervals') = Cardinality(intervals) + 1
      BY <2>1, FS_AddElement, FS_CardinalityType DEF ReviewInv
    <3>. QED BY <2>1, <2>2, <3>1
  <2>4. new \in [start : 0 .. Duration, end : 1 .. Duration, label : ReviewLabels]
        /\ new.start = a /\ new.end = b
    BY <2>1, <2>2
  <2>. QED BY <2>1, <2>3, <2>4 DEF ReviewInv
<1>. QED BY <1>1, <1>2 DEF Review!Next

\* The seconds of an interval, each with the interval it belongs to.
SecondsOf(S) == UNION {{i} \X Review!Units(i) : i \in S}

LEMMA SecondsAre ==
    ASSUME NEW S
    PROVE  /\ Review!Seconds(S) = Cardinality(SecondsOf(S))
           /\ \A x : x \in SecondsOf(S) <=>
                 \E i \in S : \E u \in Review!Units(i) : x = <<i, u>>
<1>1. Review!Seconds(S) = Cardinality(SecondsOf(S))
  BY SameCounts DEF Review!Seconds, SecondsOf
<1>2. \A x : x \in SecondsOf(S) <=> \E i \in S : \E u \in Review!Units(i) : x = <<i, u>>
  BY DEF SecondsOf
<1>. QED BY <1>1, <1>2

LEMMA SecondsFinite ==
    ASSUME ReviewInv, NEW S \in SUBSET intervals
    PROVE  IsFiniteSet(SecondsOf(S)) /\ Review!Seconds(S) \in Nat
<1>1. Duration \in Nat BY WellFormed DEF WellFormed, Review!ReviewWellFormed
<1>2. IsFiniteSet(intervals \X (1 .. Duration)) BY <1>1, UpTo, FS_Product DEF ReviewInv
<1>3. SecondsOf(S) \in SUBSET (intervals \X (1 .. Duration))
  <2>1. ASSUME NEW i \in S, NEW u \in Review!Units(i) PROVE u \in 1 .. Duration
    BY <1>1 DEF ReviewInv, Review!Units
  <2>. QED BY <2>1, SecondsAre
<1>4. IsFiniteSet(SecondsOf(S)) BY <1>2, <1>3, FS_Subset
<1>. QED BY <1>4, SecondsAre, FS_CardinalityType

\* Disjoint sets of intervals share no second.
LEMMA SecondsAddUp ==
    ASSUME ReviewInv, NEW S \in SUBSET intervals, NEW T \in SUBSET intervals, S \intersect T = {}
    PROVE  Review!Seconds(S \union T) = Review!Seconds(S) + Review!Seconds(T)
<1>1. SecondsOf(S) \union SecondsOf(T) = SecondsOf(S \union T) BY SecondsAre
<1>2. SecondsOf(S) \intersect SecondsOf(T) = {} BY SecondsAre
<1>3. IsFiniteSet(SecondsOf(S \union T)) BY SecondsFinite
<1>4. Cardinality(SecondsOf(S)) + Cardinality(SecondsOf(T)) = Cardinality(SecondsOf(S \union T))
  BY <1>1, <1>2, <1>3, PartsAddUp
<1>. QED BY <1>4, SecondsAre

\* No second of the recording is reviewed twice.
LEMMA SecondsBounded == ASSUME ReviewInv PROVE Review!Seconds(intervals) <= Duration
<1>. DEFINE f == [x \in SecondsOf(intervals) |-> x[2]]
<1>1. Duration \in Nat BY WellFormed DEF WellFormed, Review!ReviewWellFormed
<1>2. ASSUME NEW i \in intervals, NEW u \in Review!Units(i) PROVE u \in 1 .. Duration
  BY <1>1, <1>2 DEF ReviewInv, Review!Units
<1>3. f \in [SecondsOf(intervals) -> 1 .. Duration] BY <1>2, SecondsAre
<1>4. ASSUME NEW i \in intervals, NEW j \in intervals, NEW u \in Review!Units(i), u \in Review!Units(j)
      PROVE  i = j
  BY <1>1, <1>4 DEF ReviewInv, Review!Units
<1>5. ASSUME NEW x \in SecondsOf(intervals), NEW y \in SecondsOf(intervals), f[x] = f[y] PROVE x = y
  <2>1. PICK i \in intervals : \E u \in Review!Units(i) : x = <<i, u>> BY SecondsAre
  <2>2. PICK j \in intervals : \E u \in Review!Units(j) : y = <<j, u>> BY SecondsAre
  <2>3. x[2] = y[2] BY <1>5
  <2>. QED BY <1>4, <2>1, <2>2, <2>3
<1>6. f \in Injection(SecondsOf(intervals), 1 .. Duration) BY <1>3, <1>5, Fun_IsInj
<1>7. Cardinality(SecondsOf(intervals)) <= Cardinality(1 .. Duration) BY <1>1, <1>6, UpTo, FS_Injection
<1>. QED BY <1>1, <1>7, SecondsAre, UpTo

LEMMA ReviewTypeOK == ASSUME ReviewInv PROVE Review!TypeOK
BY SecondsBounded DEF ReviewInv, Review!TypeOK

\* Six outcomes of a reviewed second; flags that repeat the copied state keep them apart.
LEMMA DurationsAddUp == ASSUME ReviewInv PROVE Review!DurationsPartition
<1>. SUFFICES ASSUME \A i \in Review!Reviewed : Review!FlagsRepeat(i)
              PROVE  Review!Seconds(Review!Reviewed)
                       = Review!Seconds(Review!Agreed("likely_active"))
                         + Review!Seconds(Review!Agreed("likely_idle"))
                         + Review!Seconds(Review!FalseActive) + Review!Seconds(Review!FalseIdle)
                         + Review!Seconds(Review!Unknown)
                         + Review!Seconds({i \in Review!Reviewed :
                               i.label.court4 = Review!None /\ ~i.label.reviewable})
  BY DEF Review!DurationsPartition
<1>. DEFINE R == Review!Reviewed
            With(e, c) == {i \in R : i.label.expected = e /\ i.label.court4 = c}
            A1 == With("likely_active", "likely_active")
            A2 == With("likely_idle", "likely_idle")
            F1 == With("likely_idle", "likely_active")
            F2 == With("likely_active", "likely_idle")
            U == {i \in R : \/ i.label.court4 = "unknown"
                            \/ i.label.court4 = "none" /\ i.label.reviewable}
            N == {i \in R : i.label.court4 = "none" /\ ~i.label.reviewable}
<1>1. R \in SUBSET intervals BY DEF Review!Reviewed
<1>2. ASSUME NEW i \in R
      PROVE  /\ i.label.expected \in {"likely_active", "likely_idle"}
             /\ i.label.court4 \in {"likely_active", "likely_idle", "unknown", "none"}
             /\ i.label.falseActive => i.label.expected = "likely_idle" /\ i.label.court4 = "likely_active"
             /\ i.label.falseIdle => i.label.expected = "likely_active" /\ i.label.court4 = "likely_idle"
  <2>1. i.label \in ReviewLabels BY DEF ReviewInv, Review!Reviewed
  <2>2. i.label \in Review!LabelShape
    BY <2>1, WellFormed DEF WellFormed, Review!ReviewWellFormed
  <2>3. i.label.court4 \in {"likely_active", "likely_idle", "unknown", "none"}
    BY <2>2 DEF Review!LabelShape, Review!States, Review!None
  <2>4. i.label.expected \in {"likely_active", "likely_idle"}
    BY DEF Review!Reviewed, Review!Definite
  <2>5. Review!FlagsRepeat(i) OBVIOUS
  <2>. QED BY <2>3, <2>4, <2>5 DEF Review!FlagsRepeat
<1>3. /\ Review!Agreed("likely_active") = A1 /\ Review!Agreed("likely_idle") = A2
      /\ Review!FalseActive = F1 /\ Review!FalseIdle = F2 /\ Review!Unknown = U
      /\ {i \in R : i.label.court4 = Review!None /\ ~i.label.reviewable} = N
  BY <1>2 DEF Review!Agreed, Review!Expecting, Review!FalseActive, Review!FalseIdle, Review!Unknown,
     Review!None
<1>4. A1 \union (A2 \union (F1 \union (F2 \union (U \union N)))) = R BY <1>2
<1>5. /\ A1 \in SUBSET intervals /\ A2 \in SUBSET intervals /\ F1 \in SUBSET intervals
      /\ F2 \in SUBSET intervals /\ U \in SUBSET intervals /\ N \in SUBSET intervals
  BY <1>1
<1>6. /\ A1 \intersect (A2 \union (F1 \union (F2 \union (U \union N)))) = {}
      /\ A2 \intersect (F1 \union (F2 \union (U \union N))) = {}
      /\ F1 \intersect (F2 \union (U \union N)) = {}
      /\ F2 \intersect (U \union N) = {} /\ U \intersect N = {}
  OBVIOUS
<1>. HIDE DEF A1, A2, F1, F2, U, N
<1>7. Review!Seconds(U \union N) = Review!Seconds(U) + Review!Seconds(N)
  BY <1>5, <1>6, SecondsAddUp
<1>8. Review!Seconds(F2 \union (U \union N)) = Review!Seconds(F2) + Review!Seconds(U \union N)
  BY <1>5, <1>6, SecondsAddUp
<1>9. Review!Seconds(F1 \union (F2 \union (U \union N)))
        = Review!Seconds(F1) + Review!Seconds(F2 \union (U \union N))
  BY <1>5, <1>6, SecondsAddUp
<1>10. Review!Seconds(A2 \union (F1 \union (F2 \union (U \union N))))
        = Review!Seconds(A2) + Review!Seconds(F1 \union (F2 \union (U \union N)))
  BY <1>5, <1>6, SecondsAddUp
<1>11. Review!Seconds(R)
        = Review!Seconds(A1) + Review!Seconds(A2 \union (F1 \union (F2 \union (U \union N))))
  BY <1>4, <1>5, <1>6, SecondsAddUp
<1>12. /\ Review!Seconds(A1) \in Nat /\ Review!Seconds(A2) \in Nat /\ Review!Seconds(F1) \in Nat
       /\ Review!Seconds(F2) \in Nat /\ Review!Seconds(U) \in Nat /\ Review!Seconds(N) \in Nat
  BY <1>5, SecondsFinite
<1>13. Review!Seconds(R) = Review!Seconds(A1) + Review!Seconds(A2) + Review!Seconds(F1)
                           + Review!Seconds(F2) + Review!Seconds(U) + Review!Seconds(N)
  BY <1>7, <1>8, <1>9, <1>10, <1>11, <1>12
<1>. QED BY <1>3, <1>13

\* A definite state of an interval is the single leader, over windows that are known.
LEMMA DefiniteState ==
    ASSUME NEW w, NEW i, Review!StateForInterval(w, i) \in Review!Definite
    PROVE  /\ ~(Review!Overlap(w, i, "unknown") > 0)
           /\ Review!Leaders(w, i) = {Review!StateForInterval(w, i)}
<1>1. /\ ~(Review!Overlap(w, i, "unknown") > 0) /\ Cardinality(Review!Leaders(w, i)) = 1
      /\ Review!StateForInterval(w, i) = CHOOSE s \in Review!Leaders(w, i) : TRUE
  BY SameCounts DEF Review!StateForInterval, Review!Definite
<1>2. IsFiniteSet(Review!States)
  <2>1. IsFiniteSet({"likely_active"}) BY FS_Singleton
  <2>2. IsFiniteSet({"likely_active"} \union {"likely_idle"}) BY <2>1, FS_AddElement
  <2>3. IsFiniteSet(({"likely_active"} \union {"likely_idle"}) \union {"unknown"}) BY <2>2, FS_AddElement
  <2>4. ({"likely_active"} \union {"likely_idle"}) \union {"unknown"} = Review!States
    BY DEF Review!States
  <2>. QED BY <2>3, <2>4
<1>3. IsFiniteSet(Review!Leaders(w, i)) BY <1>2, FS_Subset DEF Review!Leaders
<1>4. PICK x : Review!Leaders(w, i) = {x} BY <1>1, <1>3, FS_Singleton
<1>. QED BY <1>1, <1>4

LEMMA Abstention == ASSUME ReviewInv PROVE Review!AbstentionWins
<1>. SUFFICES ASSUME NEW i \in intervals, NEW w \in {windows, simulated},
                     Review!StateForInterval(w, i) \in Review!Definite
              PROVE  /\ \A u \in Review!Units(i) : w[u] # "unknown"
                     /\ \A s \in Review!Definite \ {Review!StateForInterval(w, i)} :
                           Review!Overlap(w, i, s) < Review!Overlap(w, i, Review!StateForInterval(w, i))
  BY DEF Review!AbstentionWins
<1>. DEFINE best == Review!StateForInterval(w, i)
<1>1. ~(Review!Overlap(w, i, "unknown") > 0) /\ Review!Leaders(w, i) = {best} BY DefiniteState
<1>2. IsFiniteSet(Review!Units(i))
  <2>1. i.start \in Int /\ i.end \in Int
    BY WellFormed DEF ReviewInv, WellFormed, Review!ReviewWellFormed
  <2>. QED BY <2>1, FS_Interval DEF Review!Units
<1>3. \A s : /\ IsFiniteSet({u \in Review!Units(i) : w[u] = s})
             /\ Review!Overlap(w, i, s) = Cardinality({u \in Review!Units(i) : w[u] = s})
             /\ Review!Overlap(w, i, s) \in Nat
  <2>1. \A s : IsFiniteSet({u \in Review!Units(i) : w[u] = s}) BY <1>2, FS_Subset
  <2>. QED BY <2>1, SameCounts, FS_CardinalityType DEF Review!Overlap
<1>4. \A u \in Review!Units(i) : w[u] # "unknown"
  <2>1. Cardinality({u \in Review!Units(i) : w[u] = "unknown"}) = 0 BY <1>1, <1>3
  <2>2. {u \in Review!Units(i) : w[u] = "unknown"} = {} BY <1>3, <2>1, FS_EmptySet
  <2>. QED BY <2>2
<1>5. ASSUME NEW s \in Review!Definite \ {best}
      PROVE  Review!Overlap(w, i, s) < Review!Overlap(w, i, best)
  <2>1. s \in Review!States /\ s \notin Review!Leaders(w, i)
    BY <1>1 DEF Review!Definite, Review!States
  <2>2. PICK t \in Review!States : ~(Review!Overlap(w, i, t) <= Review!Overlap(w, i, s))
    BY <2>1 DEF Review!Leaders
  <2>3. Review!Overlap(w, i, t) <= Review!Overlap(w, i, best) BY <1>1 DEF Review!Leaders
  <2>4. /\ Review!Overlap(w, i, s) \in Nat /\ Review!Overlap(w, i, t) \in Nat
        /\ Review!Overlap(w, i, best) \in Nat
    BY <1>3
  <2>. HIDE DEF best
  <2>. QED BY <2>2, <2>3, <2>4
<1>. QED BY <1>4, <1>5

\* The intervals whose state is their label, under some windows.
Matching(w) == {i \in intervals : /\ ~i.label.unsure /\ i.label.expected \in Review!Definite
                                  /\ Review!StateForInterval(w, i) = i.label.expected}

LEMMA MatchingFinite ==
    ASSUME ReviewInv, NEW w
    PROVE  /\ Review!MatchCount(w) = Cardinality(Matching(w)) /\ IsFiniteSet(Matching(w))
           /\ Review!MatchCount(w) \in Nat
<1>1. Matching(w) \in SUBSET intervals BY DEF Matching
<1>2. IsFiniteSet(Matching(w)) BY <1>1, FS_Subset DEF ReviewInv
<1>3. Review!MatchCount(w) = Cardinality(Matching(w)) BY SameCounts DEF Review!MatchCount, Matching
<1>. QED BY <1>2, <1>3, FS_CardinalityType

LEMMA MatchesAgree == ASSUME ReviewInv PROVE Review!MatchesAreAgreements
<1>. SUFFICES ASSUME \A i \in intervals : i.label.court4 = Review!StateForInterval(windows, i)
              PROVE  Review!MatchCount(windows) = Cardinality(Review!Agreed("likely_active"))
                                                    + Cardinality(Review!Agreed("likely_idle"))
  BY SameCounts DEF Review!MatchesAreAgreements
<1>1. Review!Agreed("likely_active") \union Review!Agreed("likely_idle") = Matching(windows)
  BY DEF Review!Agreed, Review!Expecting, Review!Reviewed, Review!Definite, Matching
<1>2. Review!Agreed("likely_active") \intersect Review!Agreed("likely_idle") = {}
  BY DEF Review!Agreed, Review!Expecting
<1>. QED BY <1>1, <1>2, MatchingFinite, PartsAddUp

LEMMA Improvements == ASSUME ReviewInv PROVE Review!ImprovementIsLabelled
<1>1. Review!MatchCount(simulated) \in Nat /\ Review!MatchCount(windows) \in Nat BY MatchingFinite
<1>2. ~(Review!Improved /\ Review!Regressed) BY <1>1 DEF Review!Improved, Review!Regressed
<1>3. ASSUME Review!Improved
      PROVE  \E i \in Review!Reviewed : /\ Review!StateForInterval(simulated, i) = i.label.expected
                                        /\ Review!StateForInterval(windows, i) # i.label.expected
  <2>1. Review!MatchCount(simulated) > Review!MatchCount(windows) BY <1>3 DEF Review!Improved
  <2>2. ASSUME Matching(simulated) \subseteq Matching(windows) PROVE FALSE
    <3>1. Cardinality(Matching(simulated)) <= Cardinality(Matching(windows))
      BY <2>2, MatchingFinite, FS_Subset
    <3>. QED BY <1>1, <2>1, <3>1, MatchingFinite
  <2>3. PICK i \in Matching(simulated) : i \notin Matching(windows) BY <2>2
  <2>. QED BY <2>3 DEF Matching, Review!Reviewed
<1>. QED BY <1>2, <1>3 DEF Review!ImprovementIsLabelled

\* However long the recording, and whatever the labels and the windows, the
\* reviewed seconds add up and a simulation is judged by reliable labels only
\* (_active_play_metrics, _simulate_active_play).
THEOREM ReviewTheorem == Spec => []PlayReviewHonest
<1>. DEFINE Inv == focus = "review" => ReviewInv
<1>1. Init => Inv BY ReviewInit DEF Init
<1>2. Inv /\ [Next]_vars => Inv'
  <2>. SUFFICES ASSUME Inv, [Next]_vars, focus' = "review" PROVE ReviewInv'
    OBVIOUS
  <2>1. focus = "review" /\ [Review!Next]_windowVars BY DEF Next, vars, Histories
  <2>. QED BY <2>1, ReviewStep
<1>3. Inv => PlayReviewHonest
  BY ReviewTypeOK, DurationsAddUp, Abstention, MatchesAgree, Improvements DEF PlayReviewHonest
<1>. QED BY <1>1, <1>2, <1>3, PTL DEF Spec

-----------------------------------------------------------------------------
(* Play history: the analyses that are compared.                            *)

\* The identifier that is taken next is one of those left.
LEMMA GreatestChosen ==
    ASSUME NEW h, History(h)!HistoryWellFormed, NEW S \in SUBSET h.ids, S # {}
    PROVE  History(h)!Max(S) \in S
<1>1. h.ids \subseteq Nat /\ IsFiniteSet(h.ids)
  BY SameCounts DEF History!HistoryWellFormed
<1>2. IsFiniteSet(S) BY <1>1, FS_Subset
<1>3. S \in SUBSET Nat BY <1>1
<1>4. PICK x \in S : \A y \in S : y <= x BY <1>2, <1>3, ExtremesExist
<1>5. \A y \in S : x >= y BY <1>3, <1>4
<1>. QED BY <1>5 DEF History!Max

\* What an analysis that contributes was judged from.
Judged(job) == /\ job.verified /\ job.completed /\ job.current /\ job.pickleball
               /\ job.signals = "strong" /\ job.readiness \in {"good", "limited"}
               /\ job.status = "completed"

\* Legacy evidence makes an analysis unfinished, so a complete one is current;
\* and only a readiness assessment has signals.
ProjectedFrom(job) == /\ job.completed => job.current
                      /\ job.readiness = "none" => job.signals = "none"

HistoryInv(h) ==
    /\ DOMAIN library \subseteq h.ids /\ \A a \in DOMAIN library : library[a] \in h.jobs
    /\ phase \in {"idle", "judging", "reports", "confidence", "answered",
                  "scanning", "paging", "shown", "failed"}
    /\ listed \subseteq h.ids /\ edits \in 0 .. h.changes
    /\ pending = {} \/ \E p \in pending : pending = {p}
    /\ \A p \in pending : /\ p.id \in h.ids \ listed /\ p.job \in History(h)!Job
                          /\ ProjectedFrom(p.job)
    /\ DOMAIN items \subseteq h.ids \ listed /\ (items # <<>> => DOMAIN items # {})
    /\ \A a \in DOMAIN items :
          items[a].measured => items[a].job.verified /\ items[a].job.completed /\ items[a].job.current
    /\ \A a \in History(h)!Included : Judged(items[a].job)
    /\ DOMAIN reports \subseteq History(h)!Included /\ DOMAIN confidences \subseteq History(h)!Included
    /\ "jobs" \in DOMAIN page /\ DOMAIN page.jobs \subseteq h.ids
    \* nothing is judged before the list is complete, nor read again before all are judged
    /\ phase \in {"idle", "scanning"} => pending = {} /\ DOMAIN items = {}
    /\ phase \in {"idle", "scanning", "judging", "paging"} => DOMAIN reports = {} /\ DOMAIN confidences = {}

LEMMA HistoryInit ==
    ASSUME NEW h, History(h)!HistoryWellFormed, History(h)!Init PROVE HistoryInv(h)
<1>1. DOMAIN <<>> = {} OBVIOUS
<1>2. h.changes \in Nat BY DEF History!HistoryWellFormed
<1>3. PICK S \in SUBSET h.ids : library \in [S -> h.jobs] BY DEF History!Init
<1>4. page = [filter |-> "ALL", limit |-> 0, offset |-> 0, jobs |-> <<>>]
  BY DEF History!Init, History!NoPage
<1>5. "jobs" \in DOMAIN page /\ DOMAIN page.jobs = {} BY <1>1, <1>4
<1>. QED BY <1>1, <1>2, <1>3, <1>5 DEF History!Init, HistoryInv, History!Included

LEMMA ProjectedJob ==
    ASSUME NEW h, History(h)!HistoryWellFormed, NEW j \in h.jobs
    PROVE  History(h)!Projected(j) \in History(h)!Job /\ ProjectedFrom(History(h)!Projected(j))
<1>1. j \in History(h)!Job /\ (j.readiness = "none" => j.signals = "none")
  BY DEF History!HistoryWellFormed
<1>. QED BY <1>1 DEF History!Projected, History!Job, History!Quality, ProjectedFrom

LEMMA IncludedJudged ==
    ASSUME NEW h, History(h)!HistoryWellFormed, NEW j \in History(h)!Job, ProjectedFrom(j), NEW analytics, NEW iq,
           History(h)!Contribution(j, analytics, iq) = "included"
    PROVE  Judged(j)
<1>1. j.signals \in {"none", "weak", "strong"} /\ j.pickleball \in BOOLEAN
      /\ j.verified \in BOOLEAN /\ j.completed \in BOOLEAN /\ j.current \in BOOLEAN
      /\ j.status \in {"pending", "processing", "completed", "failed"}
      /\ j.readiness \in {"none", "good", "limited", "unsuitable"}
  BY DEF History!Job, History!Quality
<1>. QED BY <1>1 DEF History!Contribution, Judged, ProjectedFrom

\* What neither the judgements nor the second reads change.
LEMMA HistoryKept ==
    ASSUME NEW h, History(h)!HistoryWellFormed, HistoryInv(h), UNCHANGED <<pending, items, reports, confidences>>,
           DOMAIN library' \subseteq h.ids, \A a \in DOMAIN library' : library'[a] \in h.jobs,
           edits' \in 0 .. h.changes, listed' \subseteq h.ids,
           "jobs" \in DOMAIN page', DOMAIN page'.jobs \subseteq h.ids,
           listed' \subseteq listed \/ phase \in {"idle", "scanning"},
           \/ phase' = phase
           \/ phase' \in {"failed", "shown", "reports", "confidence", "answered"}
           \/ phase' \in {"judging", "scanning", "paging"} /\ phase \in {"idle", "scanning"}
    PROVE  HistoryInv(h)'
<1>1. History(h)!Included' = History(h)!Included BY DEF History!Included
<1>2. /\ \A p \in pending : p.id \notin listed'
      /\ \A a \in DOMAIN items : a \notin listed'
  BY DEF HistoryInv
<1>. QED BY <1>1, <1>2 DEF HistoryInv

LEMMA HistoryStep ==
    ASSUME NEW h, History(h)!HistoryWellFormed, HistoryInv(h), [History(h)!Next]_historyVars
    PROVE  HistoryInv(h)'
<1>. USE DEF HistoryInv
<1>1. ASSUME History(h)!ListJobs PROVE HistoryInv(h)' BY <1>1, HistoryKept DEF History!ListJobs
<1>2. ASSUME History(h)!ProjectJob PROVE HistoryInv(h)'
  <2>. DEFINE a == History(h)!Max(listed)
  <2>1. CASE a \notin DOMAIN library
    BY <1>2, <2>1, HistoryKept DEF History!ProjectJob
  <2>2. CASE a \in DOMAIN library
    <3>1. /\ pending' = {[id |-> a, job |-> History(h)!Projected(library[a])]}
          /\ listed' = listed \ {a} /\ phase' = phase /\ phase \in {"judging", "paging"}
          /\ UNCHANGED <<library, items, reports, confidences, page, edits>>
      BY <1>2, <2>2 DEF History!ProjectJob
    <3>2. library[a] \in h.jobs /\ a \in h.ids BY <2>2
    <3>3. History(h)!Included' = History(h)!Included BY <3>1 DEF History!Included
    <3>. HIDE DEF a
    <3>4. \A p \in pending' : /\ p.id \in h.ids \ listed' /\ p.job \in History(h)!Job
                              /\ ProjectedFrom(p.job)
      BY <3>1, <3>2, ProjectedJob
    <3>5. \E p : pending' = {p} BY <3>1
    <3>6. /\ listed' \subseteq h.ids /\ DOMAIN items \subseteq h.ids \ listed'
      BY <3>1
    <3>. QED BY <3>1, <3>3, <3>4, <3>5, <3>6
  <2>. QED BY <2>1, <2>2
<1>3. ASSUME History(h)!ProjectArtifacts PROVE HistoryInv(h)'
  <2>. DEFINE read(p) == p.job.verified /\ p.job.completed
              analytics(p) == IF read(p) THEN History(h)!LoadAnalytics(p.id) ELSE History(h)!NoReport
              iq(p) == IF read(p) THEN History(h)!LoadMatchIQ(p.id) ELSE History(h)!NoConfidence
  <2>1. PICK p \in pending :
            items' = [b \in DOMAIN items \union {p.id} |->
                         IF b = p.id THEN [job |-> p.job,
                                           status |-> History(h)!Contribution(p.job, analytics(p), iq(p)),
                                           measured |-> analytics(p).present]
                         ELSE items[b]]
    BY <1>3, Zenon DEF History!ProjectArtifacts
  <2>. HIDE DEF analytics, iq
  <2>2. /\ pending' = {} /\ phase \in {"judging", "paging"}
        /\ UNCHANGED <<library, phase, listed, reports, confidences, page, edits>>
    BY <1>3 DEF History!ProjectArtifacts
  <2>3. DOMAIN items' = DOMAIN items \union {p.id} BY <2>1
  <2>4. ASSUME NEW b \in DOMAIN items', items'[b].status = "included" PROVE Judged(items'[b].job)
    <3>1. CASE b = p.id BY <2>1, <2>4, <3>1, IncludedJudged
    <3>2. CASE b # p.id BY <2>1, <2>3, <2>4, <3>2 DEF History!Included
    <3>. QED BY <3>1, <3>2
  <2>5. \A b \in History(h)!Included' : Judged(items'[b].job) BY <2>4 DEF History!Included
  <2>6. ASSUME NEW b \in DOMAIN items', items'[b].measured
        PROVE  items'[b].job.verified /\ items'[b].job.completed /\ items'[b].job.current
    <3>1. CASE b = p.id
      <4>1. items'[b].job = p.job /\ analytics(p).present BY <2>1, <2>6, <3>1
      <4>2. read(p) BY <4>1 DEF analytics, History!NoReport
      <4>. QED BY <4>1, <4>2 DEF ProjectedFrom
    <3>2. CASE b # p.id BY <2>1, <2>3, <2>6, <3>2
    <3>. QED BY <3>1, <3>2
  <2>7. items' # <<>> => DOMAIN items' # {} BY <2>3
  <2>. QED BY <2>2, <2>3, <2>5, <2>6, <2>7
<1>4. ASSUME History(h)!Judged PROVE HistoryInv(h)' BY <1>4, HistoryKept DEF History!Judged
<1>5. ASSUME History(h)!ReadAnalytics PROVE HistoryInv(h)'
  <2>. DEFINE left == History(h)!Included \ DOMAIN reports
              b == History(h)!Max(left)
  <2>1. CASE left = {} BY <1>5, <2>1, HistoryKept DEF History!ReadAnalytics
  <2>2. CASE left # {}
    <3>1. DOMAIN reports' = DOMAIN reports \union {b} /\ phase' = phase /\ phase = "reports"
          /\ UNCHANGED <<library, listed, pending, items, confidences, page, edits>>
      BY <1>5, <2>2 DEF History!ReadAnalytics
    <3>2. left \in SUBSET h.ids BY DEF History!Included
    <3>3. b \in left BY <2>2, <3>2, GreatestChosen
    <3>4. History(h)!Included' = History(h)!Included BY <3>1 DEF History!Included
    <3>. QED BY <3>1, <3>3, <3>4
  <2>. QED BY <2>1, <2>2
<1>6. ASSUME History(h)!ReadMatchIQ PROVE HistoryInv(h)'
  <2>. DEFINE left == History(h)!Included \ DOMAIN confidences
              b == History(h)!Max(left)
  <2>1. CASE left = {} BY <1>6, <2>1, HistoryKept DEF History!ReadMatchIQ
  <2>2. CASE left # {}
    <3>1. DOMAIN confidences' = DOMAIN confidences \union {b} /\ phase' = phase /\ phase = "confidence"
          /\ UNCHANGED <<library, listed, pending, items, reports, page, edits>>
      BY <1>6, <2>2 DEF History!ReadMatchIQ
    <3>2. left \in SUBSET h.ids BY DEF History!Included
    <3>3. b \in left BY <2>2, <3>2, GreatestChosen
    <3>4. History(h)!Included' = History(h)!Included BY <3>1 DEF History!Included
    <3>. QED BY <3>1, <3>3, <3>4
  <2>. QED BY <2>1, <2>2
<1>7. ASSUME NEW f, NEW n, NEW k, History(h)!OpenHistory(f, n, k) PROVE HistoryInv(h)'
  <2>1. page' = [filter |-> f, limit |-> n, offset |-> k, jobs |-> <<>>]
    BY <1>7 DEF History!OpenHistory
  <2>2. "jobs" \in DOMAIN page' /\ DOMAIN page'.jobs = {} BY <2>1
  <2>. QED BY <1>7, <2>2, HistoryKept DEF History!OpenHistory
<1>8. ASSUME History(h)!ScanMetadata PROVE HistoryInv(h)'
  <2>. DEFINE a == History(h)!Max(listed)
  <2>1. CASE a \notin DOMAIN library BY <1>8, <2>1, HistoryKept DEF History!ScanMetadata
  <2>2. CASE a \in DOMAIN library
    <3>1. /\ page' = [page EXCEPT !.jobs = [b \in DOMAIN page.jobs \union {a} |->
                                                IF b = a THEN library[a] ELSE page.jobs[b]]]
          /\ listed' = listed \ {a} /\ phase' = phase
          /\ UNCHANGED <<library, pending, items, reports, confidences, edits>>
      BY <1>8, <2>2 DEF History!ScanMetadata
    <3>2. "jobs" \in DOMAIN page' /\ DOMAIN page'.jobs = DOMAIN page.jobs \union {a} BY <3>1
    <3>3. a \in h.ids BY <2>2
    <3>. HIDE DEF a
    <3>. QED BY <3>1, <3>2, <3>3, HistoryKept
  <2>. QED BY <2>1, <2>2
<1>9. ASSUME History(h)!SlicePage PROVE HistoryInv(h)'
  <2>1. History(h)!Slice \subseteq h.ids BY DEF History!Slice, History!Latest, History!Matching
  <2>. QED BY <1>9, <2>1, HistoryKept DEF History!SlicePage
<1>10. ASSUME History(h)!ShowPage PROVE HistoryInv(h)' BY <1>10, HistoryKept DEF History!ShowPage
<1>11. ASSUME NEW a \in h.ids, NEW j \in h.jobs, History(h)!ChangeAnalysis(a, j)
       PROVE  HistoryInv(h)'
  <2>1. h.changes \in Nat BY DEF History!HistoryWellFormed
  <2>2. /\ library' = [b \in DOMAIN library \union {a} |-> IF b = a THEN j ELSE library[b]]
        /\ edits < h.changes /\ edits' = edits + 1
        /\ UNCHANGED <<phase, listed, pending, items, reports, confidences, page>>
    BY <1>11 DEF History!ChangeAnalysis
  <2>3. DOMAIN library' = DOMAIN library \union {a} /\ \A b \in DOMAIN library' : library'[b] \in h.jobs
    BY <2>2
  <2>4. edits' \in 0 .. h.changes BY <2>1, <2>2
  <2>. QED BY <2>2, <2>3, <2>4, HistoryKept
<1>12. ASSUME NEW a \in h.ids, History(h)!DeleteAnalysis(a) PROVE HistoryInv(h)'
  <2>1. h.changes \in Nat BY DEF History!HistoryWellFormed
  <2>2. /\ library' = [b \in DOMAIN library \ {a} |-> library[b]]
        /\ edits < h.changes /\ edits' = edits + 1
        /\ UNCHANGED <<phase, listed, pending, items, reports, confidences, page>>
    BY <1>12 DEF History!DeleteAnalysis
  <2>3. DOMAIN library' = DOMAIN library \ {a} /\ \A b \in DOMAIN library' : library'[b] \in h.jobs
    BY <2>2
  <2>4. edits' \in 0 .. h.changes BY <2>1, <2>2
  <2>. QED BY <2>2, <2>3, <2>4, HistoryKept
<1>13. CASE UNCHANGED historyVars BY <1>13, HistoryKept DEF historyVars
<1>. QED BY <1>1, <1>2, <1>3, <1>4, <1>5, <1>6, <1>7, <1>8, <1>9, <1>10, <1>11, <1>12, <1>13
         DEF History!Next, History!Request, History!PageRequest

LEMMA HistoryConsequence ==
    ASSUME NEW h, History(h)!HistoryWellFormed, HistoryInv(h)
    PROVE  History(h)!TypeOK /\ History(h)!ComparedAreSound
<1>1. Cardinality(pending) <= 1
  <2>1. Cardinality({}) = 0 BY FS_EmptySet
  <2>2. ASSUME NEW p, pending = {p} PROVE Cardinality(pending) = 1
    <3>1. Cardinality({p}) = 1 BY FS_Singleton
    <3>. QED BY <2>2, <3>1
  <2>3. pending = {} \/ \E p : pending = {p} BY DEF HistoryInv
  <2>4. Cardinality(pending) = 0 \/ Cardinality(pending) = 1 BY <2>1, <2>2, <2>3
  <2>. QED BY <2>4
<1>2. History(h)!TypeOK BY <1>1, SameCounts DEF HistoryInv, History!TypeOK
<1>3. \A a \in History(h)!Earlier \union History(h)!Recent : a \in History(h)!ComparableReports
  BY DEF History!Earlier, History!Recent, History!Earliest, History!Latest, History!Window
<1>4. ASSUME NEW a \in History(h)!ComparableReports
      PROVE  /\ reports[a].observed > 0 /\ reports[a].tracked > 0
             /\ "weak" \notin {confidences[a].tracking, confidences[a].measurement}
             /\ Judged(items[a].job)
  BY DEF HistoryInv, History!ComparableReports, History!Comparable
<1>. QED BY <1>2, <1>3, <1>4 DEF History!ComparedAreSound, Judged

\* For any library, with analyses changed or deleted between the two reads of a
\* report, what is compared is qualified (PlayHistoryService, evaluate_comparability).
THEOREM ComparisonTheorem == Spec => []ComparedAreSound
<1>. DEFINE Inv == focus = "compared" => HistoryInv(Comparing)
<1>1. Init => Inv BY WellFormed, HistoryInit DEF WellFormed, Init, Histories
<1>2. Inv /\ [Next]_vars => Inv'
  <2>. SUFFICES ASSUME Inv, [Next]_vars, focus' = "compared" PROVE HistoryInv(Comparing)'
    OBVIOUS
  <2>1. focus = "compared" /\ [History(Comparing)!Next]_historyVars BY DEF Next, vars, Histories
  <2>. QED BY <2>1, WellFormed, HistoryStep DEF WellFormed
<1>3. Inv => ComparedAreSound BY WellFormed, HistoryConsequence DEF WellFormed, ComparedAreSound
<1>. QED BY <1>1, <1>2, <1>3, PTL DEF Spec

-----------------------------------------------------------------------------
(* The newest and the oldest of a set of analyses.                          *)

Newer == {p \in Nat \X Nat : p[1] > p[2]}
Older == {p \in Nat \X Nat : p[1] < p[2]}

\* Taken from one end of the order of creation, n analyses are n unless there
\* are fewer, and they are beyond all the others.
LEMMA LatestIs ==
    ASSUME NEW h, NEW S \in SUBSET Nat, IsFiniteSet(S), NEW n \in Nat
    PROVE  /\ Cardinality(S) \in Nat /\ IsFiniteSet(History(h)!Latest(S, n))
           /\ History(h)!Latest(S, n) \in SUBSET S
           /\ Cardinality(History(h)!Latest(S, n)) = IF n <= Cardinality(S) THEN n ELSE Cardinality(S)
           /\ \A a \in History(h)!Latest(S, n) : \A b \in S \ History(h)!Latest(S, n) : b < a
<1>1. Orders(Newer, S) BY DEF Orders, Newer
<1>2. \A a \in S : Preceding(Newer, S, a) = {b \in S : b > a} BY DEF Preceding, Newer
<1>3. History(h)!Latest(S, n) = Firsts(Newer, S, n) BY <1>2, SameCounts DEF History!Latest, Firsts
<1>4. \A a, b \in S : <<a, b>> \in Newer => b < a BY DEF Newer
<1>5. Firsts(Newer, S, n) \in SUBSET S BY DEF Firsts
<1>6. /\ Cardinality(S) \in Nat /\ IsFiniteSet(Firsts(Newer, S, n))
      /\ Cardinality(Firsts(Newer, S, n)) = IF n <= Cardinality(S) THEN n ELSE Cardinality(S)
      /\ \A a \in Firsts(Newer, S, n) : \A b \in S \ Firsts(Newer, S, n) : <<a, b>> \in Newer
  BY <1>1, FirstsAre
<1>. QED BY <1>3, <1>4, <1>5, <1>6

LEMMA EarliestIs ==
    ASSUME NEW h, NEW S \in SUBSET Nat, IsFiniteSet(S), NEW n \in Nat
    PROVE  /\ Cardinality(S) \in Nat /\ IsFiniteSet(History(h)!Earliest(S, n))
           /\ History(h)!Earliest(S, n) \in SUBSET S
           /\ Cardinality(History(h)!Earliest(S, n)) = IF n <= Cardinality(S) THEN n ELSE Cardinality(S)
           /\ \A a \in History(h)!Earliest(S, n) : \A b \in S \ History(h)!Earliest(S, n) : a < b
<1>1. Orders(Older, S) BY DEF Orders, Older
<1>2. \A a \in S : Preceding(Older, S, a) = {b \in S : b < a} BY DEF Preceding, Older
<1>3. History(h)!Earliest(S, n) = Firsts(Older, S, n) BY <1>2, SameCounts DEF History!Earliest, Firsts
<1>4. \A a, b \in S : <<a, b>> \in Older => a < b BY DEF Older
<1>5. Firsts(Older, S, n) \in SUBSET S BY DEF Firsts
<1>6. /\ Cardinality(S) \in Nat /\ IsFiniteSet(Firsts(Older, S, n))
      /\ Cardinality(Firsts(Older, S, n)) = IF n <= Cardinality(S) THEN n ELSE Cardinality(S)
      /\ \A a \in Firsts(Older, S, n) : \A b \in S \ Firsts(Older, S, n) : <<a, b>> \in Older
  BY <1>1, FirstsAre
<1>. QED BY <1>3, <1>4, <1>5, <1>6

\* Two halves from the two ends do not meet: fewer than n before one analysis,
\* fewer than n after another that is not later, and all are counted.
LEMMA HalvesApart ==
    ASSUME NEW h, NEW S \in SUBSET Nat, IsFiniteSet(S), NEW n \in Nat, n + n <= Cardinality(S),
           NEW a \in History(h)!Earliest(S, n), NEW b \in History(h)!Latest(S, n)
    PROVE  a < b
<1>. SUFFICES ASSUME ~(a < b) PROVE FALSE OBVIOUS
<1>. DEFINE before == {c \in S : c < a}
            after == {c \in S : c > b}
<1>1. /\ a \in S /\ Cardinality(before) < n /\ b \in S /\ Cardinality(after) < n
  BY SameCounts DEF History!Earliest, History!Latest
<1>2. IsFiniteSet(before) /\ IsFiniteSet(after) /\ IsFiniteSet({a}) /\ Cardinality({a}) = 1
  BY FS_Subset, FS_Singleton
<1>3. S = (before \union after) \union {a}
  <2>1. \A c \in S : c < a \/ c > b \/ c = a BY <1>1
  <2>. QED BY <1>1, <2>1
<1>. HIDE DEF before, after
<1>4. /\ IsFiniteSet(before \union after)
      /\ Cardinality(before \union after) <= Cardinality(before) + Cardinality(after)
  BY <1>2, TogetherAtMost
<1>5. Cardinality(S) <= Cardinality(before \union after) + Cardinality({a}) BY <1>2, <1>3, <1>4, TogetherAtMost
<1>6. /\ Cardinality(before) \in Nat /\ Cardinality(after) \in Nat /\ Cardinality(S) \in Nat
      /\ Cardinality(before \union after) \in Nat
  BY <1>2, <1>4, FS_CardinalityType
<1>. QED BY <1>1, <1>2, <1>4, <1>5, <1>6

-----------------------------------------------------------------------------
(* The two groups of a comparison.                                          *)

LEMMA IncludedAre ==
    ASSUME NEW h, History(h)!HistoryWellFormed, HistoryInv(h)
    PROVE  /\ History(h)!Included \in SUBSET h.ids /\ h.ids \in SUBSET Nat /\ IsFiniteSet(h.ids)
           /\ IsFiniteSet(History(h)!Included) /\ Cardinality(History(h)!Included) \in Nat
           /\ History(h)!ComparableReports \in SUBSET History(h)!Included
           /\ History(h)!ComparableReports \in SUBSET Nat /\ IsFiniteSet(History(h)!ComparableReports)
           /\ Cardinality(History(h)!ComparableReports) <= Cardinality(History(h)!Included)
<1>1. h.ids \in SUBSET Nat /\ IsFiniteSet(h.ids) BY SameCounts DEF History!HistoryWellFormed
<1>2. History(h)!Included \in SUBSET h.ids BY DEF HistoryInv, History!Included
<1>3. History(h)!ComparableReports \in SUBSET History(h)!Included BY DEF History!ComparableReports
<1>4. IsFiniteSet(History(h)!Included) BY <1>1, <1>2, FS_Subset
<1>5. IsFiniteSet(History(h)!ComparableReports) BY <1>3, <1>4, FS_Subset
<1>6. /\ Cardinality(History(h)!ComparableReports) <= Cardinality(History(h)!Included)
      /\ Cardinality(History(h)!Included) \in Nat
  BY <1>3, <1>4, PartIsSmaller
<1>. QED BY <1>1, <1>2, <1>3, <1>4, <1>5, <1>6

\* The comparable reports of the window, halved; from four reports on.
LEMMA GroupsAre ==
    ASSUME NEW h, History(h)!HistoryWellFormed, HistoryInv(h)
    PROVE  LET C == History(h)!ComparableReports
               W == History(h)!Window
               E == History(h)!Earlier
               R == History(h)!Recent
               g == History(h)!GroupSize
           IN  /\ W \in SUBSET C /\ E \in SUBSET W /\ R \in SUBSET W
               /\ IsFiniteSet(W) /\ IsFiniteSet(E) /\ IsFiniteSet(R)
               /\ Cardinality(C) \in Nat /\ Cardinality(W) \in Nat /\ g \in Nat
               /\ Cardinality(W) <= h.reports /\ h.reports \in Nat
               /\ Cardinality(C) <= 3 => E = {} /\ R = {}
               /\ Cardinality(C) > 3 => /\ Cardinality(W) > 3 /\ g > 1
                                        /\ Cardinality(E) = g /\ Cardinality(R) = g
                                        /\ g + g <= Cardinality(W) /\ Cardinality(W) <= g + g + 1
               /\ \A a \in E, b \in R : a < b
<1>. DEFINE C == History(h)!ComparableReports
            W == History(h)!Window
            E == History(h)!Earlier
            R == History(h)!Recent
            g == History(h)!GroupSize
<1>1. C \in SUBSET Nat /\ IsFiniteSet(C) BY IncludedAre
<1>2. h.reports \in Nat /\ h.reports > 3 BY DEF History!HistoryWellFormed
<1>3. /\ Cardinality(C) \in Nat /\ IsFiniteSet(W) /\ W \in SUBSET C
      /\ Cardinality(W) = IF h.reports <= Cardinality(C) THEN h.reports ELSE Cardinality(C)
  BY <1>1, <1>2, LatestIs DEF History!Window
<1>4. Cardinality(W) \in Nat /\ Cardinality(W) <= h.reports /\ (Cardinality(C) > 3 <=> Cardinality(W) > 3)
  BY <1>2, <1>3
<1>5. g = Cardinality(W) \div 2 BY SameCounts DEF History!GroupSize
<1>6. g \in Nat /\ g + g <= Cardinality(W) /\ Cardinality(W) <= g + g + 1 BY <1>4, <1>5
<1>7. W \in SUBSET Nat BY <1>1, <1>3
<1>8. /\ Cardinality(W) < 4 => E = {} /\ R = {}
      /\ ~(Cardinality(W) < 4) => E = History(h)!Earliest(W, g) /\ R = History(h)!Latest(W, g)
  BY SameCounts DEF History!Earlier, History!Recent, History!TrendMinimum
<1>. HIDE DEF C, W, E, R, g
<1>9. CASE Cardinality(C) <= 3
  <2>1. E = {} /\ R = {} BY <1>3, <1>4, <1>8, <1>9
  <2>2. IsFiniteSet(E) /\ IsFiniteSet(R) BY <2>1, FS_EmptySet
  <2>. QED BY <1>2, <1>3, <1>4, <1>6, <1>9, <2>1, <2>2 DEF C, W, E, R, g
<1>10. CASE Cardinality(C) > 3
  <2>1. Cardinality(W) > 3 /\ g > 1 BY <1>3, <1>4, <1>6, <1>10
  <2>2. E = History(h)!Earliest(W, g) /\ R = History(h)!Latest(W, g) BY <1>4, <1>8, <2>1
  <2>3. g <= Cardinality(W) BY <1>4, <1>6
  <2>4. IsFiniteSet(E) /\ E \in SUBSET W /\ Cardinality(E) = g BY <1>3, <1>6, <1>7, <2>2, <2>3, EarliestIs
  <2>5. IsFiniteSet(R) /\ R \in SUBSET W /\ Cardinality(R) = g BY <1>3, <1>6, <1>7, <2>2, <2>3, LatestIs
  <2>6. \A a \in E, b \in R : a < b BY <1>3, <1>6, <1>7, <2>2, HalvesApart
  <2>. QED BY <1>2, <1>3, <1>4, <1>6, <1>10, <2>1, <2>4, <2>5, <2>6 DEF C, W, E, R, g
<1>. QED BY <1>3, <1>9, <1>10

LEMMA GroupsBalance ==
    ASSUME NEW h, History(h)!HistoryWellFormed, HistoryInv(h)
    PROVE  History(h)!GroupsBalanced
<1>. DEFINE C == History(h)!ComparableReports
            W == History(h)!Window
            E == History(h)!Earlier
            R == History(h)!Recent
            g == History(h)!GroupSize
            M == History(h)!Middle
<1>1. /\ W \in SUBSET C /\ E \in SUBSET W /\ R \in SUBSET W
      /\ IsFiniteSet(W) /\ IsFiniteSet(E) /\ IsFiniteSet(R)
      /\ Cardinality(C) \in Nat /\ Cardinality(W) \in Nat /\ g \in Nat
      /\ Cardinality(W) <= h.reports /\ h.reports \in Nat
      /\ \A a \in E, b \in R : a < b
  BY GroupsAre
<1>2. Cardinality(C) <= 3 => E = {} /\ R = {} BY GroupsAre
<1>3. Cardinality(C) > 3 => /\ Cardinality(W) > 3 /\ g > 1
                            /\ Cardinality(E) = g /\ Cardinality(R) = g
                            /\ g + g <= Cardinality(W) /\ Cardinality(W) <= g + g + 1
  BY GroupsAre
<1>4. W \in SUBSET Nat BY <1>1, IncludedAre
<1>5. E \intersect R = {} BY <1>1, <1>4
<1>6. Cardinality(E) = Cardinality(R) BY <1>1, <1>2, <1>3
<1>7. E \union R \in SUBSET W BY <1>1
<1>8. Cardinality(E \union R) <= h.reports
  <2>1. Cardinality(E \union R) <= Cardinality(W) /\ Cardinality(E \union R) \in Nat
    BY <1>1, <1>7, PartIsSmaller
  <2>. QED BY <1>1, <2>1
<1>9. ASSUME E # {}
      PROVE  /\ Cardinality(E) >= 2 /\ E \union R \union History(h)!Omitted = C
             /\ Cardinality(M) <= 1
  <2>1. Cardinality(C) > 3 BY <1>1, <1>2, <1>9
  <2>2. Cardinality(E) >= 2 BY <1>1, <1>3, <2>1
  <2>3. M = W \ (E \union R) BY <1>1, <1>3, <2>1, SameCounts DEF History!Middle, History!TrendMinimum
  <2>4. E \union R \union ((C \ W) \union M) = C BY <1>1, <2>3
  <2>5. E \union R \union History(h)!Omitted = C BY <2>4 DEF History!Omitted
  <2>. HIDE DEF C, W, E, R, g, M
  <2>6. Cardinality(E \union R) + Cardinality(M) = Cardinality(W) /\ Cardinality(M) \in Nat
    BY <1>1, <1>7, <2>3, PartsAddUp
  <2>7. Cardinality(E \union R) = Cardinality(E) + Cardinality(R)
    <3>1. IsFiniteSet(E \union R) BY <1>1, <1>7, FS_Subset
    <3>. QED BY <1>5, <3>1, ApartAddUp
  <2>8. Cardinality(M) <= 1 BY <1>1, <1>3, <2>1, <2>6, <2>7
  <2>. QED BY <2>2, <2>5, <2>8 DEF C, E, R, M
<1>. QED BY <1>1, <1>5, <1>6, <1>8, <1>9, SameCounts DEF History!GroupsBalanced, History!GroupMinimum

-----------------------------------------------------------------------------
(* What the page announces.                                                 *)

\* Everything the page announces follows from the number of comparable reports.
LEMMA AnnouncedIs ==
    ASSUME NEW h, History(h)!HistoryWellFormed, HistoryInv(h)
    PROVE  LET n == Cardinality(History(h)!ComparableReports) IN
           /\ n \in Nat
           /\ History(h)!Trend = IF n < 3 THEN "ineligible" ELSE "provisional"
           /\ History(h)!MetricsShown <=> n > 3
           /\ n < 3 => History(h)!BaselineStatus \in
                           {"NO_QUALIFIED_REPORTS", "BUILDING_BASELINE", "MIXED_OR_INCOMPATIBLE_REPORTS"}
           /\ n = 3 => History(h)!BaselineStatus = "BASELINE_ESTABLISHED"
           /\ n > 3 => History(h)!BaselineStatus = "COMPARISON_AVAILABLE"
<1>. DEFINE n == Cardinality(History(h)!ComparableReports)
            k == Cardinality(History(h)!Included)
            E == History(h)!Earlier
            R == History(h)!Recent
            g == History(h)!GroupSize
<1>1. n \in Nat /\ g \in Nat /\ (n <= 3 => E = {} /\ R = {}) BY GroupsAre
<1>2. n > 3 => g > 1 /\ Cardinality(E) = g /\ Cardinality(R) = g BY GroupsAre
<1>3. k \in Nat /\ n <= k BY IncludedAre
<1>4. History(h)!Included = {} => k = 0 BY FS_EmptySet
<1>5. n > 3 => E # {} /\ R # {}
  <2>1. Cardinality({}) = 0 BY FS_EmptySet
  <2>. QED BY <1>1, <1>2, <2>1
<1>6. History(h)!Trend = IF n < 3 THEN "ineligible" ELSE "provisional"
  <2>1. History(h)!Trend = IF n < 3 THEN "ineligible" ELSE IF n = 3 THEN "provisional"
                           ELSE IF Cardinality(E) < 2 \/ Cardinality(R) < 2 THEN "ineligible" ELSE "provisional"
    BY SameCounts DEF History!Trend, History!Baseline, History!GroupMinimum
  <2>. HIDE DEF n, E, R, g
  <2>. QED BY <1>1, <1>2, <2>1
<1>7. History(h)!MetricsShown <=> n > 3
  <2>1. History(h)!MetricsShown <=> E # {} /\ R # {} /\ History(h)!Trend = "provisional"
    BY DEF History!MetricsShown
  <2>. HIDE DEF n, E, R, g
  <2>. QED BY <1>1, <1>5, <1>6, <2>1
<1>8. History(h)!BaselineStatus =
        CASE History(h)!Included = {} -> "NO_QUALIFIED_REPORTS"
          [] n < 3 /\ k >= 3 -> "MIXED_OR_INCOMPATIBLE_REPORTS"
          [] History(h)!Included # {} /\ n < 3 /\ k < 3 -> "BUILDING_BASELINE"
          [] n = 3 -> "BASELINE_ESTABLISHED"
          [] n > 3 /\ History(h)!Trend = "ineligible" -> "MIXED_OR_INCOMPATIBLE_REPORTS"
          [] OTHER -> "COMPARISON_AVAILABLE"
  BY SameCounts DEF History!BaselineStatus, History!Baseline
<1>. HIDE DEF n, k, E, R, g
<1>9. /\ n < 3 => History(h)!BaselineStatus \in
                      {"NO_QUALIFIED_REPORTS", "BUILDING_BASELINE", "MIXED_OR_INCOMPATIBLE_REPORTS"}
      /\ n = 3 => History(h)!BaselineStatus = "BASELINE_ESTABLISHED"
      /\ n > 3 => History(h)!BaselineStatus = "COMPARISON_AVAILABLE"
  BY <1>1, <1>3, <1>4, <1>6, <1>8
<1>. QED BY <1>1, <1>6, <1>7, <1>9 DEF n

LEMMA StatusMatches ==
    ASSUME NEW h, History(h)!HistoryWellFormed, HistoryInv(h)
    PROVE  History(h)!StatusMatchesMetrics
<1>. DEFINE n == Cardinality(History(h)!ComparableReports)
<1>1. n \in Nat /\ (n <= 3 => History(h)!Earlier = {}) BY GroupsAre
<1>2. /\ History(h)!Trend = IF n < 3 THEN "ineligible" ELSE "provisional"
      /\ History(h)!MetricsShown <=> n > 3
  BY AnnouncedIs
<1>3. /\ n < 3 => History(h)!BaselineStatus \in
                      {"NO_QUALIFIED_REPORTS", "BUILDING_BASELINE", "MIXED_OR_INCOMPATIBLE_REPORTS"}
      /\ n = 3 => History(h)!BaselineStatus = "BASELINE_ESTABLISHED"
      /\ n > 3 => History(h)!BaselineStatus = "COMPARISON_AVAILABLE"
  BY AnnouncedIs
<1>. HIDE DEF n
<1>4. n < 3 \/ n = 3 \/ n > 3 BY <1>1
<1>5. n = 3 => ~(n > 3) /\ n <= 3 /\ ~(n < 3) OBVIOUS
<1>6. n < 3 => ~(n > 3) /\ n # 3 BY <1>1
<1>7. n > 3 => ~(n < 3) /\ n # 3 BY <1>1
<1>. QED BY <1>1, <1>2, <1>3, <1>4, <1>5, <1>6, <1>7 DEF History!StatusMatchesMetrics

-----------------------------------------------------------------------------
(* The reports read again, and sums over them.                              *)

\* Every included analysis has been read again before the confidences are.
ReadInv(h) == /\ \A a \in DOMAIN reports : reports[a] \in History(h)!Report
              /\ phase \in {"confidence", "answered"} => History(h)!Included \subseteq DOMAIN reports

LEMMA ReadInit ==
    ASSUME NEW h, History(h)!HistoryWellFormed, History(h)!Init PROVE ReadInv(h)
<1>1. DOMAIN reports = {} /\ phase = "idle" BY DEF History!Init
<1>. QED BY <1>1 DEF ReadInv

\* What is read of an analysis is a report, or None.
LEMMA LoadedReport ==
    ASSUME NEW h, History(h)!HistoryWellFormed, HistoryInv(h), NEW a
    PROVE  History(h)!LoadAnalytics(a) \in History(h)!Report
<1>1. CASE History(h)!Resolved(a)
  <2>1. library[a] \in History(h)!Job
    BY <1>1 DEF History!Resolved, HistoryInv, History!HistoryWellFormed
  <2>. QED BY <1>1, <2>1 DEF History!LoadAnalytics, History!Job
<1>2. CASE ~History(h)!Resolved(a)
  BY <1>2 DEF History!LoadAnalytics, History!NoReport, History!Report
<1>. QED BY <1>1, <1>2

LEMMA ReadStep ==
    ASSUME NEW h, History(h)!HistoryWellFormed, HistoryInv(h), ReadInv(h),
           [History(h)!Next]_historyVars
    PROVE  ReadInv(h)'
<1>1. ASSUME UNCHANGED <<reports, items>>, \/ phase' \notin {"confidence", "answered"}
                                           \/ phase \in {"confidence", "answered"}
      PROVE  ReadInv(h)'
  BY <1>1 DEF ReadInv, History!Included
<1>2. ASSUME History(h)!ListJobs PROVE ReadInv(h)' BY <1>1, <1>2 DEF History!ListJobs
<1>3. ASSUME History(h)!ProjectJob PROVE ReadInv(h)' BY <1>1, <1>3 DEF History!ProjectJob
<1>4. ASSUME History(h)!ProjectArtifacts PROVE ReadInv(h)'
  <2>1. reports' = reports /\ phase' \in {"judging", "paging"} BY <1>4 DEF History!ProjectArtifacts
  <2>. QED BY <2>1 DEF ReadInv
<1>5. ASSUME History(h)!Judged PROVE ReadInv(h)' BY <1>1, <1>5 DEF History!Judged
<1>6. ASSUME History(h)!ReadAnalytics PROVE ReadInv(h)'
  <2>. DEFINE left == History(h)!Included \ DOMAIN reports
              b == History(h)!Max(left)
  <2>1. History(h)!Included' = History(h)!Included BY <1>6 DEF History!ReadAnalytics, History!Included
  <2>2. CASE left = {}
    <3>1. reports' = reports BY <1>6, <2>2 DEF History!ReadAnalytics
    <3>. QED BY <2>1, <2>2, <3>1 DEF ReadInv
  <2>3. CASE left # {}
    <3>1. /\ reports' = [c \in DOMAIN reports \union {b} |->
                            IF c = b THEN History(h)!LoadAnalytics(c) ELSE reports[c]]
          /\ phase' = "reports"
      BY <1>6, <2>3 DEF History!ReadAnalytics
    <3>. HIDE DEF b, left
    <3>2. \A c \in DOMAIN reports' : reports'[c] \in History(h)!Report
      BY <3>1, LoadedReport DEF ReadInv
    <3>. QED BY <3>1, <3>2 DEF ReadInv, History!Report, History!Zones
  <2>. QED BY <2>2, <2>3
<1>7. ASSUME History(h)!ReadMatchIQ PROVE ReadInv(h)' BY <1>1, <1>7 DEF History!ReadMatchIQ
<1>8. ASSUME NEW f, NEW n, NEW k, History(h)!OpenHistory(f, n, k) PROVE ReadInv(h)'
  BY <1>1, <1>8 DEF History!OpenHistory
<1>9. ASSUME History(h)!ScanMetadata PROVE ReadInv(h)' BY <1>1, <1>9 DEF History!ScanMetadata
<1>10. ASSUME History(h)!SlicePage PROVE ReadInv(h)' BY <1>1, <1>10 DEF History!SlicePage
<1>11. ASSUME History(h)!ShowPage PROVE ReadInv(h)' BY <1>1, <1>11 DEF History!ShowPage
<1>12. ASSUME NEW a \in h.ids, NEW j \in h.jobs, History(h)!ChangeAnalysis(a, j) PROVE ReadInv(h)'
  BY <1>1, <1>12 DEF History!ChangeAnalysis
<1>13. ASSUME NEW a \in h.ids, History(h)!DeleteAnalysis(a) PROVE ReadInv(h)'
  BY <1>1, <1>13 DEF History!DeleteAnalysis
<1>14. CASE UNCHANGED historyVars BY <1>1, <1>14 DEF historyVars
<1>. QED BY <1>2, <1>3, <1>4, <1>5, <1>6, <1>7, <1>8, <1>9, <1>10, <1>11, <1>12, <1>13, <1>14
         DEF History!Next, History!Request, History!PageRequest

\* A quantity of every report that was read.
Amount(h, q) == [a \in DOMAIN reports |-> History(h)!Quantity(q, a)]
Quantities == {"pace", "tracked", "observed", "kitchen", "transition", "baseline"}

LEMMA AmountsAre ==
    ASSUME NEW h, ReadInv(h), NEW q \in Quantities, NEW a \in DOMAIN reports
    PROVE  Amount(h, q)[a] = History(h)!Quantity(q, a) /\ Amount(h, q)[a] \in Nat
<1>1. reports[a] \in [present : BOOLEAN, observed : Nat, tracked : Nat, distance : Nat,
                      zones : [{"kitchen", "transition", "baseline"} -> Nat]]
  BY DEF ReadInv, History!Report, History!Zones
<1>2. History(h)!Quantity(q, a) \in Nat
  BY <1>1 DEF Quantities, History!Quantity, History!Zones
<1>. QED BY <1>2 DEF Amount

LEMMA SumsAre ==
    ASSUME NEW h, ReadInv(h), NEW q \in Quantities, NEW S \in SUBSET DOMAIN reports, IsFiniteSet(S)
    PROVE  History(h)!Sum(q, S) = Total(Amount(h, q), S) /\ History(h)!Sum(q, S) \in Nat
<1>1. \A a \in S : Amount(h, q)[a] = History(h)!Quantity(q, a) /\ Amount(h, q)[a] \in Nat BY AmountsAre
<1>. DEFINE Adding(f) == [T \in SUBSET S |-> IF T = {} THEN 0 ELSE
                 LET a == CHOOSE b \in T : TRUE IN History(h)!Quantity(q, a) + f[T \ {a}]]
            AddingAmounts(f) == [T \in SUBSET S |-> IF T = {} THEN 0 ELSE
                 LET a == CHOOSE b \in T : TRUE IN Amount(h, q)[a] + f[T \ {a}]]
<1>2. ASSUME NEW f PROVE Adding(f) = AddingAmounts(f)
  <2>1. \A a \in S : Amount(h, q)[a] = History(h)!Quantity(q, a) BY <1>1
  <2>. QED BY <2>1
<1>3. History(h)!Sum(q, S) = (CHOOSE f : f = Adding(f))[S]
  BY DEF History!Sum, History!MapThenSumSet, History!MapThenFoldSet
<1>4. SumOf(Amount(h, q), S) = (CHOOSE f : f = AddingAmounts(f))[S] BY DEF SumOf
<1>5. (CHOOSE f : f = Adding(f)) = (CHOOSE f : f = AddingAmounts(f))
  <2>. HIDE DEF Adding, AddingAmounts
  <2>. QED BY <1>2
<1>. HIDE DEF Adding, AddingAmounts
<1>6. History(h)!Sum(q, S) = SumOf(Amount(h, q), S) BY <1>3, <1>4, <1>5
<1>7. SumOf(Amount(h, q), S) = Total(Amount(h, q), S) BY <1>1, SumIsTotal
<1>8. Total(Amount(h, q), S) \in Nat BY <1>1, TotalFinite
<1>. QED BY <1>6, <1>7, <1>8

-----------------------------------------------------------------------------
(* What a comparison says of a quantity.                                    *)


LEMMA TotalOfZones ==
    ASSUME NEW w, \A z \in {"kitchen", "transition", "baseline"} : w[z] \in Nat
    PROVE  Total(w, {"kitchen", "transition", "baseline"}) = w["kitchen"] + w["transition"] + w["baseline"]
<1>. DEFINE T == {"kitchen", "transition", "baseline"}
            U == {"transition", "baseline"}
<1>1. IsFiniteSet({"baseline"}) /\ IsFiniteSet(U) /\ IsFiniteSet(T)
  <2>1. IsFiniteSet({"baseline"}) BY FS_Singleton
  <2>2. U = {"baseline"} \union {"transition"} /\ T = U \union {"kitchen"} OBVIOUS
  <2>3. IsFiniteSet({"baseline"} \union {"transition"}) BY <2>1, FS_AddElement
  <2>. HIDE DEF T, U
  <2>4. IsFiniteSet(U \union {"kitchen"}) BY <2>2, <2>3, FS_AddElement
  <2>. QED BY <2>1, <2>2, <2>3, <2>4
<1>2. T \ {"kitchen"} = U /\ U \ {"transition"} = {"baseline"} OBVIOUS
<1>3. "kitchen" \in T /\ "transition" \in U /\ (\A z \in T : w[z] \in Nat) /\ (\A z \in U : w[z] \in Nat)
      /\ w["baseline"] \in Nat
  OBVIOUS
<1>. HIDE DEF T, U
<1>4. Total(w, T) = w["kitchen"] + Total(w, T \ {"kitchen"}) BY <1>1, <1>3, TotalStep
<1>5. Total(w, U) = w["transition"] + Total(w, U \ {"transition"}) BY <1>1, <1>3, TotalStep
<1>6. Total(w, {"baseline"}) = w["baseline"] BY <1>3, TotalOne
<1>7. w["kitchen"] \in Nat /\ w["transition"] \in Nat BY <1>3 DEF T, U
<1>8. Total(w, T) = w["kitchen"] + (w["transition"] + w["baseline"]) BY <1>2, <1>4, <1>5, <1>6
<1>. QED BY <1>3, <1>7, <1>8 DEF T

LEMMA ZoneTimeIs ==
    ASSUME NEW h, ReadInv(h), NEW a \in DOMAIN reports
    PROVE  LET s == reports[a].zones IN
           /\ s["kitchen"] \in Nat /\ s["transition"] \in Nat /\ s["baseline"] \in Nat
           /\ History(h)!ZoneTime(a) = s["kitchen"] + s["transition"] + s["baseline"]
<1>. DEFINE Z == {"kitchen", "transition", "baseline"}
            s == reports[a].zones
<1>1. reports[a] \in [present : BOOLEAN, observed : Nat, tracked : Nat, distance : Nat, zones : [Z -> Nat]]
  BY DEF ReadInv, History!Report, History!Zones
<1>2. s \in [Z -> Nat] BY <1>1
<1>. DEFINE Adding(f) == [T \in SUBSET Z |-> IF T = {} THEN 0 ELSE
                 LET z == CHOOSE y \in T : TRUE IN s[z] + f[T \ {z}]]
<1>3. History(h)!ZoneTime(a) = (CHOOSE f : f = Adding(f))[Z]
  BY DEF History!ZoneTime, History!MapThenSumSet, History!MapThenFoldSet, History!Zones
<1>4. SumOf(s, Z) = (CHOOSE f : f = Adding(f))[Z] BY DEF SumOf
<1>5. IsFiniteSet(Z)
  <2>1. IsFiniteSet({"kitchen"}) BY FS_Singleton
  <2>2. IsFiniteSet({"kitchen"} \union {"transition"}) BY <2>1, FS_AddElement
  <2>3. IsFiniteSet(({"kitchen"} \union {"transition"}) \union {"baseline"}) BY <2>2, FS_AddElement
  <2>4. ({"kitchen"} \union {"transition"}) \union {"baseline"} = Z OBVIOUS
  <2>. QED BY <2>3, <2>4
<1>6. \A z \in Z : s[z] \in Nat BY <1>2
<1>. HIDE DEF Adding, s
<1>7. SumOf(s, Z) = Total(s, Z)
  <2>. HIDE DEF Z
  <2>. QED BY <1>5, <1>6, SumIsTotal
<1>8. Total(s, Z) = s["kitchen"] + s["transition"] + s["baseline"] BY <1>6, TotalOfZones
<1>. QED BY <1>3, <1>4, <1>6, <1>7, <1>8 DEF s

ZoneNames == {"kitchen", "transition", "baseline"}

\* The groups were read again, and change by quotients of sums over them.
LEMMA ChangesAre ==
    ASSUME NEW h, History(h)!HistoryWellFormed, HistoryInv(h), ReadInv(h), phase = "answered"
    PROVE  LET E == History(h)!Earlier
               R == History(h)!Recent
           IN  /\ E \in SUBSET DOMAIN reports /\ R \in SUBSET DOMAIN reports
               /\ IsFiniteSet(E) /\ IsFiniteSet(R)
               /\ History(h)!Tracked(E) = Total(Amount(h, "tracked"), E) /\ History(h)!Tracked(E) \in Nat
               /\ History(h)!Tracked(R) = Total(Amount(h, "tracked"), R) /\ History(h)!Tracked(R) \in Nat
               /\ \A q \in ZoneNames \union {"pace"} :
                     /\ Total(Amount(h, q), E) \in Nat /\ Total(Amount(h, q), R) \in Nat
                     /\ History(h)!Change(q) = Total(Amount(h, q), R) * Total(Amount(h, "tracked"), E)
                                             - Total(Amount(h, q), E) * Total(Amount(h, "tracked"), R)
                     /\ History(h)!Change(q) \in Int
                     /\ History(h)!Magnitude(q) \in Nat
<1>. DEFINE E == History(h)!Earlier
            R == History(h)!Recent
<1>1. /\ History(h)!Included \subseteq DOMAIN reports BY DEF ReadInv
<1>2. /\ E \in SUBSET DOMAIN reports /\ R \in SUBSET DOMAIN reports
      /\ IsFiniteSet(E) /\ IsFiniteSet(R)
  <2>1. /\ History(h)!Window \in SUBSET History(h)!ComparableReports
        /\ E \in SUBSET History(h)!Window /\ R \in SUBSET History(h)!Window
        /\ IsFiniteSet(E) /\ IsFiniteSet(R)
    BY GroupsAre
  <2>2. History(h)!ComparableReports \in SUBSET History(h)!Included BY IncludedAre
  <2>. QED BY <1>1, <2>1, <2>2
<1>. HIDE DEF E, R
<1>3. ASSUME NEW q \in Quantities
      PROVE  /\ History(h)!Sum(q, E) = Total(Amount(h, q), E) /\ History(h)!Sum(q, E) \in Nat
             /\ History(h)!Sum(q, R) = Total(Amount(h, q), R) /\ History(h)!Sum(q, R) \in Nat
  BY <1>2, SumsAre
<1>4. "tracked" \in Quantities /\ ZoneNames \union {"pace"} \subseteq Quantities BY DEF Quantities, ZoneNames
<1>5. /\ History(h)!Tracked(E) = Total(Amount(h, "tracked"), E) /\ History(h)!Tracked(E) \in Nat
      /\ History(h)!Tracked(R) = Total(Amount(h, "tracked"), R) /\ History(h)!Tracked(R) \in Nat
  BY <1>3, <1>4 DEF History!Tracked
<1>6. ASSUME NEW q \in ZoneNames \union {"pace"}
      PROVE  /\ Total(Amount(h, q), E) \in Nat /\ Total(Amount(h, q), R) \in Nat
             /\ History(h)!Change(q) = Total(Amount(h, q), R) * Total(Amount(h, "tracked"), E)
                                       - Total(Amount(h, q), E) * Total(Amount(h, "tracked"), R)
             /\ History(h)!Change(q) \in Int
             /\ History(h)!Magnitude(q) \in Nat
  <2>1. /\ History(h)!Sum(q, E) = Total(Amount(h, q), E) /\ History(h)!Sum(q, E) \in Nat
        /\ History(h)!Sum(q, R) = Total(Amount(h, q), R) /\ History(h)!Sum(q, R) \in Nat
    BY <1>3, <1>4
  <2>2. History(h)!Change(q) = History(h)!Sum(q, R) * History(h)!Tracked(E)
                               - History(h)!Sum(q, E) * History(h)!Tracked(R)
    BY DEF History!Change, E, R
  <2>3. /\ History(h)!Sum(q, R) * History(h)!Tracked(E) \in Nat
        /\ History(h)!Sum(q, E) * History(h)!Tracked(R) \in Nat
    BY <1>5, <2>1
  <2>4. History(h)!Change(q) \in Int BY <2>2, <2>3
  <2>5. History(h)!Magnitude(q) \in Nat BY <2>4 DEF History!Magnitude
  <2>6. History(h)!Change(q) = Total(Amount(h, q), R) * Total(Amount(h, "tracked"), E)
                               - Total(Amount(h, q), E) * Total(Amount(h, "tracked"), R)
    BY <1>5, <2>1, <2>2
  <2>. QED BY <2>1, <2>4, <2>5, <2>6
<1>. QED BY <1>2, <1>5, <1>6 DEF E, R

\* The zone that changed most; the others changed no more.
LEMMA StrongestIs ==
    ASSUME NEW h, \A z \in ZoneNames : History(h)!Magnitude(z) \in Nat
    PROVE  /\ History(h)!Strongest \in ZoneNames
           /\ \A y \in ZoneNames : History(h)!Magnitude(y) <= History(h)!Magnitude(History(h)!Strongest)
<1>. DEFINE m == [z \in ZoneNames |-> History(h)!Magnitude(z)]
<1>1. \A z \in ZoneNames : m[z] \in Nat /\ m[z] = History(h)!Magnitude(z) OBVIOUS
<1>. HIDE DEF m
<1>2. \E z \in ZoneNames : \A y \in ZoneNames : m[y] <= m[z]
  <2>1. m["kitchen"] \in Nat /\ m["transition"] \in Nat /\ m["baseline"] \in Nat BY <1>1 DEF ZoneNames
  <2>2. CASE m["transition"] <= m["kitchen"] /\ m["baseline"] <= m["kitchen"]
    BY <2>1, <2>2 DEF ZoneNames
  <2>3. CASE m["kitchen"] <= m["transition"] /\ m["baseline"] <= m["transition"]
    BY <2>1, <2>3 DEF ZoneNames
  <2>4. CASE m["kitchen"] <= m["baseline"] /\ m["transition"] <= m["baseline"]
    BY <2>1, <2>4 DEF ZoneNames
  <2>. QED BY <2>1, <2>2, <2>3, <2>4
<1>3. \E z \in ZoneNames : \A y \in ZoneNames : History(h)!Magnitude(y) <= History(h)!Magnitude(z)
  BY <1>1, <1>2
<1>. QED BY <1>3 DEF History!Strongest, History!Zones, ZoneNames

\* Where the zones exhaust the tracked time, so do their sums.
LEMMA ZonesExhaust ==
    ASSUME NEW h, ReadInv(h), NEW S \in SUBSET DOMAIN reports, IsFiniteSet(S),
           \A a \in S : History(h)!ZoneTime(a) = reports[a].tracked
    PROVE  Total(Amount(h, "tracked"), S)
             = Total(Amount(h, "kitchen"), S) + Total(Amount(h, "transition"), S) + Total(Amount(h, "baseline"), S)
<1>. DEFINE tracked == Amount(h, "tracked")
            kitchen == Amount(h, "kitchen")
            transition == Amount(h, "transition")
            baseline == Amount(h, "baseline")
            rest == [a \in S |-> transition[a] + baseline[a]]
<1>1. ASSUME NEW a \in S
      PROVE  /\ tracked[a] = kitchen[a] + (transition[a] + baseline[a])
             /\ kitchen[a] \in Nat /\ transition[a] \in Nat /\ baseline[a] \in Nat
  <2>1. \A q \in Quantities : Amount(h, q)[a] = History(h)!Quantity(q, a) /\ Amount(h, q)[a] \in Nat
    BY AmountsAre
  <2>2. /\ tracked[a] = reports[a].tracked /\ kitchen[a] = reports[a].zones["kitchen"]
        /\ transition[a] = reports[a].zones["transition"] /\ baseline[a] = reports[a].zones["baseline"]
    BY <2>1 DEF Quantities, History!Quantity, History!Zones
  <2>3. kitchen[a] \in Nat /\ transition[a] \in Nat /\ baseline[a] \in Nat BY <2>1 DEF Quantities
  <2>4. reports[a].tracked
          = reports[a].zones["kitchen"] + reports[a].zones["transition"] + reports[a].zones["baseline"]
    BY ZoneTimeIs
  <2>. HIDE DEF tracked, kitchen, transition, baseline
  <2>. QED BY <2>2, <2>3, <2>4
<1>. HIDE DEF tracked, kitchen, transition, baseline
<1>2. \A a \in S : rest[a] = transition[a] + baseline[a] /\ rest[a] \in Nat BY <1>1
<1>. HIDE DEF rest
<1>3. /\ Total(rest, S) = Total(transition, S) + Total(baseline, S)
      /\ Total(transition, S) \in Nat /\ Total(baseline, S) \in Nat
  <2>1. \A a \in S : rest[a] = transition[a] + baseline[a] /\ transition[a] \in Nat /\ baseline[a] \in Nat
    BY <1>1, <1>2
  <2>. QED BY <2>1, TotalAdd
<1>4. Total(tracked, S) = Total(kitchen, S) + Total(rest, S) /\ Total(kitchen, S) \in Nat
  <2>1. \A a \in S : tracked[a] = kitchen[a] + rest[a] /\ kitchen[a] \in Nat /\ rest[a] \in Nat
    BY <1>1, <1>2
  <2>2. Total(tracked, S) = Total(kitchen, S) + Total(rest, S) BY <2>1, TotalAdd
  <2>3. Total(kitchen, S) \in Nat BY <2>1, TotalFinite
  <2>. QED BY <2>2, <2>3
<1>5. Total(tracked, S) = Total(kitchen, S) + Total(transition, S) + Total(baseline, S) BY <1>3, <1>4
<1>. QED BY <1>5 DEF tracked, kitchen, transition, baseline

LEMMA TrendsHonest ==
    ASSUME NEW h, History(h)!HistoryWellFormed, HistoryInv(h), ReadInv(h)
    PROVE  History(h)!TrendsAreHonest
<1>. SUFFICES ASSUME phase = "answered" PROVE History(h)!TrendsAreHonest
  BY DEF History!TrendsAreHonest, History!Answered
<1>. DEFINE E == History(h)!Earlier
            R == History(h)!Recent
            tracked == Amount(h, "tracked")
<1>1. /\ E \in SUBSET DOMAIN reports /\ R \in SUBSET DOMAIN reports /\ IsFiniteSet(E) /\ IsFiniteSet(R)
      /\ Total(tracked, E) \in Nat /\ Total(tracked, R) \in Nat
  BY ChangesAre
<1>2. \A q \in ZoneNames \union {"pace"} :
         /\ Total(Amount(h, q), E) \in Nat /\ Total(Amount(h, q), R) \in Nat
         /\ History(h)!Change(q) = Total(Amount(h, q), R) * Total(tracked, E)
                                   - Total(Amount(h, q), E) * Total(tracked, R)
         /\ History(h)!Change(q) \in Int /\ History(h)!Magnitude(q) \in Nat
  BY ChangesAre
<1>. HIDE DEF E, R, tracked
<1>3. \A q : History(h)!Direction(q) = "increased" => History(h)!Change(q) > 0
  BY DEF History!Direction
<1>4. ASSUME NEW q \in ZoneNames \union {"pace"},
             \A a \in E, b \in R :
                 History(h)!Quantity(q, b) * reports[a].tracked <= History(h)!Quantity(q, a) * reports[b].tracked
      PROVE  History(h)!Direction(q) # "increased"
  <2>. DEFINE v == Amount(h, q)
  <2>1. q \in Quantities /\ "tracked" \in Quantities BY DEF Quantities, ZoneNames
  <2>2. \A a \in DOMAIN reports : /\ v[a] = History(h)!Quantity(q, a) /\ v[a] \in Nat
                                  /\ tracked[a] = reports[a].tracked /\ tracked[a] \in Nat
    <3>1. \A a \in DOMAIN reports : History(h)!Quantity("tracked", a) = reports[a].tracked
      BY DEF History!Quantity, History!Zones
    <3>. QED BY <2>1, <3>1, AmountsAre DEF tracked
  <2>3. Total(v, E) \in Nat /\ Total(v, R) \in Nat
        /\ History(h)!Change(q) = Total(v, R) * Total(tracked, E) - Total(v, E) * Total(tracked, R)
    BY <1>2
  <2>. HIDE DEF v
  <2>4. \A a \in E, b \in R : v[b] * tracked[a] <= v[a] * tracked[b] BY <1>1, <1>4, <2>2
  <2>5. \A a \in E \union R : v[a] \in Nat /\ tracked[a] \in Nat BY <1>1, <2>2
  <2>6. Total(v, R) * Total(tracked, E) <= Total(v, E) * Total(tracked, R)
    BY <1>1, <2>4, <2>5, TotalRates
  <2>7. Total(v, R) * Total(tracked, E) \in Nat /\ Total(v, E) * Total(tracked, R) \in Nat BY <1>1, <2>3
  <2>8. ~(History(h)!Change(q) > 0) BY <2>3, <2>6, <2>7
  <2>. QED BY <1>3, <2>8
<1>5. ASSUME \A a \in E \union R : History(h)!ZoneTime(a) = reports[a].tracked
      PROVE  \E z \in ZoneNames : History(h)!Direction(z) # "increased"
  <2>. DEFINE tE == Total(tracked, E)
              tR == Total(tracked, R)
              kE == Total(Amount(h, "kitchen"), E)
              kR == Total(Amount(h, "kitchen"), R)
              mE == Total(Amount(h, "transition"), E)
              mR == Total(Amount(h, "transition"), R)
              bE == Total(Amount(h, "baseline"), E)
              bR == Total(Amount(h, "baseline"), R)
  <2>1. tE = kE + mE + bE /\ tR = kR + mR + bR BY <1>1, <1>5, ZonesExhaust DEF tracked
  <2>2. /\ kE \in Nat /\ kR \in Nat /\ History(h)!Change("kitchen") = kR * tE - kE * tR
        /\ mE \in Nat /\ mR \in Nat /\ History(h)!Change("transition") = mR * tE - mE * tR
        /\ bE \in Nat /\ bR \in Nat /\ History(h)!Change("baseline") = bR * tE - bE * tR
    BY <1>2 DEF ZoneNames
  <2>3. tE \in Nat /\ tR \in Nat BY <1>1
  <2>. HIDE DEF tE, tR, kE, kR, mE, mR, bE, bR
  <2>4. (kR * tE - kE * tR) + (mR * tE - mE * tR) + (bR * tE - bE * tR) = 0
    <3>1. (kR * tE - kE * tR) + (mR * tE - mE * tR) + (bR * tE - bE * tR)
            = (kR + mR + bR) * tE - (kE + mE + bE) * tR
      BY <2>2, <2>3
    <3>2. (kR + mR + bR) * tE - (kE + mE + bE) * tR = tR * tE - tE * tR BY <2>1
    <3>3. tR * tE - tE * tR = 0 BY <2>3
    <3>. QED BY <3>1, <3>2, <3>3
  <2>5. /\ kR * tE - kE * tR \in Int /\ mR * tE - mE * tR \in Int /\ bR * tE - bE * tR \in Int
    BY <2>2, <2>3
  <2>6. ~(/\ History(h)!Change("kitchen") > 0 /\ History(h)!Change("transition") > 0
          /\ History(h)!Change("baseline") > 0)
    BY <2>2, <2>4, <2>5
  <2>. QED BY <1>3, <2>6 DEF ZoneNames
<1>6. History(h)!PlayStyle = "PROVISIONAL_CHANGE" <=> \E z \in ZoneNames : History(h)!Direction(z) # "stable"
  <2>. DEFINE s == History(h)!Strongest
              bound == History(h)!Tracked(E) * History(h)!Tracked(R)
  <2>1. s \in ZoneNames /\ \A y \in ZoneNames : History(h)!Magnitude(y) <= History(h)!Magnitude(s)
    BY <1>2, StrongestIs
  <2>2. \A z \in ZoneNames : History(h)!Magnitude(z) \in Nat BY <1>2
  <2>3. bound \in Nat
    <3>1. History(h)!Tracked(E) \in Nat /\ History(h)!Tracked(R) \in Nat BY ChangesAre DEF E, R
    <3>. QED BY <3>1
  <2>4. \A z : History(h)!Small(z) <=> 20 * History(h)!Magnitude(z) < bound BY DEF History!Small, E, R
  <2>5. \A z : History(h)!Direction(z) = "stable" <=> History(h)!Small(z) BY DEF History!Direction
  <2>6. History(h)!PlayStyle = "PROVISIONAL_CHANGE" <=> ~History(h)!Small(s) BY DEF History!PlayStyle
  <2>. HIDE DEF s, bound
  <2>7. ASSUME NEW z \in ZoneNames, History(h)!Small(s) PROVE History(h)!Small(z)
    <3>1. 20 * History(h)!Magnitude(s) < bound BY <2>4, <2>7
    <3>2. History(h)!Magnitude(z) <= History(h)!Magnitude(s) BY <2>1
    <3>3. History(h)!Magnitude(z) \in Nat /\ History(h)!Magnitude(s) \in Nat BY <2>1, <2>2
    <3>4. 20 * History(h)!Magnitude(z) < bound BY <2>3, <3>1, <3>2, <3>3
    <3>. QED BY <2>4, <3>4
  <2>. QED BY <2>1, <2>5, <2>6, <2>7
<1>. QED BY <1>4, <1>5, <1>6 DEF History!TrendsAreHonest, History!Zones, ZoneNames, E, R

-----------------------------------------------------------------------------
(* The answer.                                                              *)

\* What is compared was read again, with measurements.
LEMMA ContributingAre ==
    ASSUME NEW h, History(h)!HistoryWellFormed, HistoryInv(h)
    PROVE  /\ History(h)!Earlier \union History(h)!Recent \in SUBSET History(h)!Reported
           /\ History(h)!Contributing \in SUBSET History(h)!Reported
<1>1. /\ History(h)!Window \in SUBSET History(h)!ComparableReports
      /\ History(h)!Earlier \in SUBSET History(h)!Window /\ History(h)!Recent \in SUBSET History(h)!Window
  BY GroupsAre
<1>2. History(h)!ComparableReports \in SUBSET History(h)!Reported
  BY DEF History!ComparableReports, History!Comparable, History!Reported
<1>. QED BY <1>1, <1>2 DEF History!Contributing

LEMMA AnswerFollows ==
    ASSUME NEW h, History(h)!HistoryWellFormed, HistoryInv(h)
    PROVE  /\ History(h)!Answer \in {"observed changes", "no clear change"} <=> History(h)!Interpretation = "provisional"
           /\ History(h)!MetricsShown /\ History(h)!Changed => History(h)!Answer = "observed changes"
<1>. DEFINE n == Cardinality(History(h)!ComparableReports)
<1>1. n \in Nat /\ (History(h)!MetricsShown <=> n > 3)
      /\ History(h)!Trend = IF n < 3 THEN "ineligible" ELSE "provisional"
  BY AnnouncedIs
<1>2. /\ n < 3 => History(h)!BaselineStatus \in
                      {"NO_QUALIFIED_REPORTS", "BUILDING_BASELINE", "MIXED_OR_INCOMPATIBLE_REPORTS"}
      /\ n = 3 => History(h)!BaselineStatus = "BASELINE_ESTABLISHED"
      /\ n > 3 => History(h)!BaselineStatus = "COMPARISON_AVAILABLE"
  BY AnnouncedIs
<1>. HIDE DEF n
<1>3. CASE n < 3
  <2>1. ~(n > 3) /\ n # 3 BY <1>1, <1>3
  <2>2. History(h)!Interpretation = "not_evaluated" BY <1>1, <1>3 DEF History!Interpretation
  <2>3. History(h)!Answer \in {"not started", "building your baseline", "not comparable"}
    BY <1>2, <1>3 DEF History!Answer
  <2>. QED BY <1>1, <2>1, <2>2, <2>3
<1>4. CASE n = 3
  <2>1. ~(n > 3) /\ ~(n < 3) BY <1>4
  <2>2. History(h)!Interpretation = "ineligible" BY <1>1, <2>1 DEF History!Interpretation
  <2>3. History(h)!Answer = "initial baseline" BY <1>2, <1>4 DEF History!Answer
  <2>. QED BY <1>1, <2>1, <2>2, <2>3
<1>5. CASE n > 3
  <2>1. ~(n < 3) BY <1>1, <1>5
  <2>2. History(h)!Interpretation = "provisional" BY <1>1, <1>5, <2>1 DEF History!Interpretation
  <2>3. History(h)!Answer = IF History(h)!Changed THEN "observed changes" ELSE "no clear change"
    BY <1>2, <1>5 DEF History!Answer
  <2>. QED BY <2>2, <2>3
<1>6. n < 3 \/ n = 3 \/ n > 3 BY <1>1
<1>. QED BY <1>3, <1>4, <1>5, <1>6

\* Of the reports the zones are counted in, one zone that leads each leads all.
LEMMA CommonZone ==
    ASSUME NEW h, History(h)!HistoryWellFormed, HistoryInv(h), ReadInv(h), phase = "answered",
           NEW z \in ZoneNames, History(h)!ZoneReports # {},
           \A a \in History(h)!ZoneReports, y \in ZoneNames \ {z} : reports[a].zones[y] < reports[a].zones[z]
    PROVE  History(h)!MostCommonZone = z
<1>. DEFINE S == History(h)!ZoneReports
<1>1. S \in SUBSET History(h)!Included /\ History(h)!Included \in SUBSET DOMAIN reports
  BY DEF History!ZoneReports, History!Reported, ReadInv
<1>2. IsFiniteSet(S)
  <2>1. IsFiniteSet(History(h)!Included) BY IncludedAre
  <2>. QED BY <1>1, <2>1, FS_Subset
<1>3. S # {} /\ S \in SUBSET DOMAIN reports BY <1>1
<1>4. \A a \in S, y \in ZoneNames \ {z} : reports[a].zones[y] < reports[a].zones[z] OBVIOUS
<1>5. \A y \in ZoneNames : History(h)!ZoneSum(y) = History(h)!Sum(y, S) BY DEF History!ZoneSum
<1>. HIDE DEF S
<1>6. ASSUME NEW y \in ZoneNames
      PROVE  /\ History(h)!ZoneSum(y) = Total(Amount(h, y), S) /\ History(h)!ZoneSum(y) \in Nat
             /\ \A a \in S : Amount(h, y)[a] = reports[a].zones[y] /\ Amount(h, y)[a] \in Nat
  <2>1. y \in Quantities BY DEF Quantities, ZoneNames
  <2>2. \A a \in S : Amount(h, y)[a] = History(h)!Quantity(y, a) /\ Amount(h, y)[a] \in Nat
    BY <1>3, <2>1, AmountsAre
  <2>3. \A a \in S : History(h)!Quantity(y, a) = reports[a].zones[y]
    BY DEF History!Quantity, History!Zones, ZoneNames
  <2>. QED BY <1>2, <1>3, <1>5, <2>1, <2>2, <2>3, SumsAre
<1>7. ASSUME NEW y \in ZoneNames \ {z}
      PROVE  History(h)!ZoneSum(y) < History(h)!ZoneSum(z)
  <2>. DEFINE v == Amount(h, y)
              w == Amount(h, z)
  <2>1. \A a \in S : v[a] \in Nat /\ w[a] \in Nat /\ v[a] < w[a] BY <1>4, <1>6
  <2>2. History(h)!ZoneSum(y) = Total(v, S) /\ History(h)!ZoneSum(z) = Total(w, S) BY <1>6
  <2>. HIDE DEF v, w
  <2>3. Total(v, S) < Total(w, S) BY <1>2, <1>3, <2>1, TotalStrict
  <2>. QED BY <2>2, <2>3
<1>. DEFINE Leads(x) == \A y \in ZoneNames \ {x} :
                \/ History(h)!ZoneSum(y) < History(h)!ZoneSum(x)
                \/ History(h)!ZoneSum(y) = History(h)!ZoneSum(x) /\ History(h)!Rank[x] < History(h)!Rank[y]
<1>8. Leads(z) BY <1>7
<1>9. ASSUME NEW x \in ZoneNames, Leads(x) PROVE x = z
  <2>. SUFFICES ASSUME x # z PROVE FALSE OBVIOUS
  <2>1. History(h)!ZoneSum(x) < History(h)!ZoneSum(z) BY <1>7
  <2>2. History(h)!ZoneSum(x) \in Nat /\ History(h)!ZoneSum(z) \in Nat BY <1>6
  <2>3. ~(History(h)!ZoneSum(z) < History(h)!ZoneSum(x)) /\ History(h)!ZoneSum(z) # History(h)!ZoneSum(x)
    BY <2>1, <2>2
  <2>. QED BY <1>9, <2>3
<1>10. History(h)!MostCommonZone = CHOOSE x \in ZoneNames : Leads(x)
  BY <1>3 DEF History!MostCommonZone, History!Zones, ZoneNames, S
<1>. HIDE DEF Leads
<1>. QED BY <1>8, <1>9, <1>10

\* The first and the last analysis of a group.
LEMMA PeriodIs ==
    ASSUME NEW h, NEW S \in SUBSET Nat, IsFiniteSet(S), S # {}
    PROVE  /\ History(h)!Min(S) \in S /\ \A a \in S : History(h)!Min(S) <= a
           /\ History(h)!Max(S) \in S /\ \A a \in S : a <= History(h)!Max(S)
<1>1. (\E x \in S : \A y \in S : x <= y) /\ (\E x \in S : \A y \in S : y <= x) BY ExtremesExist
<1>2. History(h)!Min(S) = CHOOSE x \in S : \A y \in S : x <= y BY DEF History!Min
<1>3. History(h)!Max(S) = CHOOSE x \in S : \A y \in S : x >= y BY DEF History!Max
<1>4. PICK x \in S : \A y \in S : y <= x BY <1>1
<1>5. \A y \in S : x >= y BY <1>4
<1>6. History(h)!Max(S) \in S /\ \A y \in S : History(h)!Max(S) >= y BY <1>3, <1>5
<1>7. \A y \in S : y <= History(h)!Max(S) BY <1>6
<1>. QED BY <1>1, <1>2, <1>6, <1>7

\* The groups follow one another and are part of the observed time.
LEMMA GroupsApart ==
    ASSUME NEW h, History(h)!HistoryWellFormed, HistoryInv(h), ReadInv(h), phase = "answered",
           History(h)!Groups # <<>>
    PROVE  LET G == History(h)!Groups IN
           /\ G["Earlier"].period \intersect G["Recent"].period = {}
           /\ G["Earlier"].observed + G["Recent"].observed <= History(h)!Observed(History(h)!Reported)
<1>. DEFINE E == History(h)!Earlier
            R == History(h)!Recent
            D == History(h)!Reported
            w == Amount(h, "observed")
<1>1. E # {} /\ R # {} BY DEF History!Groups
<1>2. /\ History(h)!Groups["Earlier"] = History(h)!ComparisonGroup(E)
      /\ History(h)!Groups["Recent"] = History(h)!ComparisonGroup(R)
  BY <1>1 DEF History!Groups
<1>3. /\ IsFiniteSet(E) /\ IsFiniteSet(R) /\ (\A a \in E, b \in R : a < b)
      /\ E \in SUBSET History(h)!Window /\ R \in SUBSET History(h)!Window
      /\ History(h)!Window \in SUBSET History(h)!ComparableReports
  BY GroupsAre
<1>4. E \in SUBSET Nat /\ R \in SUBSET Nat BY <1>3, IncludedAre
<1>5. E \in SUBSET D /\ R \in SUBSET D BY ContributingAre
<1>6. IsFiniteSet(D) /\ D \in SUBSET DOMAIN reports
  <2>1. IsFiniteSet(History(h)!Included) BY IncludedAre
  <2>2. D \in SUBSET History(h)!Included BY DEF History!Reported
  <2>3. History(h)!Included \in SUBSET DOMAIN reports BY DEF ReadInv
  <2>. HIDE DEF D
  <2>. QED BY <2>1, <2>2, <2>3, FS_Subset
<1>. HIDE DEF E, R, D
<1>7. History(h)!ComparisonGroup(E).period \intersect History(h)!ComparisonGroup(R).period = {}
  <2>1. History(h)!Max(E) \in E /\ History(h)!Min(E) \in E BY <1>1, <1>3, <1>4, PeriodIs
  <2>2. History(h)!Max(R) \in R /\ History(h)!Min(R) \in R BY <1>1, <1>3, <1>4, PeriodIs
  <2>3. History(h)!Max(E) < History(h)!Min(R) BY <1>3, <2>1, <2>2
  <2>4. /\ History(h)!ComparisonGroup(E).period = History(h)!Min(E) .. History(h)!Max(E)
        /\ History(h)!ComparisonGroup(R).period = History(h)!Min(R) .. History(h)!Max(R)
    BY DEF History!ComparisonGroup
  <2>5. History(h)!Max(E) \in Nat /\ History(h)!Min(R) \in Nat BY <1>4, <2>1, <2>2
  <2>. QED BY <2>3, <2>4, <2>5
<1>8. History(h)!ComparisonGroup(E).observed + History(h)!ComparisonGroup(R).observed
        <= History(h)!Observed(D)
  <2>1. "observed" \in Quantities BY DEF Quantities
  <2>2. \A a \in D : w[a] \in Nat BY <1>6, <2>1, AmountsAre
  <2>3. /\ History(h)!Observed(D) = Total(w, D)
        /\ History(h)!Observed(E) = Total(w, E)
        /\ History(h)!Observed(R) = Total(w, R)
    <3>1. E \in SUBSET DOMAIN reports /\ R \in SUBSET DOMAIN reports BY <1>5, <1>6
    <3>. QED BY <1>3, <1>6, <2>1, <3>1, SumsAre DEF History!Observed
  <2>. HIDE DEF w
  <2>4. E \intersect R = {} BY <1>3, <1>4
  <2>5. \A a \in E \union R : w[a] \in Nat BY <1>5, <2>2
  <2>6. Total(w, E \union R) = Total(w, E) + Total(w, R) BY <1>3, <2>4, <2>5, TotalSplit
  <2>7. E \union R \in SUBSET D BY <1>5
  <2>8. Total(w, E \union R) <= Total(w, D) BY <1>6, <2>2, <2>7, TotalPart
  <2>9. /\ History(h)!ComparisonGroup(E).observed = History(h)!Observed(E)
        /\ History(h)!ComparisonGroup(R).observed = History(h)!Observed(R)
    BY DEF History!ComparisonGroup
  <2>. QED BY <2>3, <2>6, <2>8, <2>9
<1>. QED BY <1>2, <1>7, <1>8 DEF D

LEMMA AnswersAgree ==
    ASSUME NEW h, History(h)!HistoryWellFormed, HistoryInv(h), ReadInv(h)
    PROVE  History(h)!AnswerAgrees
<1>. SUFFICES ASSUME phase = "answered" PROVE History(h)!AnswerAgrees
  BY DEF History!AnswerAgrees, History!Answered
<1>1. ASSUME History(h)!MetricsShown, History(h)!PlayStyle = "PROVISIONAL_CHANGE"
      PROVE  History(h)!Answer = "observed changes"
  <2>1. \A z \in ZoneNames : History(h)!Magnitude(z) \in Nat BY ChangesAre
  <2>2. History(h)!Strongest \in ZoneNames BY <2>1, StrongestIs
  <2>3. History(h)!Direction(History(h)!Strongest) # "stable"
    BY <1>1 DEF History!PlayStyle, History!Direction
  <2>4. History(h)!Changed BY <1>1, <2>2, <2>3 DEF History!Changed, History!Zones, ZoneNames
  <2>. QED BY <1>1, <2>4, AnswerFollows
<1>2. History(h)!Answer \in {"observed changes", "no clear change"} <=> History(h)!Interpretation = "provisional"
  BY AnswerFollows
<1>3. History(h)!Contributing \subseteq History(h)!Reported BY ContributingAre
<1>4. History(h)!Groups # <<>> =>
        /\ History(h)!Groups["Earlier"].period \intersect History(h)!Groups["Recent"].period = {}
        /\ History(h)!Groups["Earlier"].observed + History(h)!Groups["Recent"].observed
             <= History(h)!Observed(History(h)!Reported)
  BY GroupsApart
<1>5. \A z \in ZoneNames :
        /\ History(h)!ZoneReports # {}
        /\ \A a \in History(h)!ZoneReports, y \in ZoneNames \ {z} : reports[a].zones[y] < reports[a].zones[z]
        => History(h)!MostCommonZone = z
  BY CommonZone
<1>6. History(h)!Zones = ZoneNames BY DEF History!Zones, ZoneNames
<1>. QED BY <1>1, <1>2, <1>3, <1>4, <1>5, <1>6 DEF History!AnswerAgrees

-----------------------------------------------------------------------------
(* What is shown of an analysis.                                            *)

LEMMA ShownAgree ==
    ASSUME NEW h, History(h)!HistoryWellFormed, HistoryInv(h)
    PROVE  History(h)!ShownAgrees
<1>1. ASSUME NEW a \in DOMAIN items, items[a].status = "included"
      PROVE  /\ History(h)!HistoryStatus(items[a].job) \in {"READY", "LIMITED"}
             /\ History(h)!HistoryStatus(items[a].job) = "LIMITED" <=> History(h)!Cautioned(items[a].job)
  <2>. DEFINE j == items[a].job
  <2>1. /\ j.status = "completed" /\ j.readiness \in {"good", "limited"} /\ j.completed
    BY <1>1 DEF HistoryInv, History!Included, Judged
  <2>. HIDE DEF j
  <2>2. History(h)!QualityOf(j) = j.readiness BY <2>1 DEF History!QualityOf
  <2>3. j.readiness = "good" => History(h)!HistoryStatus(j) = "READY"
    BY <2>1, <2>2 DEF History!HistoryStatus
  <2>4. j.readiness = "limited" => History(h)!HistoryStatus(j) = "LIMITED"
    BY <2>1, <2>2 DEF History!HistoryStatus
  <2>5. History(h)!Cautioned(j) <=> j.readiness = "limited"
    BY <2>1, <2>2, <2>3, <2>4 DEF History!Cautioned
  <2>. QED BY <2>1, <2>3, <2>4, <2>5 DEF j
<1>2. \A a \in DOMAIN items :
         items[a].measured => items[a].job.verified /\ items[a].job.completed /\ items[a].job.current
  BY DEF HistoryInv
<1>. QED BY <1>1, <1>2 DEF History!ShownAgrees

-----------------------------------------------------------------------------
(* A page of analyses.                                                      *)

\* What was listed for a page is judged, being judged or still to be judged.
PageInv(h) ==
    /\ {"filter", "limit", "offset"} \subseteq DOMAIN page
    /\ page.limit \in Nat /\ page.offset \in Nat
    /\ phase = "paging" => DOMAIN items \union listed \union {p.id : p \in pending} = History(h)!Slice
    /\ phase = "shown" => DOMAIN items = History(h)!Slice

LEMMA PageInit ==
    ASSUME NEW h, History(h)!HistoryWellFormed, History(h)!Init PROVE PageInv(h)
BY DEF PageInv, History!Init, History!NoPage

\* What leaves the page, and the analyses listed for it, alone.
LEMMA PageKept ==
    ASSUME NEW h, PageInv(h), page' = page, phase' \notin {"paging", "shown"}
    PROVE  PageInv(h)'
BY DEF PageInv

LEMMA PageStep ==
    ASSUME NEW h, History(h)!HistoryWellFormed, HistoryInv(h), PageInv(h),
           [History(h)!Next]_historyVars
    PROVE  PageInv(h)'
<1>0. ASSUME page' = page PROVE History(h)!Slice' = History(h)!Slice
  BY <1>0 DEF History!Slice, History!Latest, History!Matching, History!Cardinality
<1>1. ASSUME UNCHANGED <<page, phase, items, listed, pending>> PROVE PageInv(h)'
  BY <1>0, <1>1 DEF PageInv
<1>2. ASSUME History(h)!ListJobs PROVE PageInv(h)' BY <1>2, PageKept DEF History!ListJobs
<1>3. ASSUME History(h)!ProjectJob PROVE PageInv(h)'
  <2>. DEFINE a == History(h)!Max(listed)
  <2>1. CASE a \notin DOMAIN library BY <1>3, <2>1, PageKept DEF History!ProjectJob
  <2>2. CASE a \in DOMAIN library
    <3>1. /\ pending = {} /\ pending' = {[id |-> a, job |-> History(h)!Projected(library[a])]}
          /\ listed' = listed \ {a} /\ listed # {} /\ phase' = phase /\ phase \in {"judging", "paging"}
          /\ UNCHANGED <<items, page>>
      BY <1>3, <2>2 DEF History!ProjectJob
    <3>2. a \in listed BY <3>1, GreatestChosen DEF HistoryInv
    <3>. HIDE DEF a
    <3>3. {p.id : p \in pending'} = {a} /\ {p.id : p \in pending} = {} BY <3>1
    <3>. QED BY <1>0, <3>1, <3>2, <3>3 DEF PageInv
  <2>. QED BY <2>1, <2>2
<1>4. ASSUME History(h)!ProjectArtifacts PROVE PageInv(h)'
  <2>1. /\ pending' = {} /\ UNCHANGED <<phase, listed, page>> /\ phase \in {"judging", "paging"}
    BY <1>4 DEF History!ProjectArtifacts
  <2>2. PICK p \in pending : DOMAIN items' = DOMAIN items \union {p.id}
    BY <1>4 DEF History!ProjectArtifacts
  <2>3. pending = {p} BY <2>2 DEF HistoryInv
  <2>4. {q.id : q \in pending'} = {} /\ {q.id : q \in pending} = {p.id} BY <2>1, <2>3
  <2>. QED BY <1>0, <2>1, <2>2, <2>4 DEF PageInv
<1>5. ASSUME History(h)!Judged PROVE PageInv(h)' BY <1>5, PageKept DEF History!Judged
<1>6. ASSUME History(h)!ReadAnalytics PROVE PageInv(h)'
  <2>1. page' = page /\ phase' \in {"reports", "confidence"} BY <1>6 DEF History!ReadAnalytics
  <2>. QED BY <2>1, PageKept
<1>7. ASSUME History(h)!ReadMatchIQ PROVE PageInv(h)'
  <2>1. page' = page /\ phase' \in {"confidence", "answered"} BY <1>7 DEF History!ReadMatchIQ
  <2>. QED BY <2>1, PageKept
<1>8. ASSUME NEW f, NEW n \in h.limits, NEW k \in 0 .. 1, History(h)!OpenHistory(f, n, k * n)
      PROVE  PageInv(h)'
  <2>1. n \in Nat /\ k * n \in Nat
    <3>1. n \in Nat BY DEF History!HistoryWellFormed
    <3>. QED BY <3>1
  <2>2. page' = [filter |-> f, limit |-> n, offset |-> k * n, jobs |-> <<>>] /\ phase' = "scanning"
    BY <1>8 DEF History!OpenHistory
  <2>. QED BY <2>1, <2>2 DEF PageInv
<1>9. ASSUME History(h)!ScanMetadata PROVE PageInv(h)'
  <2>. DEFINE a == History(h)!Max(listed)
  <2>1. CASE a \notin DOMAIN library BY <1>9, <2>1, PageKept DEF History!ScanMetadata
  <2>2. CASE a \in DOMAIN library
    <3>1. /\ page' = [page EXCEPT !.jobs = [b \in DOMAIN page.jobs \union {a} |->
                                                IF b = a THEN library[a] ELSE page.jobs[b]]]
          /\ phase' = "scanning"
      BY <1>9, <2>2 DEF History!ScanMetadata
    <3>2. DOMAIN page' = DOMAIN page /\ page'.limit = page.limit /\ page'.offset = page.offset
      BY <3>1 DEF PageInv
    <3>. QED BY <3>1, <3>2 DEF PageInv
  <2>. QED BY <2>1, <2>2
<1>10. ASSUME History(h)!SlicePage PROVE PageInv(h)'
  <2>1. /\ phase = "scanning" /\ phase' = "paging" /\ listed' = History(h)!Slice
        /\ UNCHANGED <<items, pending, page>>
    BY <1>10 DEF History!SlicePage
  <2>2. DOMAIN items = {} /\ {p.id : p \in pending} = {} BY <2>1 DEF HistoryInv
  <2>. QED BY <1>0, <2>1, <2>2 DEF PageInv
<1>11. ASSUME History(h)!ShowPage PROVE PageInv(h)'
  <2>1. /\ phase = "paging" /\ phase' = "shown" /\ listed = {} /\ pending = {}
        /\ UNCHANGED <<items, page>>
    BY <1>11 DEF History!ShowPage
  <2>. QED BY <1>0, <2>1 DEF PageInv
<1>12. ASSUME NEW a \in h.ids, NEW j \in h.jobs, History(h)!ChangeAnalysis(a, j) PROVE PageInv(h)'
  BY <1>1, <1>12 DEF History!ChangeAnalysis
<1>13. ASSUME NEW a \in h.ids, History(h)!DeleteAnalysis(a) PROVE PageInv(h)'
  BY <1>1, <1>13 DEF History!DeleteAnalysis
<1>14. CASE UNCHANGED historyVars BY <1>1, <1>14 DEF historyVars
<1>. QED BY <1>2, <1>3, <1>4, <1>5, <1>6, <1>7, <1>8, <1>9, <1>10, <1>11, <1>12, <1>13, <1>14
         DEF History!Next, History!Request, History!PageRequest

\* While nothing has changed, all that was read is what the library holds.
QuietInv(h) ==
    edits = 0 =>
        /\ \A a \in DOMAIN page.jobs : a \in DOMAIN library /\ page.jobs[a] = library[a]
        /\ \A p \in pending : p.id \in DOMAIN library /\ p.job = History(h)!Projected(library[p.id])
        /\ \A a \in DOMAIN items : a \in DOMAIN library /\ items[a].job = History(h)!Projected(library[a])

LEMMA QuietInit ==
    ASSUME NEW h, History(h)!HistoryWellFormed, History(h)!Init PROVE QuietInv(h)
<1>1. page.jobs = <<>> /\ items = <<>> /\ pending = {} BY DEF History!Init, History!NoPage
<1>2. DOMAIN <<>> = {} OBVIOUS
<1>. QED BY <1>1, <1>2 DEF QuietInv

LEMMA QuietStep ==
    ASSUME NEW h, History(h)!HistoryWellFormed, HistoryInv(h), PageInv(h), QuietInv(h),
           [History(h)!Next]_historyVars
    PROVE  QuietInv(h)'
<1>1. ASSUME UNCHANGED <<library, edits, items>>, pending' = pending \/ pending' = {},
             page'.jobs = page.jobs \/ page'.jobs = <<>>
      PROVE  QuietInv(h)'
  <2>1. DOMAIN <<>> = {} OBVIOUS
  <2>. QED BY <1>1, <2>1 DEF QuietInv
<1>2. ASSUME History(h)!ListJobs PROVE QuietInv(h)' BY <1>1, <1>2 DEF History!ListJobs
<1>3. ASSUME History(h)!ProjectJob PROVE QuietInv(h)'
  <2>. DEFINE a == History(h)!Max(listed)
  <2>1. CASE a \notin DOMAIN library BY <1>1, <1>3, <2>1 DEF History!ProjectJob
  <2>2. CASE a \in DOMAIN library
    <3>1. /\ pending' = {[id |-> a, job |-> History(h)!Projected(library[a])]}
          /\ UNCHANGED <<library, items, page, edits>>
      BY <1>3, <2>2 DEF History!ProjectJob
    <3>. HIDE DEF a
    <3>2. \A p \in pending' : p.id = a /\ p.job = History(h)!Projected(library[a]) BY <3>1
    <3>. QED BY <2>2, <3>1, <3>2 DEF QuietInv, History!Projected
  <2>. QED BY <2>1, <2>2
<1>4. ASSUME History(h)!ProjectArtifacts PROVE QuietInv(h)'
  <2>1. pending' = {} /\ UNCHANGED <<library, edits, page>> BY <1>4 DEF History!ProjectArtifacts
  <2>2. PICK p \in pending :
           /\ DOMAIN items' = DOMAIN items \union {p.id}
           /\ \A b \in DOMAIN items' : items'[b].job = IF b = p.id THEN p.job ELSE items[b].job
    BY <1>4 DEF History!ProjectArtifacts
  <2>3. ASSUME edits = 0, NEW b \in DOMAIN items'
        PROVE  b \in DOMAIN library /\ items'[b].job = History(h)!Projected(library[b])
    BY <2>2, <2>3 DEF QuietInv
  <2>. QED BY <2>1, <2>3 DEF QuietInv, History!Projected
<1>5. ASSUME History(h)!Judged PROVE QuietInv(h)' BY <1>1, <1>5 DEF History!Judged
<1>6. ASSUME History(h)!ReadAnalytics PROVE QuietInv(h)' BY <1>1, <1>6 DEF History!ReadAnalytics
<1>7. ASSUME History(h)!ReadMatchIQ PROVE QuietInv(h)' BY <1>1, <1>7 DEF History!ReadMatchIQ
<1>8. ASSUME NEW f, NEW n, NEW k, History(h)!OpenHistory(f, n, k) PROVE QuietInv(h)'
  <2>1. page'.jobs = <<>> /\ UNCHANGED <<library, edits, items, pending>>
    BY <1>8 DEF History!OpenHistory
  <2>. QED BY <1>1, <2>1
<1>9. ASSUME History(h)!ScanMetadata PROVE QuietInv(h)'
  <2>. DEFINE a == History(h)!Max(listed)
  <2>1. CASE a \notin DOMAIN library BY <1>1, <1>9, <2>1 DEF History!ScanMetadata
  <2>2. CASE a \in DOMAIN library
    <3>1. /\ page' = [page EXCEPT !.jobs = [b \in DOMAIN page.jobs \union {a} |->
                                                IF b = a THEN library[a] ELSE page.jobs[b]]]
          /\ UNCHANGED <<library, items, pending, edits>>
      BY <1>9, <2>2 DEF History!ScanMetadata
    <3>. HIDE DEF a
    <3>2. page'.jobs = [b \in DOMAIN page.jobs \union {a} |-> IF b = a THEN library[a] ELSE page.jobs[b]]
      BY <3>1 DEF HistoryInv
    <3>. QED BY <2>2, <3>1, <3>2 DEF QuietInv
  <2>. QED BY <2>1, <2>2
<1>10. ASSUME History(h)!SlicePage PROVE QuietInv(h)' BY <1>1, <1>10 DEF History!SlicePage
<1>11. ASSUME History(h)!ShowPage PROVE QuietInv(h)' BY <1>1, <1>11 DEF History!ShowPage
<1>12. ASSUME NEW a \in h.ids, NEW j \in h.jobs, History(h)!ChangeAnalysis(a, j) PROVE QuietInv(h)'
  <2>1. edits' # 0 BY <1>12 DEF History!ChangeAnalysis, HistoryInv
  <2>. QED BY <2>1 DEF QuietInv
<1>13. ASSUME NEW a \in h.ids, History(h)!DeleteAnalysis(a) PROVE QuietInv(h)'
  <2>1. edits' # 0 BY <1>13 DEF History!DeleteAnalysis, HistoryInv
  <2>. QED BY <2>1 DEF QuietInv
<1>14. CASE UNCHANGED historyVars BY <1>1, <1>14 DEF historyVars
<1>. QED BY <1>2, <1>3, <1>4, <1>5, <1>6, <1>7, <1>8, <1>9, <1>10, <1>11, <1>12, <1>13, <1>14
         DEF History!Next, History!Request, History!PageRequest

\* The part of a set that is left of its n + l newest without its n newest.
LEMMA SliceIs ==
    ASSUME NEW h, NEW M \in SUBSET Nat, IsFiniteSet(M), NEW n \in Nat, NEW l \in Nat
    PROVE  LET A == History(h)!Latest(M, n)
               S == History(h)!Latest(M, n + l) \ A
           IN  /\ S \in SUBSET M /\ IsFiniteSet(S) /\ S \intersect A = {}
               /\ \A a \in A, b \in S : b < a
               /\ S # {} => Cardinality({a \in M : a > History(h)!Max(S)}) = n
               /\ Cardinality(S) < l => M = S \union A
<1>. DEFINE A == History(h)!Latest(M, n)
            B == History(h)!Latest(M, n + l)
            S == B \ A
            m == Cardinality(M)
<1>1. /\ m \in Nat /\ IsFiniteSet(A) /\ A \in SUBSET M
      /\ Cardinality(A) = IF n <= m THEN n ELSE m
      /\ \A a \in A : \A b \in M \ A : b < a
  BY LatestIs
<1>2. n + l \in Nat OBVIOUS
<1>3. /\ IsFiniteSet(B) /\ B \in SUBSET M
      /\ Cardinality(B) = IF n + l <= m THEN n + l ELSE m
      /\ \A a \in B : \A b \in M \ B : b < a
  BY <1>2, LatestIs
<1>4. A \in SUBSET B
  <2>1. ASSUME NEW a \in A PROVE a \in B
    <3>1. a \in M /\ Cardinality({b \in M : b > a}) < n BY SameCounts DEF History!Latest
    <3>2. Cardinality({b \in M : b > a}) \in Nat
      <4>1. IsFiniteSet({b \in M : b > a}) BY FS_Subset
      <4>. QED BY <4>1, FS_CardinalityType
    <3>3. Cardinality({b \in M : b > a}) < n + l BY <3>1, <3>2
    <3>. QED BY <3>1, <3>3, SameCounts DEF History!Latest
  <2>. QED BY <2>1
<1>. HIDE DEF A, B, m
<1>5. S \union A = B /\ S \intersect A = {} BY <1>4
<1>6. Cardinality(S) + Cardinality(A) = Cardinality(B) /\ Cardinality(S) \in Nat /\ IsFiniteSet(S)
  BY <1>3, <1>5, PartsAddUp
<1>7. S \in SUBSET M /\ \A a \in A, b \in S : b < a BY <1>1, <1>3
<1>8. ASSUME S # {} PROVE Cardinality({a \in M : a > History(h)!Max(S)}) = n
  <2>. DEFINE x == History(h)!Max(S)
  <2>1. x \in S /\ \A a \in S : a <= x
    <3>1. S \in SUBSET Nat BY <1>7
    <3>. HIDE DEF S
    <3>. QED BY <1>6, <1>8, <3>1, PeriodIs
  <2>. HIDE DEF x
  <2>2. x \in M /\ x \in B /\ x \notin A BY <1>7, <2>1
  <2>3. \A a \in M : a \notin B => ~(a > x) BY <1>3, <2>2
  <2>4. \A a \in M : a \in S => ~(a > x) BY <2>1, <2>2
  <2>5. \A a \in A : a > x BY <1>1, <2>2
  <2>6. {a \in M : a > x} = A BY <1>1, <2>3, <2>4, <2>5
  <2>7. n <= m
    <3>1. Cardinality(A) < Cardinality(M) BY <1>1, <2>2, ProperPart
    <3>. QED BY <1>1, <3>1 DEF m
  <2>. QED BY <1>1, <2>6, <2>7 DEF x
<1>9. ASSUME Cardinality(S) < l PROVE M = S \union A
  <2>1. Cardinality(A) \in Nat /\ Cardinality(A) <= n BY <1>1
  <2>2. ~(n + l <= m) BY <1>1, <1>3, <1>6, <1>9, <2>1
  <2>3. Cardinality(B) = Cardinality(M) BY <1>3, <2>2 DEF m
  <2>4. B = M
    <3>. SUFFICES ASSUME B # M PROVE FALSE OBVIOUS
    <3>1. Cardinality(B) < Cardinality(M) BY <1>3, ProperPart
    <3>. QED BY <1>1, <2>3, <3>1 DEF m
  <2>. QED BY <1>5, <2>4
<1>. QED BY <1>5, <1>6, <1>7, <1>8, <1>9 DEF A, B

LEMMA PageSlice ==
    ASSUME NEW h, History(h)!HistoryWellFormed, HistoryInv(h), PageInv(h), QuietInv(h)
    PROVE  History(h)!PageIsSlice
<1>. SUFFICES ASSUME phase = "shown" PROVE History(h)!PageIsSlice BY DEF History!PageIsSlice
<1>. DEFINE M == History(h)!Matching
            A == History(h)!Latest(M, page.offset)
            S == DOMAIN items
<1>1. M \in SUBSET Nat /\ IsFiniteSet(M) /\ M \in SUBSET DOMAIN page.jobs
  <2>1. h.ids \in SUBSET Nat /\ IsFiniteSet(h.ids) BY IncludedAre
  <2>2. M \in SUBSET DOMAIN page.jobs BY DEF History!Matching
  <2>3. M \in SUBSET h.ids BY <2>2 DEF HistoryInv
  <2>. HIDE DEF M
  <2>. QED BY <2>1, <2>2, <2>3, FS_Subset
<1>2. page.offset \in Nat /\ page.limit \in Nat /\ S = History(h)!Slice BY DEF PageInv
<1>3. S = History(h)!Latest(M, page.offset + page.limit) \ A BY <1>2 DEF History!Slice
<1>. HIDE DEF M, S
<1>4. /\ S \in SUBSET M /\ IsFiniteSet(S) /\ (\A a \in A, b \in S : b < a)
      /\ S # {} => Cardinality({a \in M : a > History(h)!Max(S)}) = page.offset
      /\ Cardinality(S) < page.limit => M = S \union A
  <2>. DEFINE n == page.offset
              l == page.limit
              T == History(h)!Latest(M, n + l) \ A
  <2>1. n \in Nat /\ l \in Nat /\ S = T BY <1>2, <1>3
  <2>. HIDE DEF n, l
  <2>2. /\ T \in SUBSET M /\ IsFiniteSet(T) /\ (\A a \in A, b \in T : b < a)
        /\ T # {} => Cardinality({a \in M : a > History(h)!Max(T)}) = n
        /\ Cardinality(T) < l => M = T \union A
    BY <1>1, <2>1, SliceIs DEF n
  <2>. HIDE DEF A, T
  <2>. QED BY <2>1, <2>2 DEF n, l
<1>. HIDE DEF A
<1>5. /\ items # <<>> => S # {}
      /\ items = <<>> => S = {}
  BY DEF S, HistoryInv
<1>6. items # <<>> => Cardinality({a \in M : a > History(h)!Max(S)}) = page.offset BY <1>4, <1>5
<1>7. ASSUME Cardinality(S) < page.limit
      PROVE  {a \in M : \A b \in S : a < b} \subseteq (IF items = <<>> THEN A ELSE {})
  <2>. SUFFICES ASSUME NEW a \in M, \A b \in S : a < b
                PROVE  a \in IF items = <<>> THEN A ELSE {}
    OBVIOUS
  <2>1. a \in Nat BY <1>1
  <2>2. a \notin S BY <2>1
  <2>3. a \in A BY <1>4, <1>7, <2>2
  <2>4. ASSUME items # <<>> PROVE FALSE
    <3>1. PICK b \in S : TRUE BY <1>5, <2>4
    <3>2. b < a /\ a < b /\ b \in Nat BY <1>1, <1>4, <2>3, <3>1
    <3>. QED BY <2>1, <3>2
  <2>. QED BY <2>3, <2>4
<1>8. ASSUME edits = 0, \A a \in S : items[a].job.current
      PROVE  \A a \in S : items[a].job = page.jobs[a] /\ a \in DOMAIN page.jobs /\ a \in M
  <2>1. ASSUME NEW a \in S PROVE items[a].job = page.jobs[a]
    <3>1. a \in DOMAIN page.jobs BY <1>1, <1>4
    <3>2. a \in DOMAIN library /\ page.jobs[a] = library[a] /\ items[a].job = History(h)!Projected(library[a])
      BY <1>8, <3>1 DEF QuietInv, S
    <3>3. library[a] \in History(h)!Job BY <3>2 DEF HistoryInv, History!HistoryWellFormed
    <3>4. History(h)!Projected(library[a]).current = library[a].current
      BY <3>3 DEF History!Projected, History!Job
    <3>5. library[a].current BY <1>8, <3>2, <3>4
    <3>. QED BY <3>2, <3>5 DEF History!Projected
  <2>. QED BY <1>1, <1>4, <2>1
<1>9. ASSUME edits = 0, \A a \in S : items[a].job.current
      PROVE  \A a \in S : page.filter \in {"ALL", History(h)!HistoryStatus(items[a].job)}
  BY <1>8, <1>9 DEF M, History!Matching
<1>10. ASSUME edits = 0, \A a \in S : items[a].job.current
       PROVE  Cardinality({a \in S : History(h)!Finished(items[a].job)}) <= History(h)!CompletedTotal
  <2>. DEFINE F == {a \in DOMAIN page.jobs : History(h)!Finished(page.jobs[a])}
              G == {a \in S : History(h)!Finished(items[a].job)}
  <2>1. G \in SUBSET F BY <1>8, <1>10
  <2>2. IsFiniteSet(F)
    <3>1. IsFiniteSet(h.ids) BY IncludedAre
    <3>2. F \in SUBSET h.ids BY DEF HistoryInv
    <3>. QED BY <3>1, <3>2, FS_Subset
  <2>3. History(h)!CompletedTotal = Cardinality(F) BY SameCounts DEF History!CompletedTotal
  <2>. HIDE DEF F, G
  <2>4. Cardinality(G) <= Cardinality(F) BY <2>1, <2>2, FS_Subset
  <2>. QED BY <2>3, <2>4 DEF G
<1>. QED BY <1>6, <1>7, <1>9, <1>10, SameCounts DEF History!PageIsSlice, M, S, A

-----------------------------------------------------------------------------
(* The four libraries.                                                      *)

ProgressInv(h) == HistoryInv(h) /\ ReadInv(h)
ListingInv(h) == HistoryInv(h) /\ PageInv(h) /\ QuietInv(h)

LEMMA ProgressInit ==
    ASSUME NEW h, History(h)!HistoryWellFormed, History(h)!Init PROVE ProgressInv(h)
BY HistoryInit, ReadInit DEF ProgressInv
LEMMA ProgressStep ==
    ASSUME NEW h, History(h)!HistoryWellFormed, ProgressInv(h), [History(h)!Next]_historyVars
    PROVE  ProgressInv(h)'
BY HistoryStep, ReadStep DEF ProgressInv
LEMMA ListingInit ==
    ASSUME NEW h, History(h)!HistoryWellFormed, History(h)!Init PROVE ListingInv(h)
BY HistoryInit, PageInit, QuietInit DEF ListingInv
LEMMA ListingStep ==
    ASSUME NEW h, History(h)!HistoryWellFormed, ListingInv(h), [History(h)!Next]_historyVars
    PROVE  ListingInv(h)'
BY HistoryStep, PageStep, QuietStep DEF ListingInv

\* Whatever the library, its reports and the changes under a request: groups,
\* status, directions and answer of Progress agree with one another and with the
\* reports they were made from, and a page of analyses is the slice it claims
\* to be (PlayHistoryService, _progress, _analysis_history).
THEOREM HistoryTheorem == Spec => []HistoryHonest
<1>. DEFINE Inv == /\ focus = "compared" => ProgressInv(Comparing)
                   /\ focus = "grouped" => ProgressInv(Grouping)
                   /\ focus = "trended" => ProgressInv(Trending)
                   /\ focus = "paged" => ListingInv(Paging)
<1>1. Init => Inv
  <2>. SUFFICES ASSUME Init PROVE Inv OBVIOUS
  <2>. USE WellFormed DEF WellFormed, Init, Histories
  <2>1. focus = "compared" => ProgressInv(Comparing) BY ProgressInit
  <2>2. focus = "grouped" => ProgressInv(Grouping) BY ProgressInit
  <2>3. focus = "trended" => ProgressInv(Trending) BY ProgressInit
  <2>4. focus = "paged" => ListingInv(Paging) BY ListingInit
  <2>. QED BY <2>1, <2>2, <2>3, <2>4
<1>2. Inv /\ [Next]_vars => Inv'
  <2>. SUFFICES ASSUME Inv, [Next]_vars PROVE Inv' OBVIOUS
  <2>. USE WellFormed DEF WellFormed
  <2>1. focus' = focus BY DEF Next, vars
  <2>2. /\ focus = "compared" => [History(Comparing)!Next]_historyVars
        /\ focus = "grouped" => [History(Grouping)!Next]_historyVars
        /\ focus = "trended" => [History(Trending)!Next]_historyVars
        /\ focus = "paged" => [History(Paging)!Next]_historyVars
    BY DEF Next, vars, Histories
  <2>3. ASSUME focus = "compared" PROVE ProgressInv(Comparing)' BY <2>2, <2>3, ProgressStep
  <2>4. ASSUME focus = "grouped" PROVE ProgressInv(Grouping)' BY <2>2, <2>4, ProgressStep
  <2>5. ASSUME focus = "trended" PROVE ProgressInv(Trending)' BY <2>2, <2>5, ProgressStep
  <2>6. ASSUME focus = "paged" PROVE ListingInv(Paging)' BY <2>2, <2>6, ListingStep
  <2>. QED BY <2>1, <2>3, <2>4, <2>5, <2>6
<1>3. Inv => HistoryHonest
  <2>. SUFFICES ASSUME Inv PROVE HistoryHonest OBVIOUS
  <2>. USE WellFormed DEF WellFormed
  <2>1. ASSUME NEW h, History(h)!HistoryWellFormed, ProgressInv(h)
        PROVE  /\ History(h)!GroupsBalanced /\ History(h)!StatusMatchesMetrics /\ History(h)!TrendsAreHonest
               /\ History(h)!AnswerAgrees /\ History(h)!ShownAgrees /\ History(h)!ComparedAreSound
    BY <2>1, GroupsBalance, StatusMatches, TrendsHonest, AnswersAgree, ShownAgree, HistoryConsequence
       DEF ProgressInv
  <2>2. ASSUME NEW h, History(h)!HistoryWellFormed, ListingInv(h)
        PROVE  History(h)!TypeOK /\ History(h)!PageIsSlice /\ History(h)!ShownAgrees
    BY <2>2, HistoryConsequence, PageSlice, ShownAgree DEF ListingInv
  <2>3. CASE focus = "compared" BY <2>1, <2>3 DEF HistoryHonest
  <2>4. CASE focus = "grouped" BY <2>1, <2>4 DEF HistoryHonest
  <2>5. CASE focus = "trended" BY <2>1, <2>5 DEF HistoryHonest
  <2>6. CASE focus = "paged" BY <2>2, <2>6 DEF HistoryHonest
  <2>7. CASE focus \notin {"compared", "grouped", "trended", "paged"} BY <2>7 DEF HistoryHonest
  <2>. QED BY <2>3, <2>4, <2>5, <2>6, <2>7
<1>. QED BY <1>1, <1>2, <1>3, PTL DEF Spec
=============================================================================
