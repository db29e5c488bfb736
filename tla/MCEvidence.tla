----------------------------- MODULE MCEvidence -----------------------------
(* TLC instance of EvidenceWork: three-sample manifests for readiness and   *)
(* for the evaluation (every pair of samples by quality and by gate, every  *)
(* sample by its artifacts), a recording of three units with two reviewed   *)
(* intervals, and the four play histories.                                  *)
EXTENDS EvidenceWork, TLC

CONSTANTS policy1, policy2

-----------------------------------------------------------------------------
(* Readiness: one sample of each split, complete or with labels missing.    *)
Sample(i, split, labels) == [id |-> i, split |-> split, reviewed |-> TRUE, labels |-> labels]
AllLabels == {"identity", "tracking", "active", "boundary"}
Whole(last) == {Sample(1, "development", AllLabels), Sample(2, "validation", AllLabels),
                Sample(3, "holdout", last)}
TwoSplits == {Sample(1, "development", AllLabels), Sample(2, "validation", {"identity"})}
AllReady == [i \in 1 .. 3 |-> "ready"]
AllManifests == {Whole(AllLabels), Whole(AllLabels \ {"tracking"}), TwoSplits}
AllArtifacts == {AllReady, [AllReady EXCEPT ![3] = "legacy"]}

(* Evaluation: every pair of qualities in two splits, with one simulated    *)
(* quality better or worse; every gate; every outcome of every reference.   *)
Stages == {"metadata", "candidates", "analytics", "match_iq"}
Versioned == {"candidates", "match_iq"}
AllCurrent == [k \in Stages |-> "current"]
Unlabelled == [split |-> "development", reviewed |-> TRUE, complete |-> TRUE, verdict |-> -1,
               expected |-> -1, expectedGate |-> "none", artifacts |-> AllCurrent,
               quality |-> 3, gate |-> "NORMAL", proposed |-> 3]
Gates == {"NORMAL", "CAUTIOUS", "MEASUREMENT_ONLY", "INSUFFICIENT_EVIDENCE"}
QualitySamples == {[Unlabelled EXCEPT !.split = sp, !.expected = e, !.quality = q, !.proposed = p,
                                      !.expectedGate = "CAUTIOUS", !.gate = "CAUTIOUS"] :
    sp \in {"development", "holdout"}, e \in -1 .. 3, q \in 0 .. 3, p \in {0, 3}}
GateSamples == {[Unlabelled EXCEPT !.expectedGate = eg, !.gate = g, !.artifacts = a] :
    eg \in Gates \union {"none"}, g \in Gates,
    a \in {AllCurrent, [AllCurrent EXCEPT !["analytics"] = "absent"],
           [AllCurrent EXCEPT !["analytics"] = "absent", !["metadata"] = "invalid"]}}
ArtifactSamples == {[Unlabelled EXCEPT !.artifacts = a, !.reviewed = r] :
    a \in {f \in [Stages -> {"unreferenced", "absent", "invalid", "old", "current"}] :
               \A k \in Stages \ Versioned : f[k] # "old"}, r \in BOOLEAN}
Labelled == QualitySamples \union GateSamples
AllSampleLists == [1 .. 2 -> Labelled] \union [1 .. 1 -> ArtifactSamples]

(* Active play: three units, two intervals, labels that copy or contradict. *)
Plain == [expected |-> "likely_active", court4 |-> "none", falseActive |-> FALSE, falseIdle |-> FALSE,
          reviewable |-> FALSE, unsure |-> FALSE, bounds |-> FALSE, lag |-> 0, tolerance |-> 1]
States == {"likely_active", "likely_idle", "unknown"}
IntervalLabels ==
    {[Plain EXCEPT !.expected = e, !.court4 = c] :
        e \in {"likely_active", "likely_idle"}, c \in States \union {"none"}}
  \union {[Plain EXCEPT !.reviewable = TRUE], [Plain EXCEPT !.unsure = TRUE, !.court4 = "likely_active"],
          [Plain EXCEPT !.expected = "uncertain", !.court4 = "likely_idle"],
          [Plain EXCEPT !.expected = "likely_idle", !.court4 = "likely_active", !.falseActive = TRUE],
          [Plain EXCEPT !.falseIdle = TRUE, !.court4 = "likely_active", !.bounds = TRUE, !.lag = 2]}
Complete == [1 .. 3 -> States]
Sparse == {[w EXCEPT ![u] = "none"] : w \in Complete, u \in 1 .. 3}
AllReports == {<<w, v>> : w \in Complete \union Sparse,
                          v \in {u \in Complete : u[1] = "likely_active" /\ u[2] = u[3]}}

(* Play history.                                                            *)
Rep(t, k, d) == [present |-> TRUE, observed |-> t, tracked |-> t, distance |-> d,
                 zones |-> [z \in {"kitchen", "transition", "baseline"} |->
                                CASE z = "kitchen" -> k [] z = "transition" -> t - k [] OTHER -> 0]]
NoReport == [Rep(0, 0, 0) EXCEPT !.present = FALSE]
Good == [pickleball |-> TRUE, status |-> "completed", readiness |-> "good",
         preflight |-> "good", signals |-> "strong",
         completed |-> TRUE, verified |-> TRUE, current |-> TRUE, analytics |-> Rep(4, 1, 2),
         iq |-> [tracking |-> "fine", measurement |-> "fine", verified |-> TRUE]]
Unfinished == [Good EXCEPT !.analytics = NoReport, !.completed = FALSE, !.status = "processing",
                           !.iq = [tracking |-> "absent", measurement |-> "absent", verified |-> FALSE]]
ChangingJobs == {Good, Unfinished, [Good EXCEPT !.current = FALSE],
                 [Good EXCEPT !.iq.tracking = "weak"], [Good EXCEPT !.analytics.observed = 0]}
GroupJobs == {Good, [Good EXCEPT !.iq.tracking = "weak"]}
TrendJobs == {Good, [Good EXCEPT !.analytics = Rep(8, 6, 8)], [Good EXCEPT !.analytics = Rep(1, 0, 3)],
              [Good EXCEPT !.analytics = Rep(4, 4, 0)]}
PageJobs == {Good, Unfinished, [Good EXCEPT !.current = FALSE], [Unfinished EXCEPT !.status = "failed"],
             [Good EXCEPT !.readiness = "limited"], [Unfinished EXCEPT !.preflight = "unsuitable"]}
HistoryOf(n, jobs, count, limits, edited) ==
    [ids |-> 1 .. n, jobs |-> jobs, reports |-> count, limits |-> limits, changes |-> edited]
ChangingHistory == HistoryOf(4, ChangingJobs, 4, {}, 1)
GroupedHistory == HistoryOf(7, GroupJobs, 5, {}, 0)
TrendedHistory == HistoryOf(5, TrendJobs, 5, {}, 0)
PagedHistory == HistoryOf(3, PageJobs, 4, {1, 2}, 1)
=============================================================================
