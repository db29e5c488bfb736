---------------------------- MODULE EvidenceWork ----------------------------
(***************************************************************************)
(* The services that judge evidence: readiness for the next phase, the     *)
(* evaluation of labelled samples, the review of active play, and play     *)
(* history, four times with other libraries of one owner: analyses that    *)
(* change under the request, many analyses, different reports, and a page  *)
(* of analyses.  They share no variable: focus is the one that moves.      *)
(***************************************************************************)
EXTENDS Integers, FiniteSets, Sequences

CONSTANTS
    Manifests, ArtifactStates, Policies, Missing, Invalid,       \* readiness
    MinimumSamples, MinimumReviewed, MinimumCurrent, MinimumIntervals, MaxChanges,
    SampleLists,                                                 \* the evaluation
    Duration, MaxIntervals, ReviewLabels, Reports,                     \* the review
    Comparing, Grouping, Trending, Paging    \* histories: [ids, jobs, reports, limits, changes]

VARIABLES focus,
    manifest, artifacts, policy, governance, results, report, disagreements,
    integrity, evaluator, reader, history, changes,
    samples, evaluated,
    intervals, windows, simulated,
    library, phase, listed, pending, items, reports, confidences, page, edits

readyVars   == <<manifest, artifacts, policy, governance, results, report, disagreements,
                 integrity, evaluator, reader, history, changes>>
sampleVars  == <<samples, evaluated>>
windowVars  == <<intervals, windows, simulated>>
historyVars == <<library, phase, listed, pending, items, reports, confidences, page, edits>>
vars        == <<focus, readyVars, sampleVars, windowVars, historyVars>>

Readiness == INSTANCE CalibrationReadiness
Evaluation == INSTANCE EvidenceEvaluation WITH Manifests <- SampleLists
Review == INSTANCE ActivePlayReview WITH report <- windows, Labels <- ReviewLabels
\* A library and the requests to it: comparing, grouping, trending or paging.
History(h) == INSTANCE PlayHistory WITH
    Ids <- h.ids, Jobs <- h.jobs, MaxReports <- h.reports,
    Limits <- h.limits, MaxChanges <- h.changes, changes <- edits

ASSUME WellFormed ==
    /\ Readiness!InputsWellFormed /\ Evaluation!SamplesWellFormed /\ Review!ReviewWellFormed
    /\ History(Comparing)!HistoryWellFormed /\ History(Grouping)!HistoryWellFormed
    /\ History(Trending)!HistoryWellFormed /\ History(Paging)!HistoryWellFormed

Histories == {"compared", "grouped", "trended", "paged"}
Init ==
    /\ focus \in {"readiness", "evaluation", "review"} \union Histories
    /\ \/ focus = "readiness" /\ Readiness!Init
       \/ /\ focus # "readiness"
          /\ manifest = Missing /\ artifacts = <<>> /\ policy = <<>> /\ governance = Missing
          /\ results = Missing /\ report = Missing /\ disagreements = Missing /\ integrity = Missing
          /\ evaluator = Readiness!Idle /\ reader = Readiness!Idle /\ history = <<>> /\ changes = 0
    /\ \/ focus = "evaluation" /\ Evaluation!Init
       \/ focus # "evaluation" /\ samples = <<>> /\ evaluated = <<>>
    /\ \/ focus = "review" /\ Review!Init
       \/ focus # "review" /\ intervals = {} /\ windows = <<>> /\ simulated = <<>>
    /\ \/ focus = "compared" /\ History(Comparing)!Init
       \/ focus = "grouped" /\ History(Grouping)!Init
       \/ focus = "trended" /\ History(Trending)!Init
       \/ focus = "paged" /\ History(Paging)!Init
       \/ /\ focus \notin Histories
          /\ library = <<>> /\ phase = "idle" /\ listed = {} /\ pending = {} /\ edits = 0
          /\ items = <<>> /\ reports = <<>> /\ confidences = <<>> /\ page = History(Comparing)!NoPage
Next ==
    /\ UNCHANGED focus
    /\ \/ focus = "readiness"  /\ Readiness!Next  /\ UNCHANGED <<sampleVars, windowVars, historyVars>>
       \/ focus = "evaluation" /\ Evaluation!Next /\ UNCHANGED <<readyVars, windowVars, historyVars>>
       \/ focus = "review"     /\ Review!Next     /\ UNCHANGED <<readyVars, sampleVars, historyVars>>
       \/ focus = "compared"   /\ History(Comparing)!Next   /\ UNCHANGED <<readyVars, sampleVars, windowVars>>
       \/ focus = "grouped"    /\ History(Grouping)!Next    /\ UNCHANGED <<readyVars, sampleVars, windowVars>>
       \/ focus = "trended"    /\ History(Trending)!Next    /\ UNCHANGED <<readyVars, sampleVars, windowVars>>
       \/ focus = "paged"      /\ History(Paging)!Next      /\ UNCHANGED <<readyVars, sampleVars, windowVars>>
Spec == Init /\ [][Next]_vars

-----------------------------------------------------------------------------
(* Properties.                                                              *)

\* The next phase opens only on results for the manifest the request saw,
\* under the policies the code now has, with both approvals, and with every
\* split represented by current evidence - although the files are written one
\* by one and rewritten while the request reads them; and an integrity record
\* says "match" only of results two completed evaluations produced.
ReadyIsEarned == focus = "readiness" =>
    /\ Readiness!TypeOK /\ Readiness!MatchMeansReproduced
    /\ Readiness!ReadyIsCurrent /\ Readiness!ReadyRestsOnEvidence

\* The counts of an evaluation add up whatever samples it holds: qualities and
\* confusion matrix, gate errors and disagreements; validation and holdout take
\* no part in a simulation; and a sample nobody has to look at again agrees
\* with its labels and rests on present, valid, current artifacts.
EvaluationConsistent == focus = "evaluation" =>
    /\ Evaluation!TypeOK /\ Evaluation!QualityCountsAgree /\ Evaluation!GateErrorsAgree
    /\ Evaluation!HoldoutProtected /\ Evaluation!PassedSamplesAreSound

\* Reviewed active-play time is partitioned, abstention wins over any definite
\* state, and a simulation agrees with the metrics and improves a sample only
\* towards a reliable label (_active_play_metrics, _state_for_interval).
PlayReviewHonest == focus = "review" =>
    /\ Review!TypeOK /\ Review!DurationsPartition /\ Review!AbstentionWins
    /\ Review!MatchesAreAgreements /\ Review!ImprovementIsLabelled

\* Whatever changed between judging an analysis and reading its report again, a
\* compared report has qualified time and confidence and was judged from
\* verified, complete, current and strong evidence.
ComparedAreSound == focus = "compared" => History(Comparing)!TypeOK /\ History(Comparing)!ComparedAreSound

\* The groups are equal, apart and in time order, a comparison is announced
\* exactly when it is shown, a quantity no recent report has more of is never
\* shown as increased, the answer agrees with what is shown, and a page of
\* analyses is the slice it claims to be (_progress, _analysis_history).
HistoryHonest ==
    CASE focus = "compared" -> /\ History(Comparing)!GroupsBalanced /\ History(Comparing)!StatusMatchesMetrics
                               /\ History(Comparing)!AnswerAgrees /\ History(Comparing)!ShownAgrees
      [] focus = "grouped" -> /\ History(Grouping)!GroupsBalanced /\ History(Grouping)!StatusMatchesMetrics
                              /\ History(Grouping)!AnswerAgrees /\ History(Grouping)!ComparedAreSound
      [] focus = "trended" -> /\ History(Trending)!GroupsBalanced /\ History(Trending)!TrendsAreHonest
                              /\ History(Trending)!AnswerAgrees
      [] focus = "paged" -> History(Paging)!TypeOK /\ History(Paging)!PageIsSlice /\ History(Paging)!ShownAgrees
      [] OTHER -> TRUE
=============================================================================
