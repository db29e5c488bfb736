---------------------------- MODULE PlayHistory ----------------------------
(***************************************************************************)
(* The Play History projection (services/history): one request lists an    *)
(* owner's analyses, judges each from its metadata and its report, reads   *)
(* the reports of the included ones again, and compares the earlier half   *)
(* of the comparable ones with the recent half.  Another request shows one *)
(* page of the analyses, filtered by status.  Meanwhile the pipeline       *)
(* changes analyses and the owner deletes some: a request holds no lock.   *)
(* Identifiers are numbered by (created_at, analysis_id).                  *)
(***************************************************************************)
EXTENDS Integers, FiniteSets, FiniteSetsExt, Functions

CONSTANTS Ids,            \* analyses, in the order of their creation
          Jobs,           \* what an analysis may look like to a reader
          MaxReports,     \* MAXIMUM_COMPARISON_REPORTS
          Limits,         \* page sizes of the requests for a page; {}: no such request
          MaxChanges      \* bound on the changes during the request

Baseline == 3             \* BASELINE_MINIMUM_REPORTS
TrendMinimum == 4         \* TREND_MINIMUM_REPORTS
GroupMinimum == 2         \* MINIMUM_REPORTS_PER_GROUP
Zones == {"kitchen", "transition", "baseline"}
Report == [present : BOOLEAN, observed : Nat, tracked : Nat, distance : Nat, zones : [Zones -> Nat]]
\* verified: generated, behind a NORMAL or CAUTIOUS gate.
Confidence == [tracking : {"absent", "weak", "fine"}, measurement : {"absent", "weak", "fine"},
               verified : BOOLEAN]
Quality == {"none", "good", "limited", "unsuitable"}
\* signals: of the readiness assessment; current: candidate_evidence_is_current.
Job == [pickleball : BOOLEAN, status : {"pending", "processing", "completed", "failed"},
        readiness : Quality, preflight : Quality, signals : {"none", "weak", "strong"}, completed : BOOLEAN,
        verified : BOOLEAN, current : BOOLEAN, analytics : Report, iq : Confidence]
NoReport == [present |-> FALSE, observed |-> 0, tracked |-> 0, distance |-> 0, zones |-> [z \in Zones |-> 0]]
NoConfidence == [tracking |-> "absent", measurement |-> "absent", verified |-> FALSE]
Statuses == {"FAILED", "UNSUITABLE", "PROCESSING", "LIMITED", "READY", "LEGACY"}
NoPage == [filter |-> "ALL", limit |-> 0, offset |-> 0, jobs |-> <<>>]

HistoryWellFormed ==
    /\ Ids \subseteq Nat /\ IsFiniteSet(Ids) /\ MaxReports \in Nat \ 0 .. 3 /\ MaxChanges \in Nat
    /\ Limits \subseteq Nat \ {0}
    /\ Jobs \subseteq Job
    /\ \A j \in Jobs : j.readiness = "none" => j.signals = "none"

VARIABLES library,        \* the owner's analyses, as the registry holds them
          phase,          \* idle, judging, reports, confidence, answered, failed;
                          \* scanning, paging, shown: of a request for a page
          listed,         \* identifiers still to be judged
          pending,        \* the analysis being judged: its metadata is read
          items,          \* the judged ones: [job, status, measured]
          reports,        \* the analytics read again
          confidences,    \* the Match IQ confidence read again
          page,           \* [filter, limit, offset, jobs]: the metadata scanned for a page
          changes
vars == <<library, phase, listed, pending, items, reports, confidences, page, changes>>

-----------------------------------------------------------------------------
(* Judging one analysis. *)

\* Legacy candidate evidence makes the projection treat the job as unfinished.
Projected(j) == IF j.current THEN j
                ELSE [j EXCEPT !.completed = FALSE, !.readiness = "none", !.signals = "none",
                               !.status = "processing"]

\* _load_analytics and _load_match_iq: absent reports, deleted analyses and
\* analyses with legacy evidence all read as None.
Resolved(a) == a \in DOMAIN library /\ library[a].current
LoadAnalytics(a) == IF Resolved(a) THEN library[a].analytics ELSE NoReport
LoadMatchIQ(a) == IF Resolved(a) THEN library[a].iq ELSE NoConfidence

Contribution(j, analytics, iq) ==
    CASE ~j.pickleball \/ j.status = "failed" \/ j.readiness = "unsuitable" -> "excluded"
      [] j.status \in {"pending", "processing"} \/ ~j.completed -> "provisional"
      [] ~j.verified -> "excluded"
      [] ~analytics.present \/ j.signals = "none" -> "not_evaluated"
      [] \/ j.signals = "weak" \/ analytics.observed <= 0 \/ analytics.tracked <= 0
         \/ iq.measurement = "weak" -> "excluded"
      [] OTHER -> "included"

\* What the player is told about an analysis: of its assessment, else of its upload.
QualityOf(j) == IF j.readiness = "none" THEN j.preflight ELSE j.readiness
HistoryStatus(j) ==
    CASE j.status = "failed" -> "FAILED"
      [] j.status # "failed" /\ QualityOf(j) = "unsuitable" -> "UNSUITABLE"
      [] j.status \in {"pending", "processing"} /\ QualityOf(j) # "unsuitable" -> "PROCESSING"
      [] j.status = "completed" /\ QualityOf(j) = "limited" -> "LIMITED"
      [] j.status = "completed" /\ QualityOf(j) \in {"good", "none"} ->
            IF j.completed THEN "READY" ELSE "LEGACY"
Finished(j) == HistoryStatus(j) \in {"READY", "LIMITED", "UNSUITABLE"}
Cautioned(j) == HistoryStatus(j) = "FAILED" \/ QualityOf(j) \in {"limited", "unsuitable"}

Included == {a \in DOMAIN items : items[a].status = "included"}

\* evaluate_comparability, on what was read the second time.
Comparable_Measured(a) ==
    /\ reports[a].present /\ reports[a].observed > 0 /\ reports[a].tracked > 0
    /\ confidences[a].measurement # "weak"
Comparable(a) == /\ reports[a].present /\ reports[a].observed > 0 /\ reports[a].tracked > 0
                 /\ confidences[a].tracking # "weak" /\ confidences[a].measurement # "weak"
ComparableReports == {a \in Included : Comparable(a)}

-----------------------------------------------------------------------------
(* Grouping and aggregation. *)

Latest(S, n) == {a \in S : Cardinality({b \in S : b > a}) < n}
Earliest(S, n) == {a \in S : Cardinality({b \in S : b < a}) < n}
Window == Latest(ComparableReports, MaxReports)
GroupSize == Cardinality(Window) \div 2
Earlier == IF Cardinality(Window) < TrendMinimum THEN {} ELSE Earliest(Window, GroupSize)
Recent == IF Cardinality(Window) < TrendMinimum THEN {} ELSE Latest(Window, GroupSize)
Middle == IF Cardinality(Window) < TrendMinimum THEN {} ELSE Window \ (Earlier \union Recent)
Omitted == (ComparableReports \ Window) \union Middle

Trend == LET n == Cardinality(ComparableReports) IN
         IF n < Baseline THEN "ineligible"
         ELSE IF n = Baseline THEN "provisional"
         ELSE IF Cardinality(Earlier) < GroupMinimum \/ Cardinality(Recent) < GroupMinimum THEN "ineligible"
         ELSE "provisional"   \* no persisted report records format and camera, so none is fully eligible
MetricsShown == Earlier # {} /\ Recent # {} /\ Trend = "provisional"
BaselineStatus ==
    LET n == Cardinality(ComparableReports) IN
    CASE Included = {} -> "NO_QUALIFIED_REPORTS"
      [] n < Baseline /\ Cardinality(Included) >= Baseline -> "MIXED_OR_INCOMPATIBLE_REPORTS"
      [] Included # {} /\ n < Baseline /\ Cardinality(Included) < Baseline -> "BUILDING_BASELINE"
      [] n = Baseline -> "BASELINE_ESTABLISHED"
      [] n > Baseline /\ Trend = "ineligible" -> "MIXED_OR_INCOMPATIBLE_REPORTS"
      [] OTHER -> "COMPARISON_AVAILABLE"

\* Quantities of a report.  An aggregate is a quotient of two sums.
Quantity(q, a) == CASE q = "pace" -> reports[a].distance
                    [] q = "tracked" -> reports[a].tracked
                    [] q = "observed" -> reports[a].observed
                    [] q \in Zones -> reports[a].zones[q]
Sum(q, S) == MapThenSumSet(LAMBDA a : Quantity(q, a), S)
Tracked(S) == Sum("tracked", S)
\* (recent value - earlier value) * Tracked(Recent) * Tracked(Earlier).
Change_Summed(q) == (Sum(q, Recent) - Sum(q, Earlier)) * Tracked(Earlier)
Change(q) == Sum(q, Recent) * Tracked(Earlier) - Sum(q, Earlier) * Tracked(Recent)
Magnitude(q) == IF Change(q) < 0 THEN -Change(q) ELSE Change(q)
\* The tolerances, 0.05 m/s and 5 percentage points, are both a twentieth.
Small(q) == 20 * Magnitude(q) < Tracked(Earlier) * Tracked(Recent)
Direction(q) == IF Small(q) THEN "stable" ELSE IF Change(q) > 0 THEN "increased" ELSE "decreased"
Strongest == CHOOSE z \in Zones : \A y \in Zones : Magnitude(y) <= Magnitude(z)
PlayStyle == IF Small(Strongest) THEN "NO_CLEAR_CHANGE" ELSE "PROVISIONAL_CHANGE"

-----------------------------------------------------------------------------
(* The page: its answer, the groups it names, its summaries. *)

Reported == {a \in Included : reports[a].present}
Observed(S) == Sum("observed", S)
ComparisonGroup(S) == [analyses |-> S, period |-> Min(S) .. Max(S),
                       observed |-> Observed(S), tracked |-> Tracked(S)]
Groups == IF Earlier = {} \/ Recent = {} THEN <<>>
          ELSE [name \in {"Earlier", "Recent"} |->
                    ComparisonGroup(IF name = "Earlier" THEN Earlier ELSE Recent)]

Interpretation == CASE Trend = "ineligible" -> "not_evaluated"
                    [] Trend # "ineligible" /\ ~MetricsShown -> "ineligible"
                    [] OTHER -> "provisional"
Contributing == IF MetricsShown THEN Earlier \union Recent ELSE Window
Changed == MetricsShown /\ \E q \in Zones \union {"pace"} : Direction(q) # "stable"
Answer == CASE BaselineStatus = "NO_QUALIFIED_REPORTS" -> "not started"
            [] BaselineStatus = "BUILDING_BASELINE" -> "building your baseline"
            [] BaselineStatus = "BASELINE_ESTABLISHED" -> "initial baseline"
            [] BaselineStatus = "MIXED_OR_INCOMPATIBLE_REPORTS" -> "not comparable"
            [] OTHER -> IF Changed THEN "observed changes" ELSE "no clear change"

\* Reports without any time in a zone contribute nothing; ties go by the zone's name.
ZoneTime(a) == MapThenSumSet(LAMBDA z : reports[a].zones[z], Zones)
ZoneReports == {a \in Reported : ZoneTime(a) > 0}
Rank == [baseline |-> 1, kitchen |-> 2, transition |-> 3]
ZoneSum(z) == Sum(z, ZoneReports)
MostCommonZone ==
    IF ZoneReports = {} THEN "none"
    ELSE CHOOSE z \in Zones : \A y \in Zones \ {z} :
            \/ ZoneSum(y) < ZoneSum(z)
            \/ ZoneSum(y) = ZoneSum(z) /\ Rank[z] < Rank[y]
VerifiedMatchIQ(n) == Latest({a \in Included : confidences[a].verified}, n)

\* The page of analyses: filtered and counted by the scanned metadata.
Matching == {a \in DOMAIN page.jobs : page.filter \in {"ALL", HistoryStatus(page.jobs[a])}}
CompletedTotal == Cardinality({a \in DOMAIN page.jobs : Finished(page.jobs[a])})
Slice == Latest(Matching, page.offset + page.limit) \ Latest(Matching, page.offset)

-----------------------------------------------------------------------------
(* The requests and the library. *)

Init == /\ \E S \in SUBSET Ids : library \in [S -> Jobs]
        /\ phase = "idle" /\ listed = {} /\ pending = {} /\ changes = 0
        /\ items = <<>> /\ reports = <<>> /\ confidences = <<>> /\ page = NoPage

\* list_job_ids.
ListJobs == /\ phase = "idle"
            /\ phase' = "judging" /\ listed' = DOMAIN library
            /\ UNCHANGED <<library, pending, items, reports, confidences, page, changes>>

\* _project_analysis, first half: a listed analysis deleted by now fails the request.
ProjectJob == /\ phase \in {"judging", "paging"} /\ pending = {} /\ listed # {}
              /\ LET a == Max(listed) IN
                 \/ /\ a \in DOMAIN library
                    /\ pending' = {[id |-> a, job |-> Projected(library[a])]}
                    /\ listed' = listed \ {a} /\ UNCHANGED phase
                 \/ a \notin DOMAIN library /\ phase' = "failed" /\ UNCHANGED <<listed, pending>>
              /\ UNCHANGED <<library, items, reports, confidences, page, changes>>

\* Second half: only verified and completed jobs have their reports read.
ProjectArtifacts ==
    /\ phase \in {"judging", "paging"}
    /\ \E p \in pending :
        LET authoritative == p.job.verified /\ p.job.completed
            analytics == IF authoritative THEN LoadAnalytics(p.id) ELSE NoReport
            iq == IF authoritative THEN LoadMatchIQ(p.id) ELSE NoConfidence
        IN items' = [b \in DOMAIN items \union {p.id} |->
                       IF b = p.id THEN [job |-> p.job, status |-> Contribution(p.job, analytics, iq),
                                         measured |-> analytics.present]
                       ELSE items[b]]
    /\ pending' = {}
    /\ UNCHANGED <<library, phase, listed, reports, confidences, page, changes>>

Judged == /\ phase = "judging" /\ listed = {} /\ pending = {}
          /\ phase' = "reports"
          /\ UNCHANGED <<library, listed, pending, items, reports, confidences, page, changes>>

\* analytics_by_id, then match_iq_by_id: two more reads of every included analysis.
ReadAnalytics ==
    /\ phase = "reports"
    /\ LET left == Included \ DOMAIN reports IN
       \/ /\ left # {}
          /\ reports' = [b \in DOMAIN reports \union {Max(left)} |->
                            IF b = Max(left) THEN LoadAnalytics(b) ELSE reports[b]]
          /\ UNCHANGED phase
       \/ left = {} /\ phase' = "confidence" /\ UNCHANGED reports
    /\ UNCHANGED <<library, listed, pending, items, confidences, page, changes>>
ReadMatchIQ ==
    /\ phase = "confidence"
    /\ LET left == Included \ DOMAIN confidences IN
       \/ /\ left # {}
          /\ confidences' = [b \in DOMAIN confidences \union {Max(left)} |->
                                IF b = Max(left) THEN LoadMatchIQ(b) ELSE confidences[b]]
          /\ UNCHANGED phase
       \/ left = {} /\ phase' = "answered" /\ UNCHANGED confidences
    /\ UNCHANGED <<library, listed, pending, items, reports, page, changes>>

\* _analysis_history: the identifiers, then the metadata of each, then the
\* filter and the slice; only the analyses of the page are projected.
OpenHistory(filter, limit, offset) ==
    /\ phase = "idle"
    /\ phase' = "scanning" /\ listed' = DOMAIN library
    /\ page' = [filter |-> filter, limit |-> limit, offset |-> offset, jobs |-> <<>>]
    /\ UNCHANGED <<library, pending, items, reports, confidences, changes>>
ScanMetadata ==
    /\ phase = "scanning" /\ listed # {}
    /\ LET a == Max(listed) IN
       \/ /\ a \in DOMAIN library
          /\ page' = [page EXCEPT !.jobs =
                          [b \in DOMAIN @ \union {a} |-> IF b = a THEN library[a] ELSE @[b]]]
          /\ listed' = listed \ {a} /\ UNCHANGED phase
       \/ a \notin DOMAIN library /\ phase' = "failed" /\ UNCHANGED <<listed, page>>
    /\ UNCHANGED <<library, pending, items, reports, confidences, changes>>
SlicePage == /\ phase = "scanning" /\ listed = {}
             /\ phase' = "paging" /\ listed' = Slice
             /\ UNCHANGED <<library, pending, items, reports, confidences, page, changes>>
ShowPage == /\ phase = "paging" /\ listed = {} /\ pending = {}
            /\ phase' = "shown"
            /\ UNCHANGED <<library, listed, pending, items, reports, confidences, page, changes>>

\* The pipeline publishes another state of an analysis; the owner deletes one.
ChangeAnalysis(a, j) ==
    /\ changes < MaxChanges /\ phase \notin {"answered", "shown", "failed"}
    /\ library' = [b \in DOMAIN library \union {a} |-> IF b = a THEN j ELSE library[b]]
    /\ changes' = changes + 1
    /\ UNCHANGED <<phase, listed, pending, items, reports, confidences, page>>
DeleteAnalysis(a) ==
    /\ changes < MaxChanges /\ phase \notin {"answered", "shown", "failed"} /\ a \in DOMAIN library
    /\ library' = [b \in DOMAIN library \ {a} |-> library[b]]
    /\ changes' = changes + 1
    /\ UNCHANGED <<phase, listed, pending, items, reports, confidences, page>>

Request == ListJobs \/ ProjectJob \/ ProjectArtifacts \/ Judged \/ ReadAnalytics \/ ReadMatchIQ
PageRequest == \/ \E f \in Statuses \union {"ALL"}, n \in Limits, k \in 0 .. 1 : OpenHistory(f, n, k * n)
               \/ ScanMetadata \/ SlicePage \/ ShowPage
Next == \/ Request
        \/ PageRequest
        \/ \E a \in Ids, j \in Jobs : ChangeAnalysis(a, j)
        \/ \E a \in Ids : DeleteAnalysis(a)
Spec == Init /\ [][Next]_vars

-----------------------------------------------------------------------------
(* Properties. *)

Answered == phase = "answered"
TypeOK == /\ DOMAIN library \subseteq Ids /\ \A a \in DOMAIN library : library[a] \in Jobs
          /\ phase \in {"idle", "judging", "reports", "confidence", "answered",
                        "scanning", "paging", "shown", "failed"}
          /\ listed \subseteq Ids /\ Cardinality(pending) <= 1 /\ changes \in 0 .. MaxChanges
          /\ DOMAIN confidences \subseteq Included /\ DOMAIN reports \subseteq Included
          /\ DOMAIN items \subseteq Ids \ listed /\ DOMAIN page.jobs \subseteq Ids

\* Whatever changed between judging an analysis and reading its report again, a
\* compared report has qualified time and confidence, and stands for an analysis
\* that was judged from verified, complete, current and strong evidence.
ComparedAreSound ==
    Answered => \A a \in Earlier \union Recent :
        /\ reports[a].observed > 0 /\ reports[a].tracked > 0
        /\ "weak" \notin {confidences[a].tracking, confidences[a].measurement}
        /\ items[a].job.verified /\ items[a].job.completed /\ items[a].job.current
        /\ items[a].job.signals = "strong" /\ items[a].job.readiness # "unsuitable" /\ items[a].job.pickleball

\* The two groups are equal, apart, in time order and at least two strong; every
\* comparable report is in one of them, or disclosed as omitted.
GroupsBalanced ==
    Answered =>
        /\ Cardinality(Earlier) = Cardinality(Recent) /\ Earlier \intersect Recent = {}
        /\ \A a \in Earlier, b \in Recent : a < b
        /\ Earlier # {} => /\ Cardinality(Earlier) >= GroupMinimum
                           /\ Earlier \union Recent \union Omitted = ComparableReports
                           /\ Cardinality(Middle) <= 1
        /\ Cardinality(Earlier \union Recent) <= MaxReports

\* The page announces a comparison exactly when it shows one, and a baseline
\* only while there is none.
StatusMatchesMetrics ==
    Answered => /\ BaselineStatus = "COMPARISON_AVAILABLE" <=> MetricsShown
                /\ BaselineStatus = "BASELINE_ESTABLISHED" => Earlier = {} /\ Trend = "provisional"
                /\ Trend = "ineligible" => BaselineStatus \in
                     {"NO_QUALIFIED_REPORTS", "BUILDING_BASELINE", "MIXED_OR_INCOMPATIBLE_REPORTS"}

\* A quantity that every recent report has at most at the rate of every earlier
\* report is never shown as increased; zones that exhaust the tracked time never
\* all grow; and a position change is claimed exactly when some zone changed.
TrendsAreHonest ==
    Answered /\ MetricsShown =>
        /\ \A q \in Zones \union {"pace"} :
             (\A a \in Earlier, b \in Recent :
                 Quantity(q, b) * reports[a].tracked <= Quantity(q, a) * reports[b].tracked)
             => Direction(q) # "increased"
        /\ (\A a \in Earlier \union Recent : ZoneTime(a) = reports[a].tracked)
           => \E z \in Zones : Direction(z) # "increased"
        /\ PlayStyle = "PROVISIONAL_CHANGE" <=> \E z \in Zones : Direction(z) # "stable"

\* The answer agrees with what the page shows: it announces changes only when
\* the groups it names were measured, moved apart in time and are part of the
\* qualified time; a claimed position change is announced; and the most common
\* zone is the one that leads wherever a single zone leads every report.
AnswerAgrees ==
    Answered =>
        /\ Answer \in {"observed changes", "no clear change"} <=> Interpretation = "provisional"
        /\ MetricsShown /\ PlayStyle = "PROVISIONAL_CHANGE" => Answer = "observed changes"
        /\ Contributing \subseteq Reported
        /\ Groups # <<>> =>
             /\ Groups["Earlier"].period \intersect Groups["Recent"].period = {}
             /\ Groups["Earlier"].observed + Groups["Recent"].observed <= Observed(Reported)
        /\ \A z \in Zones :
             ZoneReports # {} /\ (\A a \in ZoneReports, y \in Zones \ {z} : reports[a].zones[y] < reports[a].zones[z])
             => MostCommonZone = z

\* An analysis that contributes to Progress is never shown as failed, unsuitable,
\* unfinished or legacy, whatever changed between the reads; an analysis shown
\* with measurements rests on verified, complete and current evidence.
ShownAgrees ==
    \A a \in DOMAIN items :
        /\ items[a].status = "included" => /\ HistoryStatus(items[a].job) \in {"READY", "LIMITED"}
                                           /\ HistoryStatus(items[a].job) = "LIMITED" <=> Cautioned(items[a].job)
        /\ items[a].measured => items[a].job.verified /\ items[a].job.completed /\ items[a].job.current

\* A page is a run of the matching analyses, newest first: it is full unless the
\* matching ones end on it, exactly the offset's number of newer ones precede it,
\* and in a quiet library current evidence is listed under the status it shows
\* and all of the page's finished analyses are counted.
PageIsSlice ==
    phase = "shown" =>
        /\ items # <<>> => Cardinality({a \in Matching : a > Max(DOMAIN items)}) = page.offset
        /\ Cardinality(DOMAIN items) < page.limit => {a \in Matching : \A b \in DOMAIN items : a < b} \subseteq
              (IF items = <<>> THEN Latest(Matching, page.offset) ELSE {})
        /\ changes = 0 /\ (\A a \in DOMAIN items : items[a].job.current) =>
             /\ \A a \in DOMAIN items : page.filter \in {"ALL", HistoryStatus(items[a].job)}
             /\ Cardinality({a \in DOMAIN items : Finished(items[a].job)}) <= CompletedTotal

\* PHASE_1_8F_PRODUCT_INTEGRITY_AND_MATCH_LIFECYCLE: "server-side status filters".
\* An analysis on a filtered page has the status the page was filtered by.
FilteredStatusIsShown ==
    phase = "shown" /\ changes = 0 =>
        \A a \in DOMAIN items : page.filter \in {"ALL", HistoryStatus(items[a].job)}

\* PLAY_HISTORY_CONTRIBUTION_POLICY: "Failed analyses are `EXCLUDED`."
FailedIsExcluded ==
    Answered /\ changes = 0 =>
        \A a \in DOMAIN items : library[a].status = "failed" => items[a].status = "excluded"
=============================================================================
