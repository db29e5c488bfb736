-------------------------- MODULE ActivePlayReview --------------------------
(***************************************************************************)
(* The reviewed intervals of one calibration sample, what the evaluation   *)
(* measures from them, and the threshold simulation that compares the      *)
(* persisted activity windows with windows classified under a proposed     *)
(* policy.  Time is counted in units; windows cover one unit each, as a    *)
(* window's overlap is only ever added up per state.                       *)
(***************************************************************************)
EXTENDS Integers, FiniteSets

CONSTANTS Duration,      \* units of the recording
          Labels,        \* the labels a reviewer may give an interval
          MaxIntervals,  \* bound on the reviewed intervals
          Reports        \* pairs <<report, simulated>> of window states

States == {"likely_active", "likely_idle", "unknown"}
Definite == {"likely_active", "likely_idle"}
None == "none"
\* court4 is the state the reviewer copied from the report, if any; lag is how
\* far both copied boundaries lie from the reviewer's own.
LabelShape == [expected : Definite \union {"uncertain", "not_reviewed"}, court4 : States \union {None},
               falseActive : BOOLEAN, falseIdle : BOOLEAN, reviewable : BOOLEAN, unsure : BOOLEAN,
               bounds : BOOLEAN, lag : Nat, tolerance : Nat]
ReviewWellFormed ==
    /\ Duration \in Nat \ {0} /\ MaxIntervals \in Nat /\ Labels \subseteq LabelShape
    /\ Reports \subseteq [1 .. 2 -> [1 .. Duration -> States \union {None}]]

VARIABLES intervals,     \* the reviewed intervals: [start, end, label]
          report,        \* the states of the persisted windows
          simulated      \* the states the proposed policy gives them
vars == <<intervals, report, simulated>>

-----------------------------------------------------------------------------
(* The metrics. *)

Units(i) == i.start + 1 .. i.end
Seconds(S) == Cardinality(UNION {{i} \X Units(i) : i \in S})
Reviewed == {i \in intervals : i.label.expected \in Definite /\ ~i.label.unsure}
Expecting(state) == {i \in Reviewed : i.label.expected = state}
Agreed(state) == {i \in Expecting(state) : i.label.court4 = state}
FalseActive == {i \in Reviewed : \/ i.label.falseActive
                                 \/ i.label.expected = "likely_idle" /\ i.label.court4 = "likely_active"}
FalseIdle == {i \in Reviewed : \/ i.label.falseIdle
                               \/ i.label.expected = "likely_active" /\ i.label.court4 = "likely_idle"}
Unknown == {i \in Reviewed : \/ i.label.court4 = "unknown"
                             \/ i.label.court4 = None /\ i.label.reviewable}
Covered == {i \in Reviewed : i.label.court4 # None}
Bounded == {i \in Reviewed : i.label.bounds}
BoundaryCount == 2 * Cardinality(Bounded)
WithinTolerance == 2 * Cardinality({i \in Bounded : i.label.lag <= i.label.tolerance})

-----------------------------------------------------------------------------
(* The simulation. *)

Overlap(windows, i, state) == Cardinality({u \in Units(i) : windows[u] = state})
Leaders(windows, i) ==
    {s \in States : \A t \in States : Overlap(windows, i, t) <= Overlap(windows, i, s)}
StateForInterval_Majority(windows, i) ==
    IF Cardinality(Leaders(windows, i)) # 1 THEN "unknown"
    ELSE CHOOSE s \in Leaders(windows, i) : TRUE
StateForInterval(windows, i) ==
    IF Overlap(windows, i, "unknown") > 0 \/ Cardinality(Leaders(windows, i)) # 1
    THEN "unknown" ELSE CHOOSE s \in Leaders(windows, i) : TRUE

MatchCount(windows) ==
    Cardinality({i \in intervals : /\ ~i.label.unsure /\ i.label.expected \in Definite
                                   /\ StateForInterval(windows, i) = i.label.expected})
Affected == \E i \in intervals : StateForInterval(report, i) # StateForInterval(simulated, i)
Improved == Affected /\ MatchCount(simulated) > MatchCount(report)
Regressed == Affected /\ MatchCount(simulated) < MatchCount(report)

-----------------------------------------------------------------------------
Init == /\ intervals = {}
        /\ \E pair \in Reports : report = pair[1] /\ simulated = pair[2]

\* The reviewer adds an interval; the schema refuses one that is empty or overlaps.
AddInterval(a, b, label) ==
    /\ a < b /\ Cardinality(intervals) < MaxIntervals
    /\ \A i \in intervals : b <= i.start \/ i.end <= a
    /\ intervals' = intervals \union {[start |-> a, end |-> b, label |-> label]}
    /\ UNCHANGED <<report, simulated>>

Next == \E a, b \in 0 .. Duration, label \in Labels : AddInterval(a, b, label)
Spec == Init /\ [][Next]_vars

-----------------------------------------------------------------------------
(* Properties. *)

TypeOK ==
    /\ intervals \subseteq [start : 0 .. Duration, end : 1 .. Duration, label : Labels]
    /\ <<report, simulated>> \in Reports
    \* reviewed time is never counted twice
    /\ Seconds(intervals) <= Duration

\* Explicit error flags only repeat what the copied state says.
FlagsRepeat(i) == /\ i.label.falseActive => i.label.expected = "likely_idle" /\ i.label.court4 = "likely_active"
                  /\ i.label.falseIdle => i.label.expected = "likely_active" /\ i.label.court4 = "likely_idle"

\* Unless a flag contradicts the copied state, every reviewed second is agreed,
\* false active, false idle, abstained, or was never compared.
DurationsPartition ==
    (\A i \in Reviewed : FlagsRepeat(i)) =>
        Seconds(Reviewed) = Seconds(Agreed("likely_active")) + Seconds(Agreed("likely_idle"))
            + Seconds(FalseActive) + Seconds(FalseIdle) + Seconds(Unknown)
            + Seconds({i \in Reviewed : i.label.court4 = None /\ ~i.label.reviewable})

\* A definite state is never claimed over time the engine abstained on, and the
\* other definite state covers strictly less of the interval.
AbstentionWins ==
    \A i \in intervals, w \in {report, simulated} : StateForInterval(w, i) \in Definite =>
        /\ \A u \in Units(i) : w[u] # "unknown"
        /\ \A s \in Definite \ {StateForInterval(w, i)} :
               Overlap(w, i, s) < Overlap(w, i, StateForInterval(w, i))

\* When the copied states are the report's own, the simulation counts exactly
\* the intervals the agreement metrics count.
MatchesAreAgreements ==
    (\A i \in intervals : i.label.court4 = StateForInterval(report, i)) =>
        MatchCount(report) = Cardinality(Agreed("likely_active")) + Cardinality(Agreed("likely_idle"))

\* A simulated policy improves a sample only by turning a reliably labelled
\* interval to its label, never by changing intervals nobody is sure about.
ImprovementIsLabelled ==
    /\ ~(Improved /\ Regressed)
    /\ Improved => \E i \in Reviewed : /\ StateForInterval(simulated, i) = i.label.expected
                                       /\ StateForInterval(report, i) # i.label.expected
=============================================================================
