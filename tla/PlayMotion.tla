----------------------------- MODULE PlayMotion -----------------------------
(***************************************************************************)
(* The shadow estimate of active play (services/active_play): the          *)
(* observations of each player candidate become segments, velocities and   *)
(* observed time (features.py); windows of fixed length are classified one *)
(* by one and neighbours of one state merged (engine.py).                  *)
(*                                                                         *)
(* A tick is a quarter of a second, half of the smoothing window.  A       *)
(* player moves along one line, at most a foot a tick.  A set of time      *)
(* intervals is the set of the ticks it covers, named by their starts.     *)
(* Smoothed positions are in sixths of a foot, intensities in millionths   *)
(* of the reference speed, stationary time in sixths of a tick: the units  *)
(* in which means over at most three are whole numbers.                    *)
(***************************************************************************)
EXTENDS Integers, Sequences, FiniteSets, FiniteSetsExt

CONSTANTS
    Players,
    Ticks,            \* bound: the longest recording
    WindowTicks, MaxGap, MinContext, MinMoving, MinTogether,   \* policy, in ticks
    Scenes            \* bound: who does what in which recording

\* What is recorded of a player at a tick: nothing; an observation that is not
\* one on court; a position as before, a foot on or back; the first of a track.
Kinds == {"none", "unusable", "still", "step", "back", "new"}
Time == 0 .. (Ticks - 1)
\* status: whether quality, court ratio and duration suffice; rejected ones are
\* of that quality or rejected by the user.
Candidate == [motion : [Time -> Kinds], status : {"sound", "weak", "rejected"}, kitchen : BOOLEAN]
MotionAssumption ==
    /\ IsFiniteSet(Players) /\ {Ticks, MinContext, MinMoving} \subseteq Nat
    /\ MaxGap \in 1 .. 3 /\ WindowTicks \in Nat \ {0} /\ MinTogether \in Nat \ {0}
    /\ \A s \in Scenes : /\ s.length \in 1 .. Ticks /\ {s.suitable, s.current} \subseteq BOOLEAN
                         /\ \A p \in Players :
                               /\ s.players[p] \in Candidate
                               /\ \A t \in Time : t >= s.length => s.players[p].motion[t] = "none"

VARIABLES scene, streams, windows, intervals
vars == <<scene, streams, windows, intervals>>

Share(n, of, percent) == 100 * n >= percent * of
Size(n) == IF n < 0 THEN -n ELSE n

-----------------------------------------------------------------------------
(* Streams: smooth_track_positions and what is derived from it.             *)

Present(m, t) == m[t] # "none"
Usable(m, t) == m[t] \in {"still", "step", "back", "new"}
Positions(m) ==
    LET pos[t \in Time] == (CASE m[t] = "step" -> 1 [] m[t] = "back" -> -1 [] OTHER -> 0)
                           + (IF t = 0 THEN 0 ELSE pos[t - 1])
    IN  pos

\* Mutated form: observations that are not on court are dropped first.
Before_Bridging(m) ==
    LET before[t \in Time] == IF t = 0 THEN -1 ELSE IF Usable(m, t - 1) THEN t - 1 ELSE before[t - 1]
    IN  before
\* The observation before the one at t; -1 is none.
Before(m) ==
    LET before[t \in Time] == IF t = 0 THEN -1 ELSE IF Present(m, t - 1) THEN t - 1 ELSE before[t - 1]
    IN  before
Joined(m, s, t) == s >= 0 /\ Usable(m, s) /\ Usable(m, t) /\ m[t] # "new" /\ t - s <= MaxGap

StreamOf(m) ==
    LET before == Before(m)
        pos == Positions(m)
        joined == {t \in Time : Joined(m, before[t], t)}
        near(t) == {t} \union {u \in {t - 1} : t \in joined /\ before[t] = u}
                       \union {u \in {t + 1} : u \in joined /\ before[u] = t}
        smooth == [t \in Time |-> (6 * MapThenSumSet(LAMBDA u : pos[u], near(t)))
                                      \div Cardinality(near(t))]
    IN  [present |-> {t \in Time : Present(m, t)}, before |-> before, joined |-> joined,
         pace |-> [t \in joined |-> smooth[t] - smooth[before[t]]],
         tracks |-> 1 + Cardinality({t \in Time : m[t] = "new"})]

\* The velocity sample that ends at t, against speeds in feet per second.
Length(s, t) == t - s.before[t]
Moving(s, t) == 5 * Size(s.pace[t]) >= 6 * Length(s, t)           \* 0.8
Stationary(s, t) == 20 * Size(s.pace[t]) <= 9 * Length(s, t)      \* 0.3
Directed(s, t) == 4 * Size(s.pace[t]) >= 3 * Length(s, t)         \* 0.5
Turning(s, t) == /\ s.before[t] \in s.joined /\ Directed(s, t) /\ Directed(s, s.before[t])
                 /\ s.pace[t] * s.pace[s.before[t]] < 0
Covered(s, samples) == UNION {s.before[t] .. (t - 1) : t \in samples}
\* Feet covered within w, in thirty-sixths.
Work(s, w) == MapThenSumSet(LAMBDA t : Size(s.pace[t]) * (6 \div Length(s, t))
                                           * Cardinality((s.before[t] .. (t - 1)) \intersect w), s.joined)

-----------------------------------------------------------------------------
(* Windows.                                                                 *)

BaseReliable(p) == scene.players[p].status = "sound" /\ streams[p].tracks <= 3
Shown == {p \in Players : scene.players[p].status # "rejected"}
\* The ticks at which two of the players in P are in their sets.
Together(P, ticks) ==
    {u \in UNION {ticks[p] : p \in P} : Cardinality({p \in P : u \in ticks[p]}) >= 2}

GapSeverity(observed, length) ==
    IF Share(length - observed, length, 35) THEN "severe"
    ELSE IF Share(length - observed, length, 15) THEN "minor" ELSE "none"
Continuity(reliable, gap) ==
    IF reliable = {} THEN "not_available"
    ELSE IF gap = "severe" THEN "poor"
    ELSE IF gap = "none" /\ \A p \in reliable : streams[p].tracks = 1 THEN "strong" ELSE "limited"
Visibility(reliable, observed, length) ==
    IF reliable < 2 THEN "not_available"
    ELSE IF Share(observed, length, 85) THEN "high"
    ELSE IF Share(observed, length, 65) THEN "moderate" ELSE "low"
Reason(name, condition) == IF condition THEN {name} ELSE {}
FeatureReasons(f) ==
    Reason("no_observations", f.visible = 0)
    \union Reason("insufficient_reliable_players", f.reliable < 2)
    \union Reason("one_player_only", f.reliable = 1)
    \union Reason("sufficient_tracked_coverage", Share(f.observed, f.length, 65))
    \union Reason("insufficient_tracked_coverage", ~Share(f.observed, f.length, 65))
    \union Reason("tracking_gap", f.gap # "none")
    \union Reason("severe_tracking_gaps", f.gap = "severe")
    \union Reason("fragmented_candidates", f.continuity \in {"limited", "poor"})

Least(a, b) == IF a < b THEN a ELSE b
WindowFeatures(first, last) ==
    LET w == first .. (last - 1)
        length == last - first
        visible == {p \in Shown : streams[p].present \intersect w # {}}
        seen == [p \in Players |-> Covered(streams[p], streams[p].joined) \intersect w]
        reliable == {p \in visible : BaseReliable(p) /\ Share(Cardinality(seen[p]), length, 55)}
        moving == [p \in Players |->
                      Covered(streams[p], {t \in streams[p].joined : Moving(streams[p], t)}) \intersect w]
        still == [p \in Players |-> Cardinality(
                      Covered(streams[p], {t \in streams[p].joined : Stationary(streams[p], t)}) \intersect w)]
        total == MapThenSumSet(LAMBDA p : Cardinality(seen[p]), reliable)
        observed == Cardinality(Together(reliable, seen))
        gap == GapSeverity(observed, length)
    IN  [first |-> first, last |-> last, length |-> length, observed |-> observed,
         visible |-> Cardinality(visible), reliable |-> Cardinality(reliable),
         intensity |-> IF total = 0 THEN 0 ELSE
             Least(1000000, (250000 * MapThenSumSet(LAMBDA p : Work(streams[p], w), reliable))
                                \div (9 * total)),
         turning |-> Share(4 * MapThenSumSet(LAMBDA p : Cardinality(
                               {t \in streams[p].joined \intersect w : Turning(streams[p], t)}), reliable), total, 8),
         still |-> IF reliable = {} THEN 0
                   ELSE (6 * MapThenSumSet(LAMBDA p : still[p], reliable)) \div Cardinality(reliable),
         kitchen |-> Cardinality({p \in reliable : /\ scene.players[p].kitchen
                                                   /\ Share(still[p], length, 55)}),
         moving |-> Cardinality({p \in reliable : Cardinality(moving[p]) >= MinMoving}),
         together |-> Cardinality(Together(reliable, moving)) >= MinTogether,
         visibility |-> Visibility(Cardinality(reliable), observed, length), gap |-> gap,
         continuity |-> Continuity(reliable, gap),
         lineage |-> IF reliable # {} THEN reliable ELSE visible]

-----------------------------------------------------------------------------
(* Classification.                                                          *)

Blockers(f) ==
    Reason("unsuitable_recording", ~scene.suitable)
    \union Reason("short_context", scene.length < MinContext \/ f.length < WindowTicks)
    \union Reason("stale_source_artifact", ~scene.current)
Unclassifiable(f) ==
    Blockers(f) # {} \/ f.reliable < 2 \/ ~Share(f.observed, f.length, 65) \/ f.gap = "severe"
ActiveEvidence(f) == f.moving >= 2 /\ f.together /\ f.intensity >= 250000
IdleEvidence(f) == /\ f.moving = 0 /\ f.kitchen = 0 /\ f.intensity <= 120000
                   /\ Share(f.still, 6 * f.length, 55)
SupportedConfidence(f) ==
    IF Share(f.observed, f.length, 85) /\ f.continuity = "strong" /\ f.visibility = "high"
    THEN "moderate" ELSE "low"

Classified(f, state, confidence, reasons) ==
    [f |-> f, state |-> state, confidence |-> confidence, windows |-> 1,
     reasons |-> FeatureReasons(f) \union Blockers(f) \union reasons]
ClassifyWindow(f) ==
    IF Unclassifiable(f) THEN Classified(f, "unknown", "not_available", {})
    ELSE IF ActiveEvidence(f) THEN Classified(f, "likely_active", SupportedConfidence(f),
        {"sustained_multi_player_movement", "simultaneous_movement"}
          \union Reason("meaningful_direction_changes", f.turning)
          \union Reason("stationary_player_with_active_peers", f.moving < f.reliable))
    ELSE IF IdleEvidence(f) THEN Classified(f, "likely_idle", SupportedConfidence(f),
        {"sustained_low_movement", "stable_low_activity"})
    ELSE Classified(f, "unknown", "low",
        {"conflicting_evidence"} \union Reason("kitchen_low_movement_safeguard", f.kitchen > 0))

-----------------------------------------------------------------------------
(* Merging.                                                                 *)

Confidences == <<"not_available", "low", "moderate">>
Visibilities == <<"not_available", "low", "moderate", "high">>
Gaps == <<"severe", "minor", "none">>
Continuities == <<"not_available", "poor", "limited", "strong">>
\* The weaker of two levels of a scale that begins with its weakest.
Weaker(scale, a, b) ==
    scale[Min({k \in DOMAIN scale : scale[k] \in {a, b}})]
Average(a, n, b, m) == (a * n + b * m) \div (n + m)

MergeFeatures(a, b) ==
    [first |-> a.first, last |-> b.last, length |-> a.length + b.length,
     observed |-> a.observed + b.observed,
     visible |-> Least(a.visible, b.visible), reliable |-> Least(a.reliable, b.reliable),
     intensity |-> Average(a.intensity, a.length, b.intensity, b.length),
     turning |-> a.turning \/ b.turning,
     still |-> a.still + b.still,
     kitchen |-> Max({a.kitchen, b.kitchen}), moving |-> Least(a.moving, b.moving),
     together |-> a.together /\ b.together,
     visibility |-> Weaker(Visibilities, a.visibility, b.visibility),
     gap |-> Weaker(Gaps, a.gap, b.gap),
     continuity |-> Weaker(Continuities, a.continuity, b.continuity),
     lineage |-> a.lineage \union b.lineage]
MergeIntervalAndWindow(i, w) ==
    [f |-> MergeFeatures(i.f, w.f), state |-> i.state, windows |-> i.windows + 1,
     confidence |-> Weaker(Confidences, i.confidence, w.confidence), reasons |-> i.reasons \union w.reasons]
MergeWindow(done, w) ==
    LET last == done[Len(done)]
    IN  IF done # <<>> /\ last.state = w.state /\ last.f.last = w.f.first
        THEN [done EXCEPT ![Len(done)] = MergeIntervalAndWindow(last, w)]
        ELSE Append(done, w)

Init == /\ scene \in Scenes /\ windows = <<>> /\ intervals = <<>>
        /\ streams = [p \in Players |-> StreamOf(scene.players[p].motion)]
Start == Len(windows) * WindowTicks
Classify ==
    /\ Start < scene.length
    /\ LET w == ClassifyWindow(WindowFeatures(Start, Least(scene.length, Start + WindowTicks)))
       IN  windows' = Append(windows, w) /\ intervals' = MergeWindow(intervals, w)
    /\ UNCHANGED <<scene, streams>>
Next == Classify
Spec == Init /\ [][Next]_vars

\* build_active_play_report, when all windows are classified.
StateTicks(state) ==
    MapThenSumSet(LAMBDA k : intervals[k].f.last - intervals[k].f.first,
                  {k \in DOMAIN intervals : intervals[k].state = state})
Counted(level) == Cardinality({k \in DOMAIN windows : windows[k].confidence = level})
Report ==
    [active |-> StateTicks("likely_active"), idle |-> StateTicks("likely_idle"),
     unknown |-> StateTicks("unknown"),
     classifiable |-> StateTicks("likely_active") + StateTicks("likely_idle"),
     confidence |-> [level \in {"not_available", "low", "moderate"} |-> Counted(level)]]

-----------------------------------------------------------------------------
(* Properties.                                                              *)

TypeOK ==
    /\ Len(windows) * WindowTicks < scene.length + WindowTicks
    /\ \A k \in DOMAIN windows : windows[k].state \in {"likely_active", "likely_idle", "unknown"}
    /\ Len(intervals) <= Len(windows)

\* A stretch of the recording over which a player is followed: on court under
\* one track, never lost for longer than the gap, said of what was recorded.
Followed(p, u) ==
    LET m == scene.players[p].motion
    IN  \E a \in Time, b \in Time :
          /\ a <= u /\ u < b /\ b - a <= MaxGap /\ Usable(m, a) /\ Usable(m, b)
          /\ \A t \in (a + 1) .. b : m[t] \notin {"unusable", "new"}
Moves(p, first, last) ==
    \E t \in Time : t \in (first - MaxGap) .. (last + MaxGap)
                    /\ scene.players[p].motion[t] \in {"step", "back"}
Sound(p) == scene.players[p].status = "sound"
DuringOf(w) == w.f.first .. (w.f.last - 1)

\* Play is called active only where two sound players that nobody rejected are
\* followed at the same moment and both move, and idle only where two of them
\* are followed for most of the window (_window_features, _classify_window).
PlayIsShared ==
    \A k \in DOMAIN windows : windows[k].state # "unknown" =>
        LET w == DuringOf(windows[k])
            both == {u \in w : \E p, q \in Players :
                        p # q /\ Sound(p) /\ Sound(q) /\ Followed(p, u) /\ Followed(q, u)}
        IN  /\ scene.suitable /\ scene.current /\ scene.length >= MinContext
            /\ Share(Cardinality(both), WindowTicks, 65)
            /\ windows[k].state = "likely_active" =>
                  \E p, q \in Players : /\ p # q /\ Sound(p) /\ Sound(q)
                                        /\ \E u \in w : /\ Followed(p, u) /\ Followed(q, u)
                                                        /\ Moves(p, u, u + 1) /\ Moves(q, u, u + 1)

\* An interval is still what its merged signals say it is, with the confidence
\* they support, and no reason not to classify one of its windows is lost
\* (_merge_interval_and_window against _classify_window).
MergedIsJustified ==
    \A k \in DOMAIN intervals :
        LET i == intervals[k]
            again == ClassifyWindow(i.f)
            parts == {n \in DOMAIN windows : windows[n].f.first \in DuringOf(i)}
        IN  /\ i.state # "unknown" => again.state = i.state /\ again.confidence = i.confidence
            /\ Cardinality(parts) = i.windows
            /\ \A n \in parts : /\ windows[n].state = i.state
                                /\ i.confidence = "moderate" => windows[n].confidence = "moderate"

\* The time of the states, as intervals report it, is the time classified.
TimeIsPartitioned ==
    LET r == Report
        done == Least(scene.length, Start)
    IN  /\ r.classifiable + r.unknown = done
        /\ \A k \in DOMAIN intervals : k > 1 =>
              /\ intervals[k].f.first = intervals[k - 1].f.last
              /\ intervals[k].state # intervals[k - 1].state
        /\ r.confidence["not_available"] + r.confidence["low"] + r.confidence["moderate"] = Len(windows)

\* What is not classified has a reason that says why, and what is has none.
Excuses == {"unsuitable_recording", "short_context", "stale_source_artifact",
            "insufficient_reliable_players", "insufficient_tracked_coverage",
            "severe_tracking_gaps", "conflicting_evidence"}
UnknownIsExplained ==
    \A k \in DOMAIN windows :
        windows[k].state = "unknown" <=> windows[k].reasons \intersect Excuses # {}
=============================================================================
