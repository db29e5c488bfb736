-------------------------- MODULE MovementEvidence --------------------------
(***************************************************************************)
(* What a player's observations are worth.  A recording yields one after   *)
(* the other the frames in which the candidate is seen: on court, off it,  *)
(* or not at all, and under a raw track id that is lost and replaced.      *)
(* From the same frames the candidate is built and classified              *)
(* (candidates/service.py), readiness is assessed                          *)
(* (recording_quality/assessment.py), movement is measured (analytics) and *)
(* insights are gated (match_iq/engine.py).  Everything but the frames is  *)
(* computed from them.                                                     *)
(*                                                                         *)
(* Ratios are compared in percent.  The seconds of a gap are a difference  *)
(* of two sums of floats: rounding is what it may exceed the exact one by. *)
(***************************************************************************)
EXTENDS Integers, FiniteSets, FiniteSetsExt, SequencesExt

CONSTANTS
    Frames,       \* bound: frames of the recording
    MaxGap,       \* MAX_OBSERVED_GAP_SECONDS, in frames, like all durations here
    UsableDuration, StrongDuration, ExcellentDuration,
    MinTracked, CautiousDuration,  \* MIN_TRACKED_SECONDS, CAUTIOUS_TRACKED_SECONDS
    MinObservations, StrongObservations,
    Recordings    \* metadata of uploaded videos

EvidenceAssumption ==
    /\ {Frames, MaxGap, UsableDuration, StrongDuration, ExcellentDuration,
        MinTracked, CautiousDuration, MinObservations} \subseteq Nat
    /\ MaxGap > 0 /\ UsableDuration > 0 /\ UsableDuration <= StrongDuration /\ MinTracked <= StrongDuration
    /\ CautiousDuration \in StrongDuration .. ExcellentDuration
    \* Measured long enough, a sample has the observations that Match IQ demands.
    /\ StrongDuration > MaxGap * (MinObservations - 2)
    /\ Recordings \subseteq [vertical : BOOLEAN, edge : Nat, fps : Nat, seconds : Nat]

VARIABLES stream,   \* the candidate's observations: [at, track, pos, seen]
          now       \* the frame that is analysed next
vars == <<stream, now>>

\* Court positions ahead of each other on one side: baseline, transition, kitchen.
Positions == 0 .. 2
Zones == <<"baseline", "transition", "kitchen">>
Feet(p, q) == IF p > q THEN 10 * (p - q) ELSE 10 * (q - p)

Init == stream = <<>> /\ now = 0
See(pos, seen, track) ==
    stream' = Append(stream, [at |-> now, track |-> track, pos |-> pos, seen |-> seen])
\* A fragment begins on court: association and merges refuse other ends.
NewTrack == \E pos \in Positions :
    See(pos, TRUE, IF stream = <<>> THEN 1 ELSE Last(stream).track + 1)
SameTrack == \E pos \in Positions : stream # <<>> /\ See(pos, TRUE, Last(stream).track)
OffCourt == stream # <<>> /\ See(0, FALSE, Last(stream).track)
Unseen == UNCHANGED stream
Next == /\ now < Frames /\ now' = now + 1
        /\ NewTrack \/ SameTrack \/ OffCourt \/ Unseen
Spec == Init /\ [][Next]_vars

-----------------------------------------------------------------------------
(* What is measured: analytics.json and the candidate.                       *)

\* Mutated form: only the interval's first observation must be on court.
supports_observed_interval_FirstSeen(a, b) ==
    a.track = b.track /\ b.at - a.at \in 1..MaxGap /\ a.seen
supports_observed_interval(a, b) ==
    a.track = b.track /\ b.at - a.at \in 1..MaxGap /\ a.seen /\ b.seen
Named(name, condition) == IF condition THEN {name} ELSE {}
Intervals(s) == {i \in 1 .. (Len(s) - 1) : supports_observed_interval(s[i], s[i + 1])}
Seconds(s, I) == MapThenSumSet(LAMBDA i : s[i + 1].at - s[i].at, I)
Distance(s, I) == MapThenSumSet(LAMBDA i : Feet(s[i].pos, s[i + 1].pos), I)
Span(s) == IF s = <<>> THEN 0 ELSE Last(s).at - s[1].at
\* The positions that are drawn; a new segment is not joined to the one before.
Timeline(s) ==
    {[at |-> s[i].at, new |-> i = 1 \/ i - 1 \notin Intervals(s)] : i \in {j \in DOMAIN s : s[j].seen}}
Warnings(a) == Named("fragments", a.fragments > 1) \union Named("gaps", a.gap > 0)
\* The zone of an interval is the one it began in.
calculate_zone_occupancy(s) ==
    [k \in DOMAIN Zones |-> Seconds(s, {i \in Intervals(s) : s[i].pos + 1 = k})]
generate_match_analytics(s, rounding) ==
    LET observed == Seconds(s, Intervals(s))
        occupancy == calculate_zone_occupancy(s)
    IN  [observed |-> observed, gap |-> Span(s) - observed + rounding,
         distance |-> Distance(s, Intervals(s)),
         timeline |-> Cardinality(Timeline(s)),
         fragments |-> Cardinality({s[i].track : i \in DOMAIN s}),
         zones |-> occupancy, tracked |-> occupancy[1] + occupancy[2] + occupancy[3]]

\* Steps of more than 15 feet do not count.  clear: its preview, size and side
\* are as they should be.
BuildCandidate(s, clear) ==
    LET seen == {i \in DOMAIN s : s[i].seen}
        pos == {s[i].pos : i \in seen}
    IN  [observed |-> Seconds(s, Intervals(s)), span |-> Span(s), frames |-> Len(s),
         distance |-> Distance(s, {i \in Intervals(s) : Feet(s[i].pos, s[i + 1].pos) <= 15}),
         percent |-> IF s = <<>> THEN 0 ELSE (100 * Cardinality(seen)) \div Len(s),
         fragments |-> Cardinality({s[i].track : i \in DOMAIN s}),
         moved |-> IF pos = {} THEN 0 ELSE Feet(Max(pos), Min(pos)), clear |-> clear]
Quality(c) ==
    IF /\ c.observed >= StrongDuration /\ c.frames >= StrongObservations
       /\ c.percent >= 65 /\ c.fragments <= 3 /\ c.moved >= 4 /\ c.clear
    THEN "strong"
    ELSE IF c.observed >= UsableDuration /\ c.frames >= MinObservations /\ c.percent >= 30
         THEN "usable" ELSE "uncertain"
selection_eligible(c) ==
    /\ Quality(c) # "uncertain" /\ c.percent >= 65
    /\ 2 * c.distance >= c.observed /\ c.fragments <= 3

-----------------------------------------------------------------------------
(* Recording quality.                                                       *)

Level(failures, warnings, excellent) ==
    CASE failures # {}                      -> "unsuitable"
      [] failures = {} /\ warnings # {}     -> "limited"
      [] failures = {} /\ warnings = {}     -> IF excellent THEN "excellent" ELSE "good"
assess_upload_preflight(m) ==
    Level(Named("resolution_too_low", m.edge < 480) \union Named("fps_too_low", m.fps < 15)
             \union Named("recording_too_short", m.seconds < 10),
          Named("vertical_orientation", m.vertical)
             \union Named("resolution_below_minimum", m.edge \in 480 .. 719)
             \union Named("fps_below_minimum", m.fps \in 15 .. 23),
          ~m.vertical /\ m.edge >= 1080 /\ m.fps >= 30 /\ m.seconds >= 60)

assess_recording_suitability(m, c) ==
    IF m.seconds < 3 \/ c.frames = 0 THEN "unsuitable"
    ELSE IF m.vertical \/ m.edge < 480 \/ Quality(c) = "uncertain" THEN "limited" ELSE "suitable"

GapBeyond(c, percent) == 100 * (c.span - c.observed) > percent * c.span
ExcellentReadiness(upload, c) ==
    /\ upload = "excellent" /\ Quality(c) = "strong" /\ c.observed >= ExcellentDuration
    /\ c.percent >= 85 /\ ~GapBeyond(c, 10) /\ c.fragments = 1
\* upload is the level of the preflight, or none in old jobs.
assess_analysis_readiness(upload, c) ==
    LET eligible == selection_eligible(c)
        strong == Quality(c) = "strong"
        failures ==
            Named("upload_preflight_blocked", upload = "unsuitable")
            \union Named("no_person_detections", c.frames = 0)
            \union Named("no_selectable_player_candidate", c.frames > 0 /\ ~eligible)
            \union Named("player_visibility_too_low", eligible /\ c.percent < 65)
            \union Named("tracked_duration_too_short", eligible /\ c.observed < StrongDuration)
            \union Named("tracking_gaps_excessive", eligible /\ GapBeyond(c, 50))
            \union Named("too_many_track_fragments", eligible /\ c.fragments > 3)
        warnings ==
            Named("upload_preflight_limited", upload = "limited")
            \union Named("candidate_quality_usable", eligible /\ ~strong)
            \union Named("tracked_duration_limited",
                         eligible /\ c.observed \in StrongDuration .. (ExcellentDuration - 1))
            \union Named("tracking_gaps_present", eligible /\ (GapBeyond(c, 10) \/ c.fragments > 1))
    IN  Level(failures, warnings, ExcellentReadiness(upload, c))

-----------------------------------------------------------------------------
(* Match IQ, over the analytics report a.                                   *)

quality_gate(a, readiness) ==
    IF a.timeline < MinObservations \/ a.tracked < MinTracked \/ readiness = "unsuitable"
    THEN "INSUFFICIENT_EVIDENCE"
    ELSE IF readiness = "limited" \/ a.fragments > 1 \/ a.gap > 0 \/ a.observed < CautiousDuration
    THEN "MEASUREMENT_ONLY"
    ELSE IF readiness = "good" THEN "CAUTIOUS" ELSE "NORMAL"

InsufficientReason(a, readiness) ==
    IF readiness = "unsuitable" THEN "readiness"
    ELSE IF a.timeline < MinObservations THEN "observations"
    ELSE IF a.tracked < MinTracked THEN "tracked" ELSE "none"
Advising(gate) == gate \in {"NORMAL", "CAUTIOUS"}
Confidence(a, readiness, gate) ==
    [recording |-> CASE readiness = "excellent" -> "HIGH" [] readiness = "good" -> "MODERATE"
                     [] OTHER -> "LOW",
     tracking |-> IF a.fragments = 1 /\ a.gap = 0 THEN "MODERATE" ELSE "LOW",
     measurement |-> IF a.timeline >= MinObservations /\ a.tracked >= MinTracked
                     THEN "MODERATE" ELSE "LOW",
     recommendation |-> IF Advising(gate) THEN "MODERATE" ELSE "NOT_AVAILABLE"]

High(a, k) == 100 * a.zones[k] >= 55 * a.tracked
Low(a, k) == 100 * a.zones[k] <= 20 * a.tracked
Distributed(a) == \A k \in DOMAIN Zones : ~High(a, k) /\ ~Low(a, k)
ShortDistance(a) == a.distance <= 10
\* The rules that apply, in the order of their priority; four are kept.
Rule(name, condition) == IF condition THEN <<name>> ELSE <<>>
Insights(a) ==
    LET found == Rule("high-baseline", High(a, 1)) \o Rule("high-kitchen", High(a, 3))
                 \o Rule("high-transition", High(a, 2)) \o Rule("low-transition", Low(a, 2))
                 \o Rule("distribution", Distributed(a))
                 \o Rule("short-distance", ShortDistance(a)) \o <<"measured">>
    IN  SubSeq(found, 1, IF Len(found) < 4 THEN Len(found) ELSE 4)
\* An insight is interpreted, and its action named, as its gate allows.
Insight(rule, gate, confidence) ==
    [rule |-> rule, interpreted |-> Advising(gate),
     action |-> Advising(gate) /\ confidence.recommendation \in {"HIGH", "MODERATE"}]
generate_match_iq(a, readiness) ==
    LET gate == quality_gate(a, readiness)
        confidence == Confidence(a, readiness, gate)
        rules == IF gate = "INSUFFICIENT_EVIDENCE" THEN <<>> ELSE Insights(a)
        kept == [k \in DOMAIN rules |-> Insight(rules[k], gate, confidence)]
    IN  [gate |-> gate, insights |-> kept, confidence |-> confidence,
         reason |-> InsufficientReason(a, readiness), limitations |-> Warnings(a),
         focus |-> IF Advising(gate) /\ kept # <<>> /\ kept[1].action THEN kept[1].rule ELSE "none"]

-----------------------------------------------------------------------------
(* Properties.                                                              *)

TypeOK ==
    /\ now \in 0 .. Frames
    /\ \A i \in DOMAIN stream :
          /\ stream[i] \in [at : 0 .. Frames, track : 1 .. Frames, pos : Positions, seen : BOOLEAN]
          /\ i > 1 => stream[i].at > stream[i - 1].at /\ stream[i].track >= stream[i - 1].track

Uploads == {assess_upload_preflight(m) : m \in Recordings} \union {"none"}

\* The zones share out exactly the time that is reported as observed, no more
\* than the recording lasted, and lines are drawn over that time only
\* (zones.py, movement.py and the images add it up on their own).
TimeAddsUp ==
    LET a == generate_match_analytics(stream, 0)
    IN  /\ a.tracked = a.observed /\ a.observed <= Span(stream)
        /\ \A q \in {t \in Timeline(stream) : ~t.new} :
              \E i \in Intervals(stream) : stream[i + 1].at = q.at
        /\ a.observed > 0 => \E t \in Timeline(stream) : ~t.new

\* A candidate that may be selected has a trajectory to measure, and readiness
\* that is not unsuitable means that Match IQ finds enough evidence: its own
\* minimum, of other numbers, is never what refuses the report.
ReadyIsMeasurable ==
    LET a == generate_match_analytics(stream, 0)
    IN  \A clear \in BOOLEAN :
            LET c == BuildCandidate(stream, clear)
            IN  selection_eligible(c) =>
                    /\ a.timeline > 1 /\ a.distance > 0
                    /\ \A upload \in Uploads :
                          LET readiness == assess_analysis_readiness(upload, c)
                          IN  readiness # "unsuitable" =>
                                  generate_match_iq(a, readiness).reason = "none"

\* Advice rests on one raw track that was on court in every observation, with
\* no gap between two of them, for the cautious minimum, of a strong candidate
\* in a recording without limitations (INSIGHT_INTEGRITY_DESIGN.md).
Continuous ==
    /\ \A i \in DOMAIN stream : stream[i].seen /\ stream[i].track = stream[1].track
    /\ \A i \in DOMAIN stream : i > 1 => stream[i].at - stream[i - 1].at <= MaxGap
AdviceIsEarned ==
    LET a == generate_match_analytics(stream, 0)
    IN  \A clear \in BOOLEAN :
            LET c == BuildCandidate(stream, clear)
            IN  \A upload \in Uploads :
                    LET report == generate_match_iq(a, assess_analysis_readiness(upload, c))
                    IN  report.focus # "none" \/ (\E k \in DOMAIN report.insights :
                                                        report.insights[k].interpreted) =>
                            /\ Continuous /\ Span(stream) >= CautiousDuration
                            /\ upload \notin {"unsuitable", "limited"} /\ Quality(c) = "strong"
                            /\ report.gate = "NORMAL" => upload = "excellent"
                            /\ report.confidence.tracking = "MODERATE" /\ report.limitations = {}

\* A report is refused exactly when it has a reason, two zones never both
\* dominate, a distribution is not called even next to a dominant or rare zone,
\* and the limit of four never drops the measurement.
InsightsAgree ==
    LET a == generate_match_analytics(stream, 0)
        found == ToSet(Insights(a))
        refused == quality_gate(a, "good") = "INSUFFICIENT_EVIDENCE"
        high == {"high-baseline", "high-kitchen", "high-transition"}
    IN  /\ refused <=> InsufficientReason(a, "good") # "none"
        /\ a.tracked > 0 =>
              /\ "measured" \in found /\ Cardinality(found \intersect high) <= 1
              /\ "distribution" \in found => found \intersect (high \union {"low-transition"}) = {}

\* A recording that the candidates or the preflight call unsuitable is so for
\* readiness, and so is a candidate nobody can be sure of.
VerdictsAgree ==
    LET c == BuildCandidate(stream, TRUE)
    IN  \A m \in Recordings :
            LET upload == assess_upload_preflight(m)
            IN  upload = "unsuitable" \/ Quality(c) = "uncertain"
                  \/ assess_recording_suitability(m, c) = "unsuitable"
                    => assess_analysis_readiness(upload, c) = "unsuitable"

\* "all zones between 20.0% and 45.0%", the threshold reported with a zone
\* distribution: broken, the rule goes up to the dominance at 55 %.
DistributionIsBalanced ==
    LET a == generate_match_analytics(stream, 0)
    IN  a.tracked > 0 /\ "distribution" \in ToSet(Insights(a)) =>
            \A k \in DOMAIN Zones : 100 * a.zones[k] \in (20 * a.tracked) .. (45 * a.tracked)

\* A sample without any gap is recognised as continuous: broken when the sum of
\* its intervals is rounded below its span.
ContinuityIsRecognised ==
    \A rounding \in {0, 1} : Continuous /\ stream # <<>> =>
        generate_match_analytics(stream, rounding).gap = 0
=============================================================================
