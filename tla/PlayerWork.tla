----------------------------- MODULE PlayerWork -----------------------------
(***************************************************************************)
(* What the user of one match goes through: the upload page with its       *)
(* transfer; the association of track fragments; the review of the         *)
(* candidates; what the frames of one candidate are worth; and the         *)
(* estimate of active play.  These share no variable, so interleaving them *)
(* would multiply the states without adding a behaviour of any of them:    *)
(* focus is the one that moves.                                            *)
(***************************************************************************)
EXTENDS Integers, FiniteSets, Sequences

CONSTANTS
    Sessions, PartCount, Files, None, Workers,                  \* the upload page
    MaxAttempts, MaxActive, MaxFaults, MaxKeys,
    Recordings, LinkGap, ShortGap, MaxDistance, MaxSpeed, MinReentry,   \* the association
    Tracks, Groups, Eligible, MergeSafe(_, _), Rank(_),     \* the review
    MaxSelectable, MaxDecisions,
    Frames, MeasuredGap, UsableDuration, StrongDuration, ExcellentDuration,   \* the frames
    MinTracked, CautiousDuration, MinObservations, StrongObservations, Videos,
    Players, Ticks, WindowTicks, MotionGap, MinContext, MinMoving, MinTogether, Scenes  \* the estimate

VARIABLES focus,
    active, excluded, selected, decisions, tracking, last,
    frag, todo, group,
    stream, now,
    scene, streams, windows, intervals,
    row, due, keyOf, fileOf, againOf, stored, late, view, checking, file, key, session,
    duplicate, listed, shown, run, workers, next, urls, got, skip, release, canceled, faults, keys

candidateVars == <<active, excluded, selected, decisions, tracking, last>>
fragmentVars  == <<frag, todo, group>>
movementVars  == <<stream, now>>
playVars      == <<scene, streams, windows, intervals>>
uploadVars    == <<row, due, keyOf, fileOf, againOf, stored, late, view, checking, file, key, session,
                   duplicate, listed, shown, run, workers, next, urls, got, skip, release, canceled, faults, keys>>
vars          == <<focus, candidateVars, fragmentVars, movementVars, playVars, uploadVars>>

Upload == INSTANCE UploadClient WITH Count <- PartCount, status <- row
Association == INSTANCE FragmentAssociation WITH MaxGap <- LinkGap
Candidates == INSTANCE CandidateReview
Movement == INSTANCE MovementEvidence WITH MaxGap <- MeasuredGap, Recordings <- Videos
Play == INSTANCE PlayMotion WITH MaxGap <- MotionGap

ASSUME WellFormed ==
    /\ Upload!ClientAssumption /\ Association!AssociationAssumption /\ Candidates!ReviewAssumption
    /\ Movement!EvidenceAssumption /\ Play!MotionAssumption

Init ==
    /\ focus \in {"upload", "association", "candidates", "movement", "play"}
    /\ Upload!Init /\ Candidates!Init /\ Movement!Init
    /\ \/ focus = "association" /\ Association!Init
       \/ focus # "association" /\ frag = <<>> /\ todo = {} /\ group = <<>>
    /\ \/ focus = "play" /\ Play!Init
       \/ focus # "play" /\ scene = <<>> /\ streams = <<>> /\ windows = <<>> /\ intervals = <<>>
Next ==
    /\ UNCHANGED focus
    /\ \/ focus = "upload"      /\ Upload!Next
            /\ UNCHANGED <<candidateVars, fragmentVars, movementVars, playVars>>
       \/ focus = "association" /\ Association!Next
            /\ UNCHANGED <<candidateVars, movementVars, playVars, uploadVars>>
       \/ focus = "candidates"  /\ Candidates!Next
            /\ UNCHANGED <<fragmentVars, movementVars, playVars, uploadVars>>
       \/ focus = "movement"    /\ Movement!Next
            /\ UNCHANGED <<candidateVars, fragmentVars, playVars, uploadVars>>
       \/ focus = "play"        /\ Play!Next
            /\ UNCHANGED <<candidateVars, fragmentVars, movementVars, uploadVars>>
Spec == Init /\ [][Next]_vars

-----------------------------------------------------------------------------
(* Properties.                                                              *)

\* Whatever fails, is stopped, resumed or reloaded while a match is uploaded,
\* one whole file goes to verification, receipts are of stored parts and only
\* the user destroys a session (analyses.ts, upload-dropzone.tsx).
UploadPageHonest == focus = "upload" => Upload!UploadPageHonest

\* Whatever is selected, rejected, merged, undone and regenerated, every raw
\* track belongs to exactly one candidate, a player the user merged stays
\* together, at most four are offered, and the selection can be selected and
\* is the one tracking.json names (build_player_candidates).
CandidatesConsistent == focus = "candidates" =>
    /\ Candidates!TypeOK /\ Candidates!TracksPartitioned /\ Candidates!SelectionAgrees
    /\ Candidates!AtMostSelectable /\ Candidates!SamePlayerTogether

\* Undoing a merge takes its candidate apart however its tracks were merged,
\* the policy of four never takes the selected player away, and regeneration
\* does not offer a rejected group again.
ReviewRespected ==
    Candidates!UnmergeSplits /\ Candidates!SelectionKept /\ Candidates!RejectedGroupStaysOut

\* Nobody is in two places: the fragments of a candidate never overlap nor lie
\* on opposite sides, whatever chain of edges joined them; and the greedy
\* order leaves no continuation open that was possible and unambiguous.
OnePersonPerCandidate ==
    focus = "association" =>
        /\ Association!TypeOK /\ Association!OnePersonPerCandidate
        /\ Association!RootsAreMembers /\ Association!NothingLeftOpen

\* When two people on court at the same time could continue a fragment, it is
\* given to neither by rank or id (associate_fragments, the ambiguity margin).
RivalsAbstain == [][focus = "association" => Association!JoinHasNoRival]_vars

\* What is measured adds up; a candidate that may be selected can be measured
\* and a ready one is never refused for its evidence; advice rests on one track
\* without a gap; and the insights do not contradict each other (continuity.py,
\* movement.py, assessment.py, match_iq/engine.py).
MeasurementHonest == focus = "movement" =>
    /\ Movement!TypeOK /\ Movement!TimeAddsUp /\ Movement!ReadyIsMeasurable
    /\ Movement!AdviceIsEarned /\ Movement!InsightsAgree /\ Movement!VerdictsAgree

\* Play is called active only where two sound players move at one moment while
\* both are followed; a merged interval is what its signals say; and the time
\* of the states adds up (features.py, engine.py, build_active_play_report).
PlayEstimateHonest == focus = "play" =>
    /\ Play!TypeOK /\ Play!PlayIsShared /\ Play!MergedIsJustified
    /\ Play!TimeIsPartitioned /\ Play!UnknownIsExplained

\* "Regeneration ... preserves compatible rejection/manual-merge decisions"
\* (docs/dev/CURRENT_TASK.md): broken for a merged candidate the user rejected.
RegenerationKeepsRejections == Candidates!RegenerationKeepsRejections
=============================================================================
