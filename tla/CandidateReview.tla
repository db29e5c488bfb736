--------------------------- MODULE CandidateReview --------------------------
(***************************************************************************)
(* The review of player candidates (src/app/services/candidates/service.py *)
(* and the candidate operations of services/jobs/workflow.py): a candidate *)
(* is the set of raw tracks it joins, since its id is a hash of that set.  *)
(* The saved collection lists the selectable candidates, the excluded ones,*)
(* the selection and the manual merges; tracking.json repeats the          *)
(* selection.  The user selects, rejects, restores, merges and unmerges,   *)
(* and regenerates the candidates from the original observations, which    *)
(* applies the saved decisions again.                                      *)
(*                                                                         *)
(* Every operation holds the exclusive media lock: one action each.        *)
(* Readiness and the saving of the job are the subject of WorkflowStages.  *)
(***************************************************************************)
EXTENDS Naturals, FiniteSets, Sequences

CONSTANTS
    Tracks,         \* raw track ids of the observations
    Groups,         \* what associate_fragments makes of them: a partition
    Eligible,       \* track sets whose candidate passes the eligibility checks
    MergeSafe(_, _),  \* _validate_manual_merge accepts the two candidates
    Rank(_),        \* _candidate_rank_key: smaller is better; ties go by the id
    MaxSelectable,  \* THRESHOLDS.max_selectable_candidates
    MaxDecisions    \* bound: manual merges

ReviewAssumption ==
    /\ IsFiniteSet(Tracks) /\ UNION Groups = Tracks /\ {} \notin Groups
    /\ \A g, h \in Groups : g = h \/ g \intersect h = {}
    /\ \A c \in SUBSET Tracks : Rank(c) \in Nat /\ \A d \in SUBSET Tracks : Rank(c) = Rank(d) => c = d
    /\ MaxSelectable \in Nat \ {0} /\ MaxDecisions \in Nat

VARIABLES
    active,     \* collection.candidates
    excluded,   \* collection.excluded_candidates
    selected,   \* collection.selected_candidate_id
    decisions,  \* collection.manual_merge_decisions
    tracking,   \* the selected tracks in tracking.json
    last        \* the operation that was just done, for the action properties

collection == <<active, excluded, selected, decisions>>
vars == <<active, excluded, selected, decisions, tracking, last>>

NoGroup   == {}
Candidate == (SUBSET Tracks) \ {NoGroup}
Excluded  == [tracks : Candidate, eligible : BOOLEAN, rejected : BOOLEAN]
Decision  == [tracks : Candidate, active : BOOLEAN]

TypeOK ==
    /\ active \subseteq Candidate /\ excluded \subseteq Excluded
    /\ selected \subseteq Tracks /\ tracking \subseteq Tracks
    /\ decisions \in Seq(Decision) /\ Len(decisions) <= MaxDecisions

ExcludedTracks == {x.tracks : x \in excluded}
Rejected       == {x.tracks : x \in {y \in excluded : y.rejected}}

-----------------------------------------------------------------------------
\* Rebuilding the collection.  A pool is a set of candidates and those of
\* them that are rejected.

\* A group that was rejected, and could have been selected, stays rejected.
PreserveRejections(prev) ==
    [cands |-> Groups,
     rejected |-> Groups \intersect {x.tracks : x \in {y \in prev : y.eligible /\ y.rejected}}]

\* A saved merge joins the candidates inside its tracks, when they cover them.
\* A rejected source makes the result rejected.
ApplyPersistedMerge_Doubled(pool, d) ==
    IF ~d.active THEN pool ELSE [pool EXCEPT !.cands = @ \union {d.tracks}]
ApplyPersistedMerge(pool, d) ==
    LET source == {c \in pool.cands : c \subseteq d.tracks}
    IN  IF ~d.active \/ UNION source # d.tracks THEN pool
        ELSE [cands |-> (pool.cands \ source) \union {d.tracks},
              rejected |-> (pool.rejected \ source)
                  \union (IF source \intersect pool.rejected # {} THEN {d.tracks} ELSE {})]
ApplyDecisions(first, decs) ==
    LET pool[n \in 0 .. Len(decs)] ==
            IF n = 0 THEN first ELSE ApplyPersistedMerge(pool[n - 1], decs[n])
    IN  pool[Len(decs)]

\* The best MaxSelectable eligible candidates; a selected one displaces the worst.
Best(cands, n) == {c \in cands : Cardinality({d \in cands : Rank(d) < Rank(c)}) < n}
SelectionPolicy(cands, sel) ==
    LET able == cands \intersect Eligible
    IN  IF sel \in able THEN {sel} \union Best(able \ {sel}, MaxSelectable - 1)
        ELSE Best(able, MaxSelectable)

\* Rejected candidates keep their place among the best.
Ranked(pool) == pool.cands

\* build_player_candidates: new values of the collection and of tracking.json.
Build(prev, prevSelected, decs) ==
    LET pool == ApplyDecisions(PreserveRejections(prev), decs)
        kept == IF prevSelected \in pool.cands THEN prevSelected ELSE NoGroup
        able == SelectionPolicy(Ranked(pool), kept)
        sel  == IF kept \in able THEN kept ELSE NoGroup
        list == {c \in able : c \notin pool.rejected \/ c = sel}
    IN  /\ active' = list
        /\ excluded' = {[tracks |-> c, eligible |-> c \in Eligible \ (Ranked(pool) \ able),
                           rejected |-> c \in pool.rejected] :
                            c \in pool.cands \ list}
        /\ selected' = sel
        /\ tracking' = sel
        /\ decisions' = decs

Did(name, c) == last' = [op |-> name, candidate |-> c]

Init ==
    /\ active = SelectionPolicy(Groups, NoGroup)
    /\ excluded = {[tracks |-> c, eligible |-> FALSE, rejected |-> FALSE] : c \in Groups \ active}
    /\ selected = NoGroup /\ tracking = NoGroup /\ decisions = <<>>
    /\ last = [op |-> "generate", candidate |-> NoGroup]

Generate == Build(excluded, selected, decisions) /\ Did("generate", NoGroup)

-----------------------------------------------------------------------------
\* select_player_candidate; select_player_track finds the candidate of a track.
Select(c) ==
    /\ c \in active
    /\ selected' = c /\ tracking' = c
    /\ Did("select", c)
    /\ UNCHANGED <<active, excluded, decisions>>
SelectTrack(t) == \E c \in active : t \in c /\ Select(c)

\* reject_player_candidate; the selection goes with the candidate.
Unselected(c) == IF selected = c THEN NoGroup ELSE selected
Reject(c) ==
    /\ c \in active
    /\ active' = active \ {c}
    /\ excluded' = excluded \union {[tracks |-> c, eligible |-> TRUE, rejected |-> TRUE]}
    /\ selected' = Unselected(c)
    /\ tracking' = IF selected = c THEN NoGroup ELSE tracking
    /\ Did("reject", c)
    /\ UNCHANGED decisions

\* restore_player_candidate: only what the user excluded.
Restore(x) ==
    /\ x \in excluded /\ x.eligible
    /\ excluded' = excluded \ {x}
    /\ active' = active \union {x.tracks}
    /\ Did("restore", x.tracks)
    /\ UNCHANGED <<selected, decisions, tracking>>

\* merge_player_candidates; the result takes over a selection of either.
Merge(a, b) ==
    /\ a # b /\ {a, b} \subseteq active
    /\ Len(decisions) < MaxDecisions
    /\ MergeSafe(a, b) /\ a \union b \in Eligible
    /\ active' = (active \ {a, b}) \union {a \union b}
    /\ decisions' = Append(decisions, [tracks |-> a \union b, active |-> TRUE])
    /\ selected' = IF selected \in {a, b} THEN a \union b ELSE selected
    /\ tracking' = IF selected \in {a, b} THEN a \union b ELSE tracking
    /\ Did("merge", a \union b)
    /\ UNCHANGED excluded

\* unmerge_player_candidates: every decision of that merge id is undone, the
\* candidates are rebuilt.
Undone_Kept(c) == decisions
Undone(c) ==
    [i \in DOMAIN decisions |->
        IF decisions[i].tracks = c THEN [decisions[i] EXCEPT !.active = FALSE] ELSE decisions[i]]
Unmerge(c) ==
    /\ \E i \in DOMAIN decisions : decisions[i].tracks = c /\ decisions[i].active
    /\ Build(excluded, Unselected(c), Undone(c))
    /\ Did("unmerge", c)

Next ==
    \/ Generate
    \/ \E c \in active : Select(c) \/ Reject(c)
    \/ \E t \in Tracks : SelectTrack(t)
    \/ \E x \in excluded : Restore(x)
    \/ \E a, b \in active : Merge(a, b)
    \/ \E c \in {decisions[i].tracks : i \in DOMAIN decisions} : Unmerge(c)

Spec == Init /\ [][Next]_vars

-----------------------------------------------------------------------------
(* Safety. *)

\* Whatever is selected, rejected, merged, undone and regenerated, every raw
\* track belongs to exactly one candidate.
TracksPartitioned ==
    /\ UNION (active \union ExcludedTracks) = Tracks
    /\ Cardinality(active) + Cardinality(excluded) = Cardinality(active \union ExcludedTracks)
    /\ \A c, d \in active \union ExcludedTracks : c = d \/ c \intersect d = {}

\* The selected candidate can be selected, and tracking.json names the same
\* tracks (what _refresh_analysis_readiness demands before analytics).
SelectionAgrees ==
    /\ selected # NoGroup => selected \in active \ Rejected
    /\ tracking = selected

\* At most four candidates are offered, also after restoring and undoing.
AtMostSelectable == Cardinality(active) <= MaxSelectable

\* The tracks of a merge the user has not undone stay in one candidate.
SamePlayerTogether ==
    \A i \in DOMAIN decisions : decisions[i].active =>
        \E c \in active \union ExcludedTracks : decisions[i].tracks \subseteq c

\* Undoing a merge takes its candidate apart, whichever way its tracks were
\* merged: by one decision, step by step, or again after an undo.
UnmergeSplits ==
    [][last'.op = "unmerge" /\ last' # last
        => last'.candidate \notin active' \union {x.tracks : x \in excluded'}]_vars

\* The policy of four never takes away the selected player: regeneration, and
\* the review of other candidates, keep the selection.
SelectionKept ==
    [][selected # NoGroup /\ last'.op \in {"generate", "reject", "restore", "unmerge"} /\ last'.candidate # selected
        => selected' = selected]_vars

\* Regeneration preserves the user's rejections of what it builds again.
\* Broken for a rejected merge: its rejection is looked up among the groups
\* before the merge is applied.
RegenerationKeepsRejections ==
    [][last'.op = "generate" => active' \intersect Rejected = {}]_vars

\* What does hold: a rejected group of the association that could be selected
\* is not offered again by one regeneration.
RejectedGroupStaysOut ==
    [][last'.op = "generate" =>
        \A x \in excluded : x.rejected /\ x.eligible /\ x.tracks \in Groups => x.tracks \notin active']_vars
=============================================================================
