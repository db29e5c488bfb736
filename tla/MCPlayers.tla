------------------------------ MODULE MCPlayers -----------------------------
(* TLC instance of PlayerWork: an upload page with two files and one place  *)
(* for an upload; three fragments that differ in time, side and appearance, *)
(* or four in time and place; four raw tracks to review; six frames of one  *)
(* candidate; and three players in two windows.                             *)
EXTENDS PlayerWork, FiniteSetsExt, TLC

CONSTANTS w1, w2, f1, f2

\* Neither the files nor the workers of the upload are named by anything.
Symmetry == Permutations({f1, f2}) \union Permutations({w1, w2})

\* Candidates of neighbouring tracks may be merged, longer ones rank better,
\* and a candidate has at most three fragments.
AllTracks == 1..4
Singles == {{t} : t \in AllTracks}
AtMostThree == {c \in SUBSET AllTracks : Cardinality(c) \in 1..3}
Neighbours(a, b) == \E t \in a : t + 1 \in b \/ t - 1 \in b
LongerFirst(c) == 100 * (4 - Cardinality(c)) + SumSet({2^t : t \in c})

Moments == {i \in [first : 0..3, last : 0..3] : i.last \in i.first..(i.first + 1)}
FragmentOf(i, pos, side, look, onCourt) ==
    [first |-> i.first, last |-> i.last, pos |-> pos, side |-> side, look |-> look, onCourt |-> onCourt]
Kinds == {FragmentOf(i, 0, s, l, TRUE) :
              i \in Moments, s \in {"near", "far", "unknown"}, l \in {"red", "unseen"}}
  \union {FragmentOf(i, 0, "unknown", l, FALSE) : i \in Moments, l \in {"red", "unseen"}}
Places == {FragmentOf(i, p, "near", "unseen", TRUE) : i \in Moments, p \in 0..1}
SomeRecordings == [1..3 -> Kinds] \union [1..4 -> Places]

\* An excellent, a good, a limited and a blocked recording.
Video(v, e, f, s) == [vertical |-> v, edge |-> e, fps |-> f, seconds |-> s]
SomeVideos == {Video(FALSE, 1080, 30, 60), Video(FALSE, 720, 24, 10),
               Video(TRUE, 720, 30, 60), Video(FALSE, 720, 10, 2)}

\* Two players do what they like in each window of three seconds, a third keeps
\* to a baseline; then two windows of which candidate 1 may be unreliable, in
\* recordings that are too short, or end in a short window.
Habits == [
    rally |-> <<"step", "step", "still", "back", "back", "still", "step", "step", "still", "back", "back", "still">>,
    stand |-> [t \in 1..12 |-> "still"],
    drift |-> [t \in 1..12 |-> CASE t = 4 -> "step" [] t = 9 -> "none" [] OTHER -> "still"],
    absent |-> [t \in 1..12 |-> CASE t \in 3..7 -> "none" [] t \in {2, 9, 12} -> "step" [] OTHER -> "back"],
    switch |-> [t \in 1..12 |-> CASE t \in {4, 9, 10} -> "none" [] t = 5 -> "new"
                                   [] t \in {2, 7} -> "back" [] OTHER -> "step"],
    out |-> [t \in 1..12 |-> CASE t \in {3, 6, 9, 11} -> "unusable" [] t \in {4, 5} -> "back" [] OTHER -> "step"]]
Doing(a, b) == [t \in 0..24 |-> Habits[IF t \in 12..23 THEN b ELSE a][(t % 12) + 1]]
SceneOf(length, motions, status, atKitchen, suitable, current) ==
    [length |-> length, suitable |-> suitable, current |-> current,
     players |-> [p \in 1..3 |-> [status |-> IF p = 1 THEN status ELSE "sound",
         kitchen |-> p = 2 /\ atKitchen,
         motion |-> [t \in 0..24 |-> IF t < length THEN motions[p][t] ELSE "none"]]]]
Freely == {Doing(a, b) : a \in DOMAIN Habits, b \in DOMAIN Habits}
Steadily == {Doing(a, a) : a \in {"rally", "stand"}}
SomeScenes ==
    {SceneOf(24, <<a, b, c>>, "sound", FALSE, TRUE, TRUE) : a \in Freely, b \in Freely, c \in Steadily}
  \union {SceneOf(l, <<a, b, c>>, s, k, u, v) : l \in {20, 25}, a \in Steadily, b \in Steadily,
            c \in Steadily, s \in {"sound", "weak", "rejected"}, k \in BOOLEAN, u \in BOOLEAN, v \in BOOLEAN}

\* Bound: at most one abandoned request is still on its way.
FewLate == Cardinality(late) <= 1
=============================================================================
