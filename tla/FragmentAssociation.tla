------------------------- MODULE FragmentAssociation ------------------------
(***************************************************************************)
(* How track fragments become the candidates of one person                 *)
(* (src/app/services/candidates/service.py).  associate_fragments ranks    *)
(* all plausible continuations and joins greedily, except where somebody   *)
(* else who was on court at the same time could supply an endpoint.        *)
(*                                                                         *)
(* A fragment has its first and last observation time, one court position, *)
(* a side, an appearance and whether its endpoints were observed on court. *)
(* Times, distances and thresholds are small integers; area ratios and     *)
(* similarities only matter through their thresholds.                      *)
(***************************************************************************)
EXTENDS Integers, Sequences, FiniteSets

CONSTANTS
    Recordings,     \* the fragments a recording may have; an id is an index
    MaxGap, ShortGap, MaxDistance, MaxSpeed, MinReentry

Fragment == [first : Int, last : Int, pos : Int, side : {"near", "far", "unknown"},
             look : STRING, onCourt : BOOLEAN]
AssociationAssumption ==
    /\ {MaxGap, ShortGap, MaxDistance, MaxSpeed, MinReentry} \subseteq Nat
    /\ \A r \in Recordings : r \in Seq(Fragment) /\ \A t \in DOMAIN r : r[t].first <= r[t].last

VARIABLES
    frag,       \* the fragments, by track id
    todo,       \* plausible edges still to be considered
    group       \* the root that each track id belongs to

vars == <<frag, todo, group>>
Ids  == DOMAIN frag

Abs(n) == IF n < 0 THEN -n ELSE n

\* _opposite_sides: a fragment near the net has an unknown side.
Opposite(f, g) == {f.side, g.side} = {"near", "far"}

\* _groups_compatible, for two fragments.
Overlap(f, g) == (IF f.last < g.last THEN f.last ELSE g.last)
                   - (IF f.first > g.first THEN f.first ELSE g.first)
CompatiblePair(f, g) == Overlap(f, g) < 0 /\ ~Opposite(f, g)
Compatible_Ends(A, B) ==
    CompatiblePair(frag[CHOOSE a \in A : TRUE], frag[CHOOSE b \in B : TRUE])
Compatible(A, B) == \A a \in A, b \in B : CompatiblePair(frag[a], frag[b])

\* _association_evidence: g plausibly continues f.
Plausible(f, g) ==
    LET gap == g.first - f.last
        far == Abs(g.pos - f.pos)
    IN  /\ f.onCourt /\ g.onCourt
        /\ gap > 0 /\ gap <= MaxGap
        /\ ~Opposite(f, g)
        /\ far <= MaxDistance /\ far <= MaxSpeed * gap
        /\ f.look = g.look \/ "unseen" \in {f.look, g.look}
        /\ gap > ShortGap =>
              /\ f.look = g.look /\ f.look # "unseen"
              /\ f.last - f.first >= MinReentry /\ g.last - g.first >= MinReentry

Edges(fs) == {e \in (DOMAIN fs) \X (DOMAIN fs) : Plausible(fs[e[1]], fs[e[2]])}

\* The order of the scores: gap, distance, then the ids.
Before(fs, d, e) ==
    LET score(x) == <<fs[x[2]].first - fs[x[1]].last, Abs(fs[x[2]].pos - fs[x[1]].pos), x[1], x[2]>>
        p == score(d)
        q == score(e)
    IN  \E k \in 1..4 : p[k] < q[k] /\ \A j \in 1..(k - 1) : p[j] = q[j]

Init ==
    /\ frag \in Recordings
    /\ todo = Edges(frag)
    /\ group = [t \in Ids |-> t]

Members(r) == {t \in Ids : group[t] = r}
Group(t)   == Members(group[t])

\* Somebody simultaneous could supply either endpoint.
Ambiguous_Successors(e) ==
    \E d \in Edges(frag) : d[1] = e[1] /\ d[2] # e[2] /\ ~Compatible({d[2]}, {e[2]})
Ambiguous(e) ==
    \E d \in Edges(frag) :
        \/ d[2] = e[2] /\ d[1] # e[1] /\ ~Compatible({d[1]}, {e[1]})
        \/ d[1] = e[1] /\ d[2] # e[2] /\ ~Compatible({d[2]}, {e[2]})

Joinable(e) == ~Ambiguous(e) /\ group[e[1]] # group[e[2]] /\ Compatible(Group(e[1]), Group(e[2]))

Joined(r, s) == [t \in Ids |-> IF group[t] = s THEN r ELSE group[t]]

\* The edges are taken best first.
IsBest(e) == \A d \in todo \ {e} : Before(frag, e, d)

Join(e) ==
    /\ IsBest(e) /\ Joinable(e)
    /\ LET r == group[e[1]]
           s == group[e[2]]
       IN  group' = IF r < s THEN Joined(r, s) ELSE Joined(s, r)
    /\ todo' = todo \ {e}
    /\ UNCHANGED frag

Skip(e) ==
    /\ IsBest(e) /\ ~Joinable(e)
    /\ todo' = todo \ {e}
    /\ UNCHANGED <<frag, group>>

Next == \E e \in todo : Join(e) \/ Skip(e)
Spec == Init /\ [][Next]_vars

-----------------------------------------------------------------------------
TypeOK ==
    /\ frag \in Recordings
    /\ todo \subseteq Edges(frag)
    /\ group \in [Ids -> Ids]

\* Nobody is in two places: the fragments of a candidate never overlap and
\* never lie on opposite sides, whatever chain of edges joined them.
OnePersonPerCandidate ==
    \A s, t \in Ids : s # t /\ group[s] = group[t] => CompatiblePair(frag[s], frag[t])

\* The root of a group is its smallest id and belongs to it, so removing a
\* root never loses a fragment.
RootsAreMembers == \A t \in Ids : group[group[t]] = group[t] /\ group[t] <= t

\* Once all edges were considered, a continuation that is left open was
\* ambiguous or impossible: the greedy order misses none of the others.
NothingLeftOpen ==
    todo = {} => \A e \in Edges(frag) : ~Joinable(e)

\* When two people on court at the same time could continue a fragment, the
\* fragment is not given to either of them by its rank or id: an edge with
\* such a rival at an endpoint is never the reason of a join.
JoinHasNoRival ==
    \A s, t \in Ids : group[s] # group[t] /\ group'[s] = group'[t] =>
        \E e \in Edges(frag) :
            /\ {group[e[1]], group[e[2]]} = {group[s], group[t]}
            /\ \A d \in Edges(frag) :
                 /\ d[2] = e[2] /\ d # e => Overlap(frag[d[1]], frag[e[1]]) < 0
                 /\ d[1] = e[1] /\ d # e => Overlap(frag[d[2]], frag[e[2]]) < 0
=============================================================================
