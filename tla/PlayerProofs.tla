----------------------------- MODULE PlayerProofs -----------------------------
(***************************************************************************)
(* Proofs about the candidates of a match: how fragments are associated,   *)
(* for any recording and any thresholds; how the user's review keeps the   *)
(* candidates consistent, for any tracks, groups, ranks and checks; what   *)
(* is measured of one of them and said about it, for any frames; what the  *)
(* estimate of active play says of a recording, for any motion; and what   *)
(* the upload page does, for any files, workers and lost requests.         *)
(***************************************************************************)
EXTENDS PlayerWork, FiniteSums, SequenceTheorems

-----------------------------------------------------------------------------
(* The association of fragments.                                            *)

\* The greedy choice is final: an edge that was considered is not joinable,
\* and no later join makes it so.
ConsideredClosed == \A e \in Association!Edges(frag) \ todo : ~Association!Joinable(e)

AssociationInv ==
    /\ Association!TypeOK /\ Association!OnePersonPerCandidate
    /\ Association!RootsAreMembers /\ ConsideredClosed

\* The fragments of a recording, and the edges between them.
LEMMA Fragments ==
    ASSUME Association!TypeOK
    PROVE  /\ Association!Ids \subseteq Nat
           /\ \A t \in Association!Ids : frag[t].first \in Int /\ frag[t].last \in Int
           /\ \A e \in Association!Edges(frag) :
                 e[1] \in Association!Ids /\ e[2] \in Association!Ids /\ e = <<e[1], e[2]>>
<1>1. frag \in Seq(Association!Fragment)
  BY WellFormed DEF WellFormed, Association!AssociationAssumption, Association!TypeOK
<1>2. /\ Association!Ids = 1 .. Len(frag) /\ Len(frag) \in Nat
      /\ \A t \in 1 .. Len(frag) : frag[t] \in Association!Fragment
  BY <1>1, LenProperties, ElementOfSeq DEF Association!Ids
<1>3. \A t \in Association!Ids : frag[t].first \in Int /\ frag[t].last \in Int
  BY <1>2 DEF Association!Fragment
<1>4. \A e \in Association!Edges(frag) :
         e[1] \in Association!Ids /\ e[2] \in Association!Ids /\ e = <<e[1], e[2]>>
  BY DEF Association!Edges, Association!Ids
<1>. QED BY <1>2, <1>3, <1>4

LEMMA PairSymmetric ==
    ASSUME Association!TypeOK, NEW s \in Association!Ids, NEW t \in Association!Ids,
           Association!CompatiblePair(frag[s], frag[t])
    PROVE  Association!CompatiblePair(frag[t], frag[s])
<1>1. /\ frag[s].first \in Int /\ frag[s].last \in Int
      /\ frag[t].first \in Int /\ frag[t].last \in Int
  BY Fragments
<1>2. Association!Overlap(frag[s], frag[t]) = Association!Overlap(frag[t], frag[s])
  BY <1>1 DEF Association!Overlap
<1>3. Association!Opposite(frag[s], frag[t]) = Association!Opposite(frag[t], frag[s])
  <2>1. {frag[s].side, frag[t].side} = {frag[t].side, frag[s].side} OBVIOUS
  <2>. QED BY <2>1 DEF Association!Opposite
<1>. QED BY <1>2, <1>3 DEF Association!CompatiblePair

LEMMA AssociationInit == ASSUME Association!Init PROVE AssociationInv
<1>1. Association!TypeOK BY DEF Association!Init, Association!TypeOK
<1>2. \A t \in Association!Ids : group[t] = t /\ t \in Nat
  BY <1>1, Fragments DEF Association!Init
<1>. QED BY <1>1, <1>2
     DEF AssociationInv, Association!OnePersonPerCandidate, Association!RootsAreMembers,
         ConsideredClosed, Association!Init

\* What a join does: the group with the larger root goes into the other.
LEMMA JoinMoves ==
    ASSUME AssociationInv, NEW e \in todo, Association!Join(e)
    PROVE  \E a, b \in Association!Ids :
              /\ a < b /\ {a, b} = {group[e[1]], group[e[2]]}
              /\ group[a] = a /\ group[b] = b
              /\ group' = [t \in Association!Ids |-> IF group[t] = b THEN a ELSE group[t]]
              /\ \A s, t \in Association!Ids :
                    group[s] = a /\ group[t] = b => Association!CompatiblePair(frag[s], frag[t])
<1>1. /\ e[1] \in Association!Ids /\ e[2] \in Association!Ids /\ Association!Ids \subseteq Nat
      /\ group \in [Association!Ids -> Association!Ids]
  BY Fragments DEF AssociationInv, Association!TypeOK
<1>. DEFINE r == group[e[1]]
            s == group[e[2]]
<1>2. r \in Association!Ids /\ s \in Association!Ids /\ group[r] = r /\ group[s] = s
  BY <1>1 DEF AssociationInv, Association!RootsAreMembers
<1>3. r # s /\ Association!Compatible(Association!Group(e[1]), Association!Group(e[2]))
  BY DEF Association!Join, Association!Joinable
<1>4. \A x, y \in Association!Ids :
         group[x] = r /\ group[y] = s => /\ Association!CompatiblePair(frag[x], frag[y])
                                         /\ Association!CompatiblePair(frag[y], frag[x])
  BY <1>3, PairSymmetric DEF Association!Compatible, Association!Group, Association!Members, AssociationInv
<1>5. group' = IF r < s THEN Association!Joined(r, s) ELSE Association!Joined(s, r)
  BY DEF Association!Join
<1>6. CASE r < s
  <2>1. group' = [t \in Association!Ids |-> IF group[t] = s THEN r ELSE group[t]]
    BY <1>5, <1>6 DEF Association!Joined
  <2>. QED BY <1>2, <1>4, <1>6, <2>1
<1>7. CASE ~(r < s)
  <2>1. group' = [t \in Association!Ids |-> IF group[t] = r THEN s ELSE group[t]]
    BY <1>5, <1>7 DEF Association!Joined
  <2>3. {s, r} = {group[e[1]], group[e[2]]} OBVIOUS
  <2>4. r \in Nat /\ s \in Nat /\ r # s BY <1>1, <1>2, <1>3
  <2>. HIDE DEF r, s
  <2>2. s < r BY <1>7, <2>4
  <2>. QED BY <1>2, <1>4, <2>1, <2>2, <2>3
<1>. QED BY <1>6, <1>7

LEMMA JoinKeeps ==
    ASSUME AssociationInv, NEW e \in todo, Association!Join(e)
    PROVE  AssociationInv'
<1>1. PICK a \in Association!Ids, b \in Association!Ids :
         /\ a < b /\ {a, b} = {group[e[1]], group[e[2]]}
         /\ group[a] = a /\ group[b] = b
         /\ group' = [t \in Association!Ids |-> IF group[t] = b THEN a ELSE group[t]]
         /\ \A s, t \in Association!Ids :
               group[s] = a /\ group[t] = b => Association!CompatiblePair(frag[s], frag[t])
  BY JoinMoves
<1>2. /\ frag' = frag /\ todo' = todo \ {e} /\ Association!Ids' = Association!Ids
      /\ Association!Ids \subseteq Nat /\ group \in [Association!Ids -> Association!Ids]
      /\ e[1] \in Association!Ids /\ e[2] \in Association!Ids
  BY Fragments DEF AssociationInv, Association!TypeOK, Association!Join, Association!Ids
<1>3. Association!Edges(frag)' = Association!Edges(frag) BY <1>2
<1>4. \A t \in Association!Ids : group'[t] = IF group[t] = b THEN a ELSE group[t]
  BY <1>1
<1>5. Association!TypeOK'
  BY <1>1, <1>2, <1>3 DEF AssociationInv, Association!TypeOK
<1>6. Association!OnePersonPerCandidate'
  <2>. SUFFICES ASSUME NEW s \in Association!Ids, NEW t \in Association!Ids, s # t, group'[s] = group'[t]
                PROVE  Association!CompatiblePair(frag[s], frag[t])
    BY <1>2 DEF Association!OnePersonPerCandidate
  <2>1. CASE group[s] = group[t]
    BY <2>1 DEF AssociationInv, Association!OnePersonPerCandidate
  <2>2. CASE group[s] = a /\ group[t] = b BY <1>1, <2>2
  <2>3. CASE group[s] = b /\ group[t] = a
    BY <1>1, <2>3, PairSymmetric DEF AssociationInv
  <2>. QED BY <1>4, <2>1, <2>2, <2>3
<1>7. Association!RootsAreMembers'
  <2>1. \A t \in Association!Ids : group[t] \in Association!Ids /\ group[group[t]] = group[t] /\ group[t] <= t
    BY <1>2 DEF AssociationInv, Association!RootsAreMembers
  <2>2. ASSUME NEW t \in Association!Ids PROVE group'[group'[t]] = group'[t] /\ group'[t] <= t
    <3>1. CASE group[t] = b BY <1>1, <1>2, <1>4, <2>1, <3>1
    <3>2. CASE group[t] # b BY <1>2, <1>4, <2>1, <3>2
    <3>. QED BY <3>1, <3>2
  <2>. QED BY <1>2, <2>2 DEF Association!RootsAreMembers
<1>8. ConsideredClosed'
  <2>. SUFFICES ASSUME NEW d \in Association!Edges(frag), d \notin todo', Association!Joinable(d)'
                PROVE  FALSE
    BY <1>3 DEF ConsideredClosed
  <2>1. /\ ~Association!Ambiguous(d) /\ group'[d[1]] # group'[d[2]]
        /\ Association!Compatible(Association!Group(d[1]), Association!Group(d[2]))'
    BY <1>2, <1>3 DEF Association!Joinable, Association!Ambiguous, Association!Compatible
  <2>2. d[1] \in Association!Ids /\ d[2] \in Association!Ids
    BY Fragments DEF AssociationInv
  <2>3. d # e BY <1>1, <1>2, <1>4, <2>1
  <2>4. ~Association!Joinable(d) BY <1>2, <2>3 DEF AssociationInv, ConsideredClosed
  <2>5. group[d[1]] # group[d[2]] BY <1>4, <2>1, <2>2
  <2>6. \A t \in {d[1], d[2]} : Association!Group(t) \subseteq Association!Group(t)'
    BY <1>2, <1>4, <2>2 DEF Association!Group, Association!Members
  <2>7. Association!Compatible(Association!Group(d[1]), Association!Group(d[2]))
    BY <1>2, <2>1, <2>6 DEF Association!Compatible
  <2>. QED BY <2>1, <2>4, <2>5, <2>7 DEF Association!Joinable
<1>. QED BY <1>5, <1>6, <1>7, <1>8 DEF AssociationInv

LEMMA AssociationStep == ASSUME AssociationInv, [Association!Next]_fragmentVars PROVE AssociationInv'
<1>1. ASSUME NEW e \in todo, Association!Skip(e) PROVE AssociationInv'
  <2>1. UNCHANGED <<frag, group>> /\ todo' = todo \ {e} /\ ~Association!Joinable(e)
    BY <1>1 DEF Association!Skip
  <2>. QED BY <2>1 DEF AssociationInv, ConsideredClosed, Association!TypeOK, Association!OnePersonPerCandidate,
           Association!RootsAreMembers, Association!Ids, Association!Joinable, Association!Ambiguous,
           Association!Compatible, Association!Group, Association!Members
<1>2. CASE UNCHANGED fragmentVars
  BY <1>2 DEF fragmentVars, AssociationInv, ConsideredClosed, Association!TypeOK,
      Association!OnePersonPerCandidate, Association!RootsAreMembers, Association!Ids, Association!Joinable,
      Association!Ambiguous, Association!Compatible, Association!Group, Association!Members
<1>. QED BY <1>1, <1>2, JoinKeeps DEF Association!Next

\* Whatever the recording, nobody is in two places and no continuation that was
\* possible and unambiguous is left open (associate_fragments).
THEOREM AssociationTheorem == Spec => []OnePersonPerCandidate
<1>. DEFINE Inv == focus = "association" => AssociationInv
<1>1. Init => Inv BY AssociationInit DEF Init
<1>2. Inv /\ [Next]_vars => Inv'
  <2>. SUFFICES ASSUME Inv, [Next]_vars, focus' = "association" PROVE AssociationInv'
    OBVIOUS
  <2>1. focus = "association" /\ [Association!Next]_fragmentVars BY DEF Next, vars
  <2>. QED BY <2>1, AssociationStep
<1>3. Inv => OnePersonPerCandidate
  BY DEF OnePersonPerCandidate, AssociationInv, ConsideredClosed, Association!NothingLeftOpen
<1>. QED BY <1>1, <1>2, <1>3, PTL DEF Spec

\* An edge that was joined had no rival.
LEMMA NoRival == ASSUME AssociationInv, [Association!Next]_fragmentVars PROVE Association!JoinHasNoRival
<1>. SUFFICES ASSUME NEW s \in Association!Ids, NEW t \in Association!Ids,
                     group[s] # group[t], group'[s] = group'[t]
              PROVE  \E e \in Association!Edges(frag) :
                        /\ {group[e[1]], group[e[2]]} = {group[s], group[t]}
                        /\ \A d \in Association!Edges(frag) :
                             /\ d[2] = e[2] /\ d # e => Association!Overlap(frag[d[1]], frag[e[1]]) < 0
                             /\ d[1] = e[1] /\ d # e => Association!Overlap(frag[d[2]], frag[e[2]]) < 0
  BY DEF Association!JoinHasNoRival
<1>1. group' # group OBVIOUS
<1>2. PICK e \in todo : Association!Join(e)
  BY <1>1 DEF Association!Next, Association!Skip, fragmentVars
<1>3. e \in Association!Edges(frag) BY DEF AssociationInv, Association!TypeOK
<1>4. {group[e[1]], group[e[2]]} = {group[s], group[t]}
  <2>1. PICK a \in Association!Ids, b \in Association!Ids :
           /\ a < b /\ {a, b} = {group[e[1]], group[e[2]]}
           /\ group[a] = a /\ group[b] = b
           /\ group' = [x \in Association!Ids |-> IF group[x] = b THEN a ELSE group[x]]
           /\ \A x, y \in Association!Ids :
                 group[x] = a /\ group[y] = b => Association!CompatiblePair(frag[x], frag[y])
    BY <1>2, JoinMoves
  <2>. QED BY <2>1
<1>5. ASSUME NEW d \in Association!Edges(frag)
      PROVE  /\ d[2] = e[2] /\ d # e => Association!Overlap(frag[d[1]], frag[e[1]]) < 0
             /\ d[1] = e[1] /\ d # e => Association!Overlap(frag[d[2]], frag[e[2]]) < 0
  <2>1. ~Association!Ambiguous(e) BY <1>2 DEF Association!Join, Association!Joinable
  <2>2. d = <<d[1], d[2]>> /\ e = <<e[1], e[2]>> BY <1>3, Fragments DEF AssociationInv
  <2>. QED BY <2>1, <2>2 DEF Association!Ambiguous, Association!Compatible, Association!CompatiblePair
<1>. QED BY <1>3, <1>4, <1>5

\* Of two people on court at once neither is given a fragment that either could
\* continue, in any recording (associate_fragments, the ambiguity margin).
THEOREM RivalsTheorem == Spec => RivalsAbstain
<1>. DEFINE Inv == focus = "association" => AssociationInv
<1>1. Init => Inv BY AssociationInit DEF Init
<1>2. Inv /\ [Next]_vars => Inv'
  <2>. SUFFICES ASSUME Inv, [Next]_vars, focus' = "association" PROVE AssociationInv'
    OBVIOUS
  <2>1. focus = "association" /\ [Association!Next]_fragmentVars BY DEF Next, vars
  <2>. QED BY <2>1, AssociationStep
<1>3. Inv /\ [Next]_vars => [focus = "association" => Association!JoinHasNoRival]_vars
  <2>. SUFFICES ASSUME Inv, Next, focus = "association" PROVE Association!JoinHasNoRival
    OBVIOUS
  <2>1. [Association!Next]_fragmentVars BY DEF Next
  <2>. QED BY <2>1, NoRival
<1>. QED BY <1>1, <1>2, <1>3, PTL DEF Spec, RivalsAbstain

-----------------------------------------------------------------------------
(* The review of the candidates.  A saved merge joins what lies inside its  *)
(* tracks, so what the candidates are follows from the groups and the       *)
(* merges that are not undone alone: the largest of them.                   *)

\* The tracks of the first n merges that are not undone.
Merged(decs, n) == {decs[i].tracks : i \in {j \in 1 .. n : decs[j].active}}

\* A group or a merge that every merge lies inside or apart from.
Top(decs, n) ==
    {c \in Groups \union Merged(decs, n) :
        \A d \in Merged(decs, n) : d \subseteq c \/ d \intersect c = {}}

\* A merge joins several whole groups; an older one lies inside or apart.
Nested(decs) ==
    /\ decs \in Seq(Candidates!Decision)
    /\ \A i \in 1 .. Len(decs) :
          /\ decs[i].tracks \notin Groups
          /\ \A g \in Groups : g \subseteq decs[i].tracks \/ g \intersect decs[i].tracks = {}
    /\ \A i, j \in 1 .. Len(decs) :
          i < j /\ decs[i].active /\ decs[j].active =>
              \/ decs[i].tracks \subseteq decs[j].tracks
              \/ decs[i].tracks \intersect decs[j].tracks = {}

Restorable == {x.tracks : x \in {y \in excluded : y.eligible}}

ReviewInv ==
    /\ Candidates!TypeOK /\ Nested(decisions)
    /\ active \union Candidates!ExcludedTracks = Top(decisions, Len(decisions))
    /\ active \intersect Candidates!ExcludedTracks = {}
    /\ \A x, y \in excluded : x.tracks = y.tracks => x = y
    /\ active \union Restorable \subseteq Eligible
    /\ Cardinality(active \union Restorable) <= MaxSelectable
    /\ selected # {} => selected \in active
    /\ tracking = selected

\* What the review is given.
LEMMA ReviewGiven ==
    /\ IsFiniteSet(Tracks) /\ UNION Groups = Tracks /\ {} \notin Groups
    /\ \A g, h \in Groups : g = h \/ g \intersect h = {}
    /\ \A c \in SUBSET Tracks : Rank(c) \in Nat
    /\ MaxSelectable \in Nat \ {0} /\ MaxDecisions \in Nat
    /\ \A T : Candidates!Cardinality(T) = Cardinality(T)
<1>1. \A T : /\ Candidates!Cardinality(T) = Cardinality(T)
             /\ Candidates!IsFiniteSet(T) = IsFiniteSet(T)
  BY DEF Candidates!Cardinality, Candidates!IsFiniteSet, Cardinality, IsFiniteSet
<1>2. Candidates!ReviewAssumption BY WellFormed DEF WellFormed
<1>3. IsFiniteSet(Tracks) /\ UNION Groups = Tracks /\ {} \notin Groups
  BY <1>1, <1>2 DEF Candidates!ReviewAssumption
<1>4. \A g, h \in Groups : g = h \/ g \intersect h = {}
  BY <1>2 DEF Candidates!ReviewAssumption
<1>5. \A c \in SUBSET Tracks : Rank(c) \in Nat
  BY <1>2 DEF Candidates!ReviewAssumption
<1>6. MaxSelectable \in Nat \ {0} /\ MaxDecisions \in Nat
  BY <1>2 DEF Candidates!ReviewAssumption
<1>. QED BY <1>1, <1>3, <1>4, <1>5, <1>6

LEMMA RankSeparates ==
    ASSUME NEW c \in SUBSET Tracks, NEW d \in SUBSET Tracks, Rank(c) = Rank(d)
    PROVE  c = d
<1>1. Candidates!ReviewAssumption BY WellFormed DEF WellFormed
<1>. QED BY <1>1 DEF Candidates!ReviewAssumption

\* The recursive pool of ApplyDecisions exists, and is what the loop computes.
Recurs(pool, first, decs, m) == pool = [n \in 0 .. m |->
    IF n = 0 THEN first ELSE Candidates!ApplyPersistedMerge(pool[n - 1], decs[n])]
LEMMA PoolExists ==
    ASSUME NEW first, NEW decs, Len(decs) \in Nat
    PROVE  \E pool : Recurs(pool, first, decs, Len(decs))
<1>. USE DEF Recurs
<1>. DEFINE Upto(pool, m) == Recurs(pool, first, decs, m)
            Sound == {m \in 0 .. Len(decs) : \E pool : Upto(pool, m)}
<1>1. 0 \in Sound
  <2>1. Upto([n \in 0 .. 0 |-> first], 0) OBVIOUS
  <2>2. 0 \in 0 .. Len(decs) OBVIOUS
  <2>. HIDE DEF Upto
  <2>. QED BY <2>1, <2>2
<1>2. ASSUME NEW k \in 1 .. Len(decs), k - 1 \in Sound PROVE k \in Sound
  <2>1. PICK pool : Upto(pool, k - 1) BY <1>2
  <2>. DEFINE longer == [n \in 0 .. k |->
          IF n = k THEN Candidates!ApplyPersistedMerge(pool[k - 1], decs[k]) ELSE pool[n]]
  <2>2. \A n \in 0 .. k : longer[n] =
          IF n = 0 THEN first ELSE Candidates!ApplyPersistedMerge(longer[n - 1], decs[n])
    <3>. SUFFICES ASSUME NEW n \in 0 .. k
                  PROVE  longer[n] = IF n = 0 THEN first
                                     ELSE Candidates!ApplyPersistedMerge(longer[n - 1], decs[n])
      OBVIOUS
    <3>1. CASE n = k
      <4>1. k # 0 /\ k - 1 \in 0 .. k /\ k - 1 # k OBVIOUS
      <4>2. longer[k - 1] = pool[k - 1] BY <4>1
      <4>. QED BY <3>1, <4>1, <4>2
    <3>2. CASE n # k
      <4>1. n \in 0 .. k - 1 BY <3>2
      <4>2. pool[n] = IF n = 0 THEN first ELSE Candidates!ApplyPersistedMerge(pool[n - 1], decs[n])
        BY <2>1, <4>1
      <4>3. longer[n] = pool[n] BY <3>2
      <4>4. n # 0 => longer[n - 1] = pool[n - 1] BY <4>1
      <4>. QED BY <4>2, <4>3, <4>4
    <3>. QED BY <3>1, <3>2
  <2>3. Upto(longer, k)
    <3>. DEFINE l == longer
    <3>1. l = [n \in 0 .. k |-> l[n]] OBVIOUS
    <3>. HIDE DEF longer
    <3>. QED BY <2>2, <3>1
  <2>4. k \in 0 .. Len(decs) OBVIOUS
  <2>. HIDE DEF Upto
  <2>. QED BY <2>3, <2>4
<1>3. Sound = 0 .. Len(decs)
  <2>. HIDE DEF Sound
  <2>1. Sound \in SUBSET (0 .. Len(decs)) BY DEF Sound
  <2>. QED BY <1>1, <1>2, <2>1, CountingUp
<1>4. Len(decs) \in Sound BY <1>3
<1>. QED BY <1>4

LEMMA Applied ==
    ASSUME NEW first, NEW decs, Len(decs) \in Nat
    PROVE  \E pool :
              /\ pool[0] = first
              /\ \A n \in 1 .. Len(decs) : pool[n] = Candidates!ApplyPersistedMerge(pool[n - 1], decs[n])
              /\ Candidates!ApplyDecisions(first, decs) = pool[Len(decs)]
<1>. DEFINE pool == CHOOSE p : Recurs(p, first, decs, Len(decs))
<1>1. Recurs(pool, first, decs, Len(decs)) BY PoolExists
<1>2. Candidates!ApplyDecisions(first, decs) = pool[Len(decs)]
  BY DEF Candidates!ApplyDecisions, Recurs
<1>. HIDE DEF pool
<1>. USE DEF Recurs
<1>3. pool[0] = first BY <1>1
<1>4. \A n \in 1 .. Len(decs) : pool[n] = Candidates!ApplyPersistedMerge(pool[n - 1], decs[n])
  BY <1>1
<1>. QED BY <1>2, <1>3, <1>4

LEMMA NestedFacts ==
    ASSUME NEW decs, Nested(decs)
    PROVE  /\ Len(decs) \in Nat
           /\ \A i \in 1 .. Len(decs) :
                 /\ decs[i].tracks \subseteq Tracks /\ decs[i].tracks # {} /\ decs[i].tracks \notin Groups
                 /\ decs[i].active \in BOOLEAN
                 /\ \A g \in Groups : g \subseteq decs[i].tracks \/ g \intersect decs[i].tracks = {}
<1>1. decs \in Seq(Candidates!Decision) BY DEF Nested
<1>2. Len(decs) \in Nat /\ \A i \in 1 .. Len(decs) : decs[i] \in Candidates!Decision
  BY <1>1, LenProperties, ElementOfSeq
<1>3. ASSUME NEW i \in 1 .. Len(decs)
      PROVE  decs[i].tracks \subseteq Tracks /\ decs[i].tracks # {} /\ decs[i].active \in BOOLEAN
  <2>1. decs[i].tracks \in Candidates!Candidate /\ decs[i].active \in BOOLEAN
    BY <1>2 DEF Candidates!Decision
  <2>. QED BY <2>1 DEF Candidates!Candidate, Candidates!NoGroup
<1>4. \A i \in 1 .. Len(decs) :
         /\ decs[i].tracks \notin Groups
         /\ \A g \in Groups : g \subseteq decs[i].tracks \/ g \intersect decs[i].tracks = {}
  BY DEF Nested
<1>. QED BY <1>2, <1>3, <1>4

\* The largest groups and merges: every raw track belongs to exactly one, and
\* every merge lies inside one.
LEMMA TopPartitions ==
    ASSUME NEW decs, Nested(decs), NEW n \in 0 .. Len(decs)
    PROVE  /\ Top(decs, n) \subseteq SUBSET Tracks /\ {} \notin Top(decs, n)
           /\ \A t \in Tracks : \E c \in Top(decs, n) : t \in c
           /\ \A c, d \in Top(decs, n) : c = d \/ c \intersect d = {}
           /\ \A d \in Merged(decs, n) : \E c \in Top(decs, n) : d \subseteq c
<1>1. /\ Len(decs) \in Nat
      /\ \A i \in 1 .. n :
            /\ decs[i].tracks \subseteq Tracks /\ decs[i].tracks # {} /\ decs[i].tracks \notin Groups
            /\ \A g \in Groups : g \subseteq decs[i].tracks \/ g \intersect decs[i].tracks = {}
  BY NestedFacts
<1>2. \A d \in Merged(decs, n) : d \subseteq Tracks /\ d # {}
  BY <1>1 DEF Merged
<1>3. \A g \in Groups, d \in Merged(decs, n) : g \subseteq d \/ g \intersect d = {}
  BY <1>1 DEF Merged
<1>4. Top(decs, n) \subseteq SUBSET Tracks /\ {} \notin Top(decs, n)
  <2>1. Groups \subseteq SUBSET Tracks /\ {} \notin Groups BY ReviewGiven
  <2>2. Merged(decs, n) \subseteq SUBSET Tracks /\ {} \notin Merged(decs, n) BY <1>2
  <2>. QED BY <2>1, <2>2 DEF Top
<1>5. ASSUME NEW c \in Top(decs, n), NEW d \in Top(decs, n) PROVE c = d \/ c \intersect d = {}
  <2>1. CASE c \in Merged(decs, n) /\ d \in Merged(decs, n)
    BY <2>1 DEF Top
  <2>2. CASE c \in Groups /\ d \in Merged(decs, n)
    <3>1. d \subseteq c \/ d \intersect c = {} BY <2>2 DEF Top
    <3>2. c \subseteq d \/ c \intersect d = {} BY <1>3, <2>2
    <3>. QED BY <3>1, <3>2
  <2>3. CASE c \in Merged(decs, n) /\ d \in Groups
    <3>1. c \subseteq d \/ c \intersect d = {} BY <2>3 DEF Top
    <3>2. d \subseteq c \/ d \intersect c = {} BY <1>3, <2>3
    <3>. QED BY <3>1, <3>2
  <2>4. CASE c \in Groups /\ d \in Groups BY <2>4, ReviewGiven
  <2>. QED BY <2>1, <2>2, <2>3, <2>4 DEF Top
<1>6. ASSUME NEW t \in Tracks PROVE \E c \in Top(decs, n) : t \in c
  <2>1. PICK g \in Groups : t \in g BY ReviewGiven
  <2>. DEFINE Around == {i \in 1 .. n : decs[i].active /\ g \subseteq decs[i].tracks}
  <2>2. CASE Around = {}
    <3>0. \A i \in 1 .. n : decs[i].active => ~(g \subseteq decs[i].tracks) BY <2>2
    <3>3. \A d \in Merged(decs, n) : ~(g \subseteq d) BY <3>0 DEF Merged
    <3>1. \A d \in Merged(decs, n) : d \intersect g = {} BY <1>3, <3>3
    <3>2. g \in Top(decs, n) BY <3>1 DEF Top
    <3>. QED BY <2>1, <3>2
  <2>3. CASE Around # {}
    <3>1. IsFiniteSet(Around)
      <4>1. IsFiniteSet(1 .. n) BY <1>1, FS_Interval
      <4>2. Around \in SUBSET (1 .. n) OBVIOUS
      <4>. QED BY <4>1, <4>2, FS_Subset
    <3>2. Around \in SUBSET Nat OBVIOUS
    <3>3. PICK i \in Around : \A j \in Around : j <= i
      <4>. HIDE DEF Around
      <4>. QED BY <2>3, <3>1, <3>2, ExtremesExist
    <3>4. decs[i].tracks \in Merged(decs, n) BY DEF Merged
    <3>5. ASSUME NEW j \in 1 .. n, decs[j].active
          PROVE  decs[j].tracks \subseteq decs[i].tracks \/ decs[j].tracks \intersect decs[i].tracks = {}
      <4>0. i \in 1 .. Len(decs) /\ j \in 1 .. Len(decs) BY <1>1
      <4>1. CASE j < i BY <3>5, <4>0, <4>1 DEF Nested
      <4>2. CASE j = i BY <4>2
      <4>3. CASE i < j
        <5>1. \/ decs[i].tracks \subseteq decs[j].tracks
              \/ decs[i].tracks \intersect decs[j].tracks = {}
          BY <3>5, <4>0, <4>3 DEF Nested
        <5>2. ~(j <= i) BY <4>3
        <5>3. j \notin Around BY <3>3, <5>2
        <5>. QED BY <3>5, <5>1, <5>3
      <4>. QED BY <4>1, <4>2, <4>3
    <3>6. decs[i].tracks \in Top(decs, n) BY <3>4, <3>5 DEF Top, Merged
    <3>. QED BY <2>1, <3>6
  <2>. QED BY <2>2, <2>3
<1>7. ASSUME NEW d \in Merged(decs, n) PROVE \E c \in Top(decs, n) : d \subseteq c
  <2>1. PICK t \in d : t \in Tracks BY <1>2
  <2>2. PICK c \in Top(decs, n) : t \in c BY <1>6, <2>1
  <2>3. d \subseteq c BY <2>1, <2>2 DEF Top
  <2>. QED BY <2>2, <2>3
<1>. QED BY <1>4, <1>5, <1>6, <1>7

\* One more merge: what lies inside it becomes one candidate.
LEMMA TopGrows ==
    ASSUME NEW decs, Nested(decs), NEW n \in 1 .. Len(decs), decs[n].active
    PROVE  LET inside == {c \in Top(decs, n - 1) : c \subseteq decs[n].tracks}
           IN  /\ UNION inside = decs[n].tracks
               /\ Top(decs, n) = (Top(decs, n - 1) \ inside) \union {decs[n].tracks}
<1>. DEFINE d == decs[n].tracks
            inside == {c \in Top(decs, n - 1) : c \subseteq d}
<1>1. /\ Len(decs) \in Nat /\ d \subseteq Tracks /\ d # {} /\ d \notin Groups
      /\ \A g \in Groups : g \subseteq d \/ g \intersect d = {}
  BY NestedFacts
<1>2. n - 1 \in 0 .. Len(decs) BY <1>1
<1>3. /\ Top(decs, n - 1) \subseteq SUBSET Tracks /\ {} \notin Top(decs, n - 1)
      /\ \A t \in Tracks : \E c \in Top(decs, n - 1) : t \in c
  BY <1>2, TopPartitions
<1>4. Merged(decs, n) = Merged(decs, n - 1) \union {d}
  <2>1. 1 .. n = (1 .. n - 1) \union {n} BY <1>1
  <2>. QED BY <2>1 DEF Merged
<1>5. \A e \in Merged(decs, n - 1) : e \subseteq d \/ e \intersect d = {}
  <2>1. \A i \in 1 .. n - 1 : i \in 1 .. Len(decs) /\ i < n BY <1>1
  <2>. QED BY <2>1 DEF Merged, Nested
<1>6. \A c \in Top(decs, n - 1) : c \subseteq d \/ c \intersect d = {}
  BY <1>1, <1>5 DEF Top
<1>. HIDE DEF d
<1>7. UNION inside = d
  <2>1. ASSUME NEW t \in d PROVE t \in UNION inside
    <3>1. PICK c \in Top(decs, n - 1) : t \in c BY <1>1, <1>3
    <3>2. c \subseteq d BY <1>6, <3>1
    <3>. QED BY <3>1, <3>2
  <2>. QED BY <2>1
<1>8. d \in Top(decs, n) BY <1>4, <1>5 DEF Top
<1>9. \A c \in Top(decs, n - 1) \ inside : c \in Top(decs, n) BY <1>4, <1>6 DEF Top
<1>10. ASSUME NEW c \in Top(decs, n), c # d PROVE c \in Top(decs, n - 1) \ inside
  <2>1. c \in Top(decs, n - 1) BY <1>4, <1>10 DEF Top
  <2>2. d \subseteq c \/ d \intersect c = {} BY <1>4 DEF Top
  <2>3. c # {} BY <1>3, <2>1
  <2>4. ~(c \subseteq d)
    <3>. SUFFICES ASSUME c \subseteq d PROVE FALSE OBVIOUS
    <3>1. CASE d \subseteq c BY <1>10, <3>1
    <3>2. CASE d \intersect c = {} BY <2>3, <3>2
    <3>. QED BY <2>2, <3>1, <3>2
  <2>. QED BY <2>1, <2>4
<1>11. Top(decs, n) = (Top(decs, n - 1) \ inside) \union {d} BY <1>8, <1>9, <1>10
<1>. QED BY <1>7, <1>11 DEF d

\* What the loop over the saved merges makes of the groups; and a rejected group
\* stays rejected in it as long as it is a candidate.
LEMMA AppliedTop ==
    ASSUME NEW decs, Nested(decs), NEW rej,
           NEW pool, pool = Candidates!ApplyDecisions([cands |-> Groups, rejected |-> rej], decs)
    PROVE  /\ pool.cands = Top(decs, Len(decs))
           /\ \A g \in Groups \intersect rej \intersect pool.cands : g \in pool.rejected
<1>. DEFINE first == [cands |-> Groups, rejected |-> rej]
            Right(p, n) == /\ p.cands = Top(decs, n)
                           /\ \A g \in Groups \intersect rej \intersect p.cands : g \in p.rejected
<1>1. Len(decs) \in Nat BY NestedFacts
<1>2. PICK pools : /\ pools[0] = first
                   /\ \A n \in 1 .. Len(decs) :
                         pools[n] = Candidates!ApplyPersistedMerge(pools[n - 1], decs[n])
                   /\ Candidates!ApplyDecisions(first, decs) = pools[Len(decs)]
  <2>. HIDE DEF first
  <2>. QED BY <1>1, Applied
<1>. DEFINE Good == {n \in 0 .. Len(decs) : Right(pools[n], n)}
<1>3. 0 \in Good
  <2>1. Merged(decs, 0) = {} BY DEF Merged
  <2>2. Top(decs, 0) = Groups BY <2>1 DEF Top
  <2>3. 0 \in 0 .. Len(decs) BY <1>1
  <2>4. first.cands = Groups /\ first.rejected = rej OBVIOUS
  <2>. QED BY <1>2, <2>2, <2>3, <2>4
<1>4. ASSUME NEW n \in 1 .. Len(decs), n - 1 \in Good PROVE n \in Good
  <2>. DEFINE p == pools[n - 1]
              d == decs[n].tracks
              inside == {c \in p.cands : c \subseteq d}
  <2>1. Right(p, n - 1) BY <1>4
  <2>2. decs[n].active \in BOOLEAN /\ d \notin Groups BY NestedFacts
  <2>3. pools[n] = Candidates!ApplyPersistedMerge(p, decs[n]) BY <1>2
  <2>4. CASE ~decs[n].active
    <3>1. pools[n] = p BY <2>3, <2>4 DEF Candidates!ApplyPersistedMerge
    <3>2. 1 .. n = (1 .. n - 1) \union {n} BY <1>1
    <3>3. Merged(decs, n) = Merged(decs, n - 1) BY <2>4, <3>2 DEF Merged
    <3>4. Top(decs, n) = Top(decs, n - 1) BY <3>3 DEF Top
    <3>. QED BY <1>1, <2>1, <3>1, <3>4
  <2>5. CASE decs[n].active
    <3>1. UNION inside = d /\ Top(decs, n) = (p.cands \ inside) \union {d}
      BY <2>1, <2>5, TopGrows
    <3>2. /\ pools[n].cands = (p.cands \ inside) \union {d}
          /\ p.rejected \ inside \subseteq pools[n].rejected
      BY <2>3, <2>5, <3>1 DEF Candidates!ApplyPersistedMerge
    <3>3. \A g \in Groups \intersect rej \intersect pools[n].cands : g \in pools[n].rejected
      BY <2>1, <2>2, <3>2
    <3>4. pools[n].cands = Top(decs, n) BY <3>1, <3>2
    <3>5. n \in 0 .. Len(decs) BY <1>1
    <3>. QED BY <3>3, <3>4, <3>5
  <2>. QED BY <2>2, <2>4, <2>5
<1>5. Good = 0 .. Len(decs)
  <2>. HIDE DEF Good
  <2>1. Good \in SUBSET (0 .. Len(decs)) BY DEF Good
  <2>. QED BY <1>1, <1>3, <1>4, <2>1, CountingUp
<1>6. Right(pools[Len(decs)], Len(decs)) BY <1>1, <1>5
<1>. QED BY <1>2, <1>6

-----------------------------------------------------------------------------
\* The policy of four.

LEMMA WorstExists ==
    ASSUME NEW S \in SUBSET (SUBSET Tracks), S # {}
    PROVE  \E x \in S : \A y \in S : Rank(y) <= Rank(x)
<1>. DEFINE Unbounded == {U \in SUBSET S : U # {} /\ ~ \E x \in U : \A y \in U : Rank(y) <= Rank(x)}
<1>. SUFFICES ASSUME Unbounded # {} PROVE FALSE OBVIOUS
<1>0. IsFiniteSet(S)
  <2>1. IsFiniteSet(SUBSET Tracks) BY ReviewGiven, FS_SUBSET
  <2>. QED BY <2>1, FS_Subset
<1>1. PICK U \in Unbounded : \A V \in Unbounded : <<V, U>> \notin StrictSubsetOrdering(S)
  <2>1. IsWellFoundedOn(StrictSubsetOrdering(S), SUBSET S)
    BY <1>0, FS_StrictSubsetOrderingWellFounded, FS_FiniteSubsetsOfFinite
  <2>2. Unbounded \subseteq SUBSET S OBVIOUS
  <2>. HIDE DEF Unbounded
  <2>. QED BY <2>1, <2>2, WFMin
<1>2. PICK x \in U : TRUE OBVIOUS
<1>6. \A y \in U : Rank(y) \in Nat
  <2>1. U \subseteq SUBSET Tracks OBVIOUS
  <2>. QED BY <2>1, ReviewGiven
<1>3. U \ {x} # {} BY <1>2, <1>6
<1>4. <<U \ {x}, U>> \in StrictSubsetOrdering(S) BY <1>2 DEF StrictSubsetOrdering
<1>5. PICK m \in U \ {x} : \A y \in U \ {x} : Rank(y) <= Rank(m) BY <1>1, <1>3, <1>4
<1>7. CASE Rank(x) <= Rank(m) BY <1>5, <1>7
<1>8. CASE ~(Rank(x) <= Rank(m))
  <2>1. \A y \in U : Rank(y) <= Rank(x) BY <1>2, <1>5, <1>6, <1>8
  <2>. QED BY <1>2, <2>1
<1>. QED BY <1>7, <1>8

\* The best n are at most n: all but the worst of them come before the worst.
LEMMA BestBounded ==
    ASSUME NEW S \in SUBSET (SUBSET Tracks), NEW n \in Nat
    PROVE  /\ Candidates!Best(S, n) \subseteq S
           /\ IsFiniteSet(Candidates!Best(S, n)) /\ Cardinality(Candidates!Best(S, n)) <= n
<1>. DEFINE B == Candidates!Best(S, n)
            Before(c) == {d \in S : Rank(d) < Rank(c)}
<1>1. B = {c \in S : Cardinality(Before(c)) < n}
  BY ReviewGiven DEF Candidates!Best
<1>2. IsFiniteSet(S) /\ IsFiniteSet(B)
  <2>1. IsFiniteSet(SUBSET Tracks) BY ReviewGiven, FS_SUBSET
  <2>2. IsFiniteSet(S) BY <2>1, FS_Subset
  <2>3. B \in SUBSET S BY <1>1
  <2>. QED BY <2>2, <2>3, FS_Subset
<1>. HIDE DEF B
<1>3. Cardinality(B) <= n
  <2>1. CASE B = {} BY <2>1, FS_EmptySet
  <2>2. CASE B # {}
    <3>1. B \in SUBSET (SUBSET Tracks) BY <1>1
    <3>2. PICK w \in B : \A c \in B : Rank(c) <= Rank(w) BY <2>2, <3>1, WorstExists
    <3>3. B \ {w} \subseteq Before(w)
      <4>. SUFFICES ASSUME NEW c \in B, c # w PROVE c \in Before(w) OBVIOUS
      <4>1. c \in SUBSET Tracks /\ w \in SUBSET Tracks BY <3>1
      <4>2. Rank(c) # Rank(w) BY <4>1, RankSeparates
      <4>3. Rank(c) < Rank(w) BY <3>2, <4>1, <4>2, ReviewGiven
      <4>. QED BY <1>1, <4>3
    <3>4. IsFiniteSet(Before(w)) /\ Cardinality(Before(w)) \in Nat
      <4>1. Before(w) \in SUBSET S OBVIOUS
      <4>2. IsFiniteSet(Before(w)) BY <1>2, <4>1, FS_Subset
      <4>. QED BY <4>2, FS_CardinalityType
    <3>5. Cardinality(B \ {w}) <= Cardinality(Before(w))
      <4>1. B \ {w} \in SUBSET Before(w) BY <3>3
      <4>. HIDE DEF Before
      <4>. QED BY <3>4, <4>1, FS_Subset
    <3>6. Cardinality(B \ {w}) = Cardinality(B) - 1 /\ Cardinality(B) \in Nat
      BY <1>2, FS_RemoveElement, FS_CardinalityType
    <3>7. Cardinality(Before(w)) < n BY <1>1
    <3>. HIDE DEF Before
    <3>. QED BY <3>4, <3>5, <3>6, <3>7
  <2>. QED BY <2>1, <2>2
<1>. QED BY <1>1, <1>2, <1>3 DEF B

LEMMA PolicyBounded ==
    ASSUME NEW S \in SUBSET (SUBSET Tracks), NEW sel
    PROVE  LET able == Candidates!SelectionPolicy(S, sel)
           IN  /\ able \subseteq S \intersect Eligible
               /\ sel \in S \intersect Eligible => sel \in able
               /\ IsFiniteSet(able) /\ Cardinality(able) <= MaxSelectable
<1>. DEFINE A == S \intersect Eligible
            B == Candidates!Best(A \ {sel}, MaxSelectable - 1)
            C == Candidates!Best(A, MaxSelectable)
<1>1. MaxSelectable \in Nat /\ MaxSelectable - 1 \in Nat BY ReviewGiven
<1>2. B \subseteq A \ {sel} /\ IsFiniteSet(B) /\ Cardinality(B) <= MaxSelectable - 1
  <2>1. A \ {sel} \in SUBSET (SUBSET Tracks) OBVIOUS
  <2>. HIDE DEF A
  <2>. QED BY <1>1, <2>1, BestBounded
<1>3. C \subseteq A /\ IsFiniteSet(C) /\ Cardinality(C) <= MaxSelectable
  <2>1. A \in SUBSET (SUBSET Tracks) OBVIOUS
  <2>. HIDE DEF A
  <2>. QED BY <1>1, <2>1, BestBounded
<1>4. IsFiniteSet(B \union {sel}) /\ Cardinality(B \union {sel}) <= MaxSelectable
  <2>. HIDE DEF B
  <2>1. Cardinality(B) \in Nat BY <1>2, FS_CardinalityType
  <2>2. /\ IsFiniteSet(B \union {sel})
        /\ Cardinality(B \union {sel}) = IF sel \in B THEN Cardinality(B) ELSE Cardinality(B) + 1
    BY <1>2, FS_AddElement
  <2>. QED BY <1>1, <1>2, <2>1, <2>2
<1>5. Candidates!SelectionPolicy(S, sel) = IF sel \in A THEN {sel} \union B ELSE C
  BY DEF Candidates!SelectionPolicy
<1>6. {sel} \union B = B \union {sel} OBVIOUS
<1>. HIDE DEF A, B, C
<1>7. CASE sel \in A BY <1>2, <1>4, <1>5, <1>6, <1>7 DEF A
<1>8. CASE sel \notin A BY <1>3, <1>5, <1>8 DEF A
<1>. QED BY <1>7, <1>8

-----------------------------------------------------------------------------
\* The inductive invariant of the review.

\* build_player_candidates from any previous collection and any saved merges.
LEMMA BuildKeeps ==
    ASSUME NEW prev, NEW sel, NEW decs, Nested(decs), Len(decs) <= MaxDecisions,
           Candidates!Build(prev, sel, decs)
    PROVE  /\ ReviewInv' /\ decisions' = decs
           /\ active' \union Candidates!ExcludedTracks' = Top(decs, Len(decs))
           /\ selected' \in {sel, {}}
           /\ sel \in Top(decs, Len(decs)) \intersect Eligible => selected' = sel
           /\ \A x \in prev : x.rejected /\ x.eligible /\ x.tracks \in Groups /\ x.tracks # {} /\ x.tracks # sel
                 => x.tracks \notin active'
<1>. DEFINE first == Candidates!PreserveRejections(prev)
            pool == Candidates!ApplyDecisions(first, decs)
            cands == Top(decs, Len(decs))
            kept == IF sel \in cands THEN sel ELSE {}
            able == Candidates!SelectionPolicy(cands, kept)
            chosen == IF kept \in able THEN kept ELSE {}
            list == {c \in able : c \notin pool.rejected \/ c = chosen}
            Ex(c) == [tracks |-> c, eligible |-> c \in Eligible \ (cands \ able), rejected |-> c \in pool.rejected]
<1>1. Len(decs) \in Nat BY NestedFacts
<1>2. /\ cands \subseteq SUBSET Tracks /\ {} \notin cands
      /\ \A c, d \in cands : c = d \/ c \intersect d = {}
  <2>1. Len(decs) \in 0 .. Len(decs) BY <1>1
  <2>. QED BY <2>1, TopPartitions
<1>3. /\ pool.cands = cands
      /\ \A x \in prev : x.rejected /\ x.eligible /\ x.tracks \in Groups \intersect cands
            => x.tracks \in pool.rejected
  <2>. DEFINE rej == Groups \intersect {x.tracks : x \in {y \in prev : y.eligible /\ y.rejected}}
  <2>1. first = [cands |-> Groups, rejected |-> rej] BY DEF Candidates!PreserveRejections
  <2>2. /\ pool.cands = cands
        /\ \A g \in Groups \intersect rej \intersect pool.cands : g \in pool.rejected
    <3>. HIDE DEF rej
    <3>. QED BY <2>1, AppliedTop
  <2>. HIDE DEF pool, cands, first
  <2>. QED BY <2>2
<1>4. /\ able \subseteq cands \intersect Eligible
      /\ kept \in cands \intersect Eligible => kept \in able
      /\ IsFiniteSet(able) /\ Cardinality(able) <= MaxSelectable
  <2>1. cands \in SUBSET (SUBSET Tracks) BY <1>2
  <2>. HIDE DEF cands, kept
  <2>. QED BY <2>1, PolicyBounded
<1>5. /\ active' = list /\ excluded' = {Ex(c) : c \in cands \ list}
      /\ selected' = chosen /\ tracking' = chosen /\ decisions' = decs
  <2>. HIDE DEF cands
  <2>. QED BY <1>3 DEF Candidates!Build, Candidates!Ranked, Candidates!NoGroup
<1>. HIDE DEF pool, cands, able, first
<1>6. list \subseteq able /\ list \subseteq cands BY <1>4
<1>7. chosen # {} => chosen \in list /\ chosen = sel BY <1>2, <1>4
<1>8. \A x \in excluded' : \E c \in cands \ list : x = Ex(c) BY <1>5
<1>. HIDE DEF list, chosen, kept
<1>9. Candidates!ExcludedTracks' = cands \ list
  <2>1. Candidates!ExcludedTracks' \subseteq cands \ list BY <1>8 DEF Candidates!ExcludedTracks
  <2>2. ASSUME NEW c \in cands \ list PROVE c \in Candidates!ExcludedTracks'
    <3>1. Ex(c) \in excluded' /\ Ex(c).tracks = c BY <1>5
    <3>. HIDE DEF Ex
    <3>. QED BY <3>1 DEF Candidates!ExcludedTracks
  <2>. QED BY <2>1, <2>2
<1>10. active' \union Candidates!ExcludedTracks' = cands BY <1>5, <1>6, <1>9
<1>11. active' \union Restorable' \subseteq able
  <2>0. \A c \in cands \ list : Ex(c).eligible => Ex(c).tracks \in able OBVIOUS
  <2>1. \A x \in excluded' : x.eligible => x.tracks \in able
    <3>. HIDE DEF Ex
    <3>. QED BY <1>8, <2>0
  <2>. QED BY <1>5, <1>6, <2>1 DEF Restorable
<1>12. Cardinality(active' \union Restorable') <= MaxSelectable
  <2>1. active' \union Restorable' \in SUBSET able BY <1>11
  <2>2. Cardinality(active' \union Restorable') <= Cardinality(able) /\ IsFiniteSet(active' \union Restorable')
    BY <1>4, <2>1, FS_Subset
  <2>3. Cardinality(active' \union Restorable') \in Nat /\ Cardinality(able) \in Nat
    BY <1>4, <2>2, FS_CardinalityType
  <2>. QED BY <1>4, <2>2, <2>3, ReviewGiven
<1>13. Candidates!TypeOK'
  <2>1. active' \subseteq Candidates!Candidate
    BY <1>2, <1>5, <1>6 DEF Candidates!Candidate, Candidates!NoGroup
  <2>2. excluded' \subseteq Candidates!Excluded
    <3>1. ASSUME NEW c \in cands \ list PROVE Ex(c) \in Candidates!Excluded
      <4>0. c \in cands OBVIOUS
      <4>1. c \in SUBSET Tracks /\ c # {}
        <5>1. c \in SUBSET Tracks BY <1>2, <4>0
        <5>. SUFFICES ASSUME c = {} PROVE FALSE BY <5>1
        <5>2. {} \in cands BY <4>0
        <5>. QED BY <1>2, <5>2
      <4>2. c \in Candidates!Candidate BY <4>1 DEF Candidates!Candidate, Candidates!NoGroup
      <4>. QED BY <4>2 DEF Candidates!Excluded
    <3>. HIDE DEF Ex
    <3>. QED BY <1>8, <3>1
  <2>3. selected' \subseteq Tracks /\ tracking' \subseteq Tracks BY <1>2, <1>5, <1>6, <1>7
  <2>. QED BY <1>5, <2>1, <2>2, <2>3 DEF Candidates!TypeOK, Nested
<1>14. \A x, y \in excluded' : x.tracks = y.tracks => x = y BY <1>8
<1>15. ReviewInv'
  <2>1. active' \intersect Candidates!ExcludedTracks' = {} BY <1>5, <1>9
  <2>2. active' \union Restorable' \subseteq Eligible BY <1>4, <1>11
  <2>3. (selected' # {} => selected' \in active') /\ tracking' = selected' BY <1>5, <1>7
  <2>4. Top(decisions, Len(decisions))' = Top(decs, Len(decs)) /\ Nested(decisions)'
    BY <1>5 DEF Top, Merged, Nested
  <2>. QED BY <1>10, <1>12, <1>13, <1>14, <2>1, <2>2, <2>3, <2>4 DEF ReviewInv, cands
<1>16. selected' \in {sel, {}} BY <1>5, <1>7
<1>17. sel \in cands \intersect Eligible => selected' = sel BY <1>4, <1>5 DEF chosen, kept
<1>18. ASSUME NEW x \in prev, x.rejected, x.eligible, x.tracks \in Groups, x.tracks # {}, x.tracks # sel
       PROVE  x.tracks \notin active'
  <2>. SUFFICES ASSUME x.tracks \in list PROVE FALSE BY <1>5
  <2>1. x.tracks \in pool.rejected BY <1>3, <1>6, <1>18
  <2>2. x.tracks = chosen BY <2>1 DEF list
  <2>. QED BY <1>7, <1>18, <2>2
<1>. QED BY <1>5, <1>10, <1>15, <1>16, <1>17, <1>18 DEF cands

LEMMA ReviewInit == ASSUME Candidates!Init PROVE ReviewInv
<1>. DEFINE Ex(c) == [tracks |-> c, eligible |-> FALSE, rejected |-> FALSE]
<1>1. decisions = <<>> /\ Len(decisions) = 0 BY DEF Candidates!Init
<1>2. Nested(decisions)
  <2>1. decisions \in Seq(Candidates!Decision) BY <1>1
  <2>. QED BY <1>1, <2>1 DEF Nested
<1>3. Top(decisions, Len(decisions)) = Groups BY <1>1 DEF Top, Merged
<1>4. /\ active \subseteq Groups \intersect Eligible
      /\ IsFiniteSet(active) /\ Cardinality(active) <= MaxSelectable
  <2>1. Groups \in SUBSET (SUBSET Tracks) BY ReviewGiven
  <2>. QED BY <2>1, PolicyBounded DEF Candidates!Init, Candidates!NoGroup
<1>5. excluded = {Ex(c) : c \in Groups \ active} BY DEF Candidates!Init
<1>6. \A x \in excluded : \E c \in Groups \ active : x = Ex(c) BY <1>5
<1>7. Candidates!ExcludedTracks = Groups \ active
  <2>1. ASSUME NEW c \in Groups \ active PROVE c \in Candidates!ExcludedTracks
    <3>1. Ex(c) \in excluded /\ Ex(c).tracks = c BY <1>5
    <3>. HIDE DEF Ex
    <3>. QED BY <3>1 DEF Candidates!ExcludedTracks
  <2>. QED BY <1>6, <2>1 DEF Candidates!ExcludedTracks
<1>8. Restorable = {} BY <1>6 DEF Restorable
<1>9. \A c \in Groups : c \in Candidates!Candidate
  <2>1. {} \notin Groups /\ Groups \subseteq SUBSET Tracks BY ReviewGiven
  <2>. QED BY <2>1 DEF Candidates!Candidate, Candidates!NoGroup
<1>10. excluded \subseteq Candidates!Excluded
  <2>1. \A c \in Groups : Ex(c) \in Candidates!Excluded BY <1>9 DEF Candidates!Excluded
  <2>. HIDE DEF Ex
  <2>. QED BY <1>6, <2>1
<1>11. Candidates!TypeOK
  <2>1. active \subseteq Candidates!Candidate BY <1>4, <1>9
  <2>2. selected = {} /\ tracking = {} BY DEF Candidates!Init, Candidates!NoGroup
  <2>. QED BY <1>1, <1>2, <1>10, <2>1, <2>2, ReviewGiven DEF Candidates!TypeOK, Nested
<1>12. \A x, y \in excluded : x.tracks = y.tracks => x = y
  <2>1. \A x \in excluded : x = Ex(x.tracks) BY <1>6
  <2>. HIDE DEF Ex
  <2>. QED BY <2>1
<1>13. active \union Restorable = active BY <1>8
<1>14. selected = {} /\ tracking = {} BY DEF Candidates!Init, Candidates!NoGroup
<1>. QED BY <1>2, <1>3, <1>4, <1>7, <1>11, <1>12, <1>13, <1>14 DEF ReviewInv

\* What every operation needs of the invariant.
LEMMA ReviewFacts ==
    ASSUME ReviewInv
    PROVE  /\ active \subseteq SUBSET Tracks /\ {} \notin active
           /\ excluded \subseteq Candidates!Excluded
           /\ \A x \in excluded : x.tracks \in Candidates!ExcludedTracks
           /\ Candidates!ExcludedTracks \subseteq SUBSET Tracks /\ {} \notin Candidates!ExcludedTracks
           /\ Restorable \subseteq Candidates!ExcludedTracks
           /\ Len(decisions) \in Nat
           /\ \A c, d \in active \union Candidates!ExcludedTracks : c = d \/ c \intersect d = {}
           /\ \A t \in Tracks : \E c \in active \union Candidates!ExcludedTracks : t \in c
           /\ IsFiniteSet(active \union Restorable)
<1>1. Nested(decisions) /\ active \union Candidates!ExcludedTracks = Top(decisions, Len(decisions))
  BY DEF ReviewInv
<1>2. Len(decisions) \in 0 .. Len(decisions) /\ Len(decisions) \in Nat BY <1>1, NestedFacts
<1>3. /\ Top(decisions, Len(decisions)) \subseteq SUBSET Tracks
      /\ {} \notin Top(decisions, Len(decisions))
      /\ \A c, d \in Top(decisions, Len(decisions)) : c = d \/ c \intersect d = {}
      /\ \A t \in Tracks : \E c \in Top(decisions, Len(decisions)) : t \in c
  BY <1>1, <1>2, TopPartitions
<1>4. Restorable \subseteq Candidates!ExcludedTracks BY DEF Restorable, Candidates!ExcludedTracks
<1>5. IsFiniteSet(active \union Restorable)
  <2>1. IsFiniteSet(SUBSET Tracks) BY ReviewGiven, FS_SUBSET
  <2>2. active \union Restorable \in SUBSET (SUBSET Tracks) BY <1>1, <1>3, <1>4
  <2>. QED BY <2>1, <2>2, FS_Subset
<1>6. \A x \in excluded : x.tracks \in Candidates!ExcludedTracks BY DEF Candidates!ExcludedTracks
<1>7. excluded \subseteq Candidates!Excluded BY DEF ReviewInv, Candidates!TypeOK
<1>. QED BY <1>1, <1>2, <1>3, <1>4, <1>5, <1>6, <1>7

LEMMA SelectKeeps ==
    ASSUME ReviewInv, NEW c \in active, Candidates!Select(c)
    PROVE  ReviewInv'
<1>1. /\ active' = active /\ excluded' = excluded /\ decisions' = decisions
      /\ selected' = c /\ tracking' = c
  BY DEF Candidates!Select
<1>2. c \subseteq Tracks BY ReviewFacts
<1>3. Candidates!TypeOK' BY <1>1, <1>2 DEF ReviewInv, Candidates!TypeOK
<1>4. /\ Candidates!ExcludedTracks' = Candidates!ExcludedTracks /\ Restorable' = Restorable
      /\ Nested(decisions)' = Nested(decisions)
      /\ Top(decisions, Len(decisions))' = Top(decisions, Len(decisions))
  BY <1>1 DEF Candidates!ExcludedTracks, Restorable, Nested, Top, Merged
<1>. QED BY <1>1, <1>3, <1>4 DEF ReviewInv

LEMMA RejectKeeps ==
    ASSUME ReviewInv, NEW c \in active, Candidates!Reject(c)
    PROVE  ReviewInv'
<1>. DEFINE e == [tracks |-> c, eligible |-> TRUE, rejected |-> TRUE]
<1>1. /\ active' = active \ {c} /\ excluded' = excluded \union {e} /\ decisions' = decisions
      /\ selected' = (IF selected = c THEN {} ELSE selected)
      /\ tracking' = IF selected = c THEN {} ELSE tracking
  BY DEF Candidates!Reject, Candidates!Unselected, Candidates!NoGroup
<1>2. /\ c \in SUBSET Tracks /\ c \in active /\ c \notin Candidates!ExcludedTracks
      /\ c \in Candidates!Candidate
  <2>1. active \subseteq Candidates!Candidate BY DEF ReviewInv, Candidates!TypeOK
  <2>. QED BY <2>1, ReviewFacts DEF ReviewInv
<1>3. e.tracks = c /\ e.eligible = TRUE /\ e \in Candidates!Excluded
  BY <1>2 DEF Candidates!Excluded
<1>. HIDE DEF e
<1>4. Candidates!ExcludedTracks' = Candidates!ExcludedTracks \union {c}
  BY <1>1, <1>3 DEF Candidates!ExcludedTracks
<1>5. Restorable' = Restorable \union {c} BY <1>1, <1>3 DEF Restorable
<1>6. Candidates!TypeOK'
  BY <1>1, <1>2, <1>3 DEF ReviewInv, Candidates!TypeOK
<1>7. active' \union Restorable' = active \union Restorable BY <1>1, <1>2, <1>5
<1>8. active' \union Candidates!ExcludedTracks' = active \union Candidates!ExcludedTracks
  BY <1>1, <1>2, <1>4
<1>9. active' \intersect Candidates!ExcludedTracks' = {}
  BY <1>1, <1>4 DEF ReviewInv
<1>10. \A x, y \in excluded' : x.tracks = y.tracks => x = y
  <2>1. \A x \in excluded : x.tracks # c BY <1>2, ReviewFacts
  <2>. QED BY <1>1, <1>3, <2>1 DEF ReviewInv
<1>11. Nested(decisions)' /\ Top(decisions, Len(decisions))' = Top(decisions, Len(decisions))
  BY <1>1 DEF ReviewInv, Nested, Top, Merged
<1>12. (selected' # {} => selected' \in active') /\ tracking' = selected'
  BY <1>1 DEF ReviewInv
<1>. QED BY <1>6, <1>7, <1>8, <1>9, <1>10, <1>11, <1>12 DEF ReviewInv

LEMMA RestoreKeeps ==
    ASSUME ReviewInv, NEW x \in excluded, Candidates!Restore(x)
    PROVE  ReviewInv'
<1>1. /\ x.eligible /\ active' = active \union {x.tracks} /\ excluded' = excluded \ {x}
      /\ decisions' = decisions /\ selected' = selected /\ tracking' = tracking
  BY DEF Candidates!Restore
<1>2. x.tracks \in Restorable /\ x.tracks \in Candidates!ExcludedTracks
  BY <1>1, ReviewFacts DEF Restorable
<1>3. \A y \in excluded : y.tracks = x.tracks => y = x BY DEF ReviewInv
<1>4. Candidates!ExcludedTracks' = Candidates!ExcludedTracks \ {x.tracks}
  BY <1>1, <1>3 DEF Candidates!ExcludedTracks
<1>5. Restorable' \subseteq Restorable /\ Restorable \subseteq Restorable' \union {x.tracks}
  BY <1>1 DEF Restorable
<1>6. Candidates!TypeOK'
  <2>1. x.tracks \in Candidates!Candidate BY ReviewFacts DEF Candidates!Excluded
  <2>. QED BY <1>1, <2>1 DEF ReviewInv, Candidates!TypeOK
<1>7. active' \union Restorable' = active \union Restorable BY <1>1, <1>2, <1>5
<1>8. active' \union Candidates!ExcludedTracks' = active \union Candidates!ExcludedTracks
  BY <1>1, <1>2, <1>4
<1>9. active' \intersect Candidates!ExcludedTracks' = {} BY <1>1, <1>4 DEF ReviewInv
<1>10. \A y, z \in excluded' : y.tracks = z.tracks => y = z BY <1>1 DEF ReviewInv
<1>11. Nested(decisions)' /\ Top(decisions, Len(decisions))' = Top(decisions, Len(decisions))
  BY <1>1 DEF ReviewInv, Nested, Top, Merged
<1>12. (selected' # {} => selected' \in active') /\ tracking' = selected'
  BY <1>1 DEF ReviewInv
<1>. QED BY <1>6, <1>7, <1>8, <1>9, <1>10, <1>11, <1>12 DEF ReviewInv

\* A merge of two candidates joins whole groups, and the merges that are not
\* undone lie inside it or apart from it.
LEMMA MergeNests ==
    ASSUME NEW decs, Nested(decs), NEW a \in Top(decs, Len(decs)), NEW b \in Top(decs, Len(decs)), a # b
    PROVE  LET longer == Append(decs, [tracks |-> a \union b, active |-> TRUE])
           IN  /\ Nested(longer) /\ Len(longer) = Len(decs) + 1
               /\ Top(longer, Len(longer)) = (Top(decs, Len(decs)) \ {a, b}) \union {a \union b}
<1>. DEFINE d == a \union b
            longer == Append(decs, [tracks |-> d, active |-> TRUE])
            n == Len(decs) + 1
            T == Top(decs, Len(decs))
<1>0. decs \in Seq(Candidates!Decision) BY DEF Nested
<1>1. /\ Len(decs) \in Nat
      /\ \A i \in 1 .. Len(decs) :
            /\ decs[i].tracks \notin Groups
            /\ \A g \in Groups : g \subseteq decs[i].tracks \/ g \intersect decs[i].tracks = {}
  BY NestedFacts
<1>2. /\ T \subseteq SUBSET Tracks /\ {} \notin T
      /\ \A x, y \in T : x = y \/ x \intersect y = {}
  <2>1. Len(decs) \in 0 .. Len(decs) BY <1>1
  <2>. QED BY <2>1, TopPartitions
<1>3. a \in T /\ b \in T /\ a # {} /\ b # {} /\ a \intersect b = {} /\ d \in SUBSET Tracks
  BY <1>2
<1>4. [tracks |-> d, active |-> TRUE] \in Candidates!Decision
  <2>1. d # {} BY <1>3
  <2>2. d \in Candidates!Candidate BY <1>3, <2>1 DEF Candidates!Candidate, Candidates!NoGroup
  <2>. QED BY <2>2 DEF Candidates!Decision
<1>5. /\ longer \in Seq(Candidates!Decision) /\ Len(longer) = n
      /\ \A i \in 1 .. Len(decs) : longer[i] = decs[i]
      /\ longer[n].tracks = d /\ longer[n].active = TRUE
  BY <1>0, <1>1, <1>4, AppendProperties
<1>. HIDE DEF longer
<1>6. \A g \in Groups, c \in T : g \subseteq c \/ g \intersect c = {}
  BY <1>1, ReviewGiven DEF Top, Merged
<1>7. \A g \in Groups : g \subseteq d \/ g \intersect d = {}
  <2>1. ASSUME NEW g \in Groups PROVE g \subseteq d \/ g \intersect d = {}
    <3>1. g \subseteq a \/ g \intersect a = {} BY <1>3, <1>6
    <3>2. g \subseteq b \/ g \intersect b = {} BY <1>3, <1>6
    <3>. QED BY <3>1, <3>2
  <2>. QED BY <2>1
<1>8. d \notin Groups
  <2>. SUFFICES ASSUME d \in Groups PROVE FALSE OBVIOUS
  <2>1. d \subseteq a \/ d \intersect a = {} BY <1>3, <1>6
  <2>. QED BY <1>3, <2>1
<1>9. ASSUME NEW m \in Merged(decs, Len(decs)) PROVE m \subseteq d \/ m \intersect d = {}
  <2>1. m \subseteq a \/ m \intersect a = {} BY DEF Top
  <2>2. m \subseteq b \/ m \intersect b = {} BY DEF Top
  <2>. QED BY <2>1, <2>2
<1>10. Nested(longer)
  <2>1. 1 .. Len(longer) = (1 .. Len(decs)) \union {n} BY <1>1, <1>5
  <2>. HIDE DEF d, n
  <2>2. ASSUME NEW i \in 1 .. Len(longer)
        PROVE  /\ longer[i].tracks \notin Groups
               /\ \A g \in Groups : g \subseteq longer[i].tracks \/ g \intersect longer[i].tracks = {}
    BY <1>1, <1>5, <1>7, <1>8, <2>1
  <2>3. ASSUME NEW i \in 1 .. Len(longer), NEW j \in 1 .. Len(longer), i < j,
               longer[i].active, longer[j].active
        PROVE  \/ longer[i].tracks \subseteq longer[j].tracks
               \/ longer[i].tracks \intersect longer[j].tracks = {}
    <3>0. i \in 1 .. Len(decs) BY <1>1, <1>5, <2>3 DEF n
    <3>1. CASE j \in 1 .. Len(decs)
      <4>1. decs[i].active /\ decs[j].active BY <1>5, <2>3, <3>0, <3>1
      <4>2. \/ decs[i].tracks \subseteq decs[j].tracks
            \/ decs[i].tracks \intersect decs[j].tracks = {}
        BY <2>3, <3>0, <3>1, <4>1 DEF Nested
      <4>. QED BY <1>5, <3>0, <3>1, <4>2
    <3>2. CASE j = n
      <4>1. decs[i].tracks \in Merged(decs, Len(decs)) BY <1>5, <2>3, <3>0 DEF Merged
      <4>. QED BY <1>5, <1>9, <3>0, <3>2, <4>1
    <3>. QED BY <2>1, <3>1, <3>2
  <2>. QED BY <1>5, <2>2, <2>3 DEF Nested
<1>11. Top(longer, n - 1) = T
  <2>1. n - 1 = Len(decs) BY <1>1
  <2>2. Merged(longer, Len(decs)) = Merged(decs, Len(decs)) BY <1>5 DEF Merged
  <2>. QED BY <2>1, <2>2 DEF Top
<1>12. {c \in T : c \subseteq d} = {a, b}
  <2>1. ASSUME NEW c \in T, c \subseteq d PROVE c \in {a, b}
    <3>0. c # {} BY <1>2
    <3>1. c = a \/ c \intersect a = {} BY <1>2, <1>3
    <3>2. c = b \/ c \intersect b = {} BY <1>2, <1>3
    <3>. QED BY <2>1, <3>0, <3>1, <3>2
  <2>. QED BY <1>3, <2>1
<1>13. Top(longer, n) = (T \ {a, b}) \union {d}
  <2>1. n \in 1 .. Len(longer) BY <1>1, <1>5
  <2>. HIDE DEF n, d, T
  <2>2. LET inside == {c \in Top(longer, n - 1) : c \subseteq longer[n].tracks}
        IN  UNION inside = longer[n].tracks /\ Top(longer, n) = (Top(longer, n - 1) \ inside) \union {longer[n].tracks}
    BY <1>5, <1>10, <2>1, TopGrows
  <2>. QED BY <1>5, <1>11, <1>12, <2>2
<1>. QED BY <1>5, <1>10, <1>13 DEF longer

LEMMA MergeKeeps ==
    ASSUME ReviewInv, NEW a \in active, NEW b \in active, Candidates!Merge(a, b)
    PROVE  ReviewInv'
<1>. DEFINE d == a \union b
<1>1. /\ a # b /\ Len(decisions) < MaxDecisions /\ d \in Eligible
      /\ active' = (active \ {a, b}) \union {d} /\ excluded' = excluded
      /\ decisions' = Append(decisions, [tracks |-> d, active |-> TRUE])
      /\ selected' = (IF selected \in {a, b} THEN d ELSE selected)
      /\ tracking' = IF selected \in {a, b} THEN d ELSE tracking
  BY DEF Candidates!Merge
<1>2. /\ Nested(decisions') /\ Len(decisions') = Len(decisions) + 1
      /\ Top(decisions', Len(decisions')) = (Top(decisions, Len(decisions)) \ {a, b}) \union {d}
  <2>1. /\ Nested(decisions) /\ a \in Top(decisions, Len(decisions))
        /\ b \in Top(decisions, Len(decisions))
    BY DEF ReviewInv
  <2>. DEFINE l == Append(decisions, [tracks |-> d, active |-> TRUE])
  <2>2. /\ Nested(l) /\ Len(l) = Len(decisions) + 1
        /\ Top(l, Len(l)) = (Top(decisions, Len(decisions)) \ {a, b}) \union {d}
    BY <1>1, <2>1, MergeNests
  <2>3. decisions' = l BY <1>1
  <2>. HIDE DEF l, d
  <2>. QED BY <2>2, <2>3
<1>3. /\ a \in SUBSET Tracks /\ b \in SUBSET Tracks /\ a # {} /\ b # {} /\ a \intersect b = {}
      /\ \A c \in Candidates!ExcludedTracks : c # {} /\ c \intersect a = {} /\ c \in SUBSET Tracks
      /\ a \notin Candidates!ExcludedTracks /\ b \notin Candidates!ExcludedTracks
  <2>1. \A c \in Candidates!ExcludedTracks : c # {} /\ c # a /\ c # b /\ c \in SUBSET Tracks
    BY ReviewFacts DEF ReviewInv
  <2>2. \A c \in Candidates!ExcludedTracks : c \intersect a = {} BY <2>1, ReviewFacts
  <2>3. a # {} /\ b # {} /\ a \in SUBSET Tracks /\ b \in SUBSET Tracks /\ a \intersect b = {}
    BY <1>1, ReviewFacts
  <2>. QED BY <2>1, <2>2, <2>3
<1>4. d \notin Candidates!ExcludedTracks BY <1>3
<1>5. Candidates!ExcludedTracks' = Candidates!ExcludedTracks /\ Restorable' = Restorable
  BY <1>1 DEF Candidates!ExcludedTracks, Restorable
<1>6. active' \union Candidates!ExcludedTracks' = Top(decisions', Len(decisions'))
  <2>1. Candidates!ExcludedTracks \ {a, b} = Candidates!ExcludedTracks BY <1>3
  <2>2. (active \union Candidates!ExcludedTracks) \ {a, b} = (active \ {a, b}) \union Candidates!ExcludedTracks
    BY <2>1
  <2>3. active \union Candidates!ExcludedTracks = Top(decisions, Len(decisions)) BY DEF ReviewInv
  <2>. HIDE DEF d
  <2>. QED BY <1>1, <1>2, <1>5, <2>2, <2>3
<1>7. Candidates!TypeOK'
  <2>1. d \in Candidates!Candidate
    <3>1. d # {} /\ d \in SUBSET Tracks BY <1>3
    <3>. HIDE DEF d
    <3>. QED BY <3>1 DEF Candidates!Candidate, Candidates!NoGroup
  <2>2. active' \subseteq Candidates!Candidate BY <1>1, <2>1 DEF ReviewInv, Candidates!TypeOK
  <2>3. selected' \subseteq Tracks /\ tracking' \subseteq Tracks
    BY <1>1, <1>3 DEF ReviewInv, Candidates!TypeOK
  <2>4. decisions' \in Seq(Candidates!Decision) BY <1>2 DEF Nested
  <2>5. Len(decisions') <= MaxDecisions BY <1>1, <1>2, ReviewFacts, ReviewGiven
  <2>. QED BY <1>1, <2>2, <2>3, <2>4, <2>5 DEF ReviewInv, Candidates!TypeOK
<1>8. active' \intersect Candidates!ExcludedTracks' = {}
  BY <1>1, <1>4, <1>5 DEF ReviewInv
<1>9. active' \union Restorable' \subseteq Eligible
  BY <1>1, <1>5 DEF ReviewInv
<1>10. Cardinality(active' \union Restorable') <= MaxSelectable
  <2>. DEFINE S == active \union Restorable
              R == (S \ {a}) \ {b}
  <2>1. IsFiniteSet(S) /\ Cardinality(S) \in Nat BY ReviewFacts, FS_CardinalityType
  <2>2. a \in S /\ b \in S \ {a} BY <1>1
  <2>. HIDE DEF S
  <2>3. IsFiniteSet(S \ {a}) /\ Cardinality(S \ {a}) = Cardinality(S) - 1
    BY <2>1, <2>2, FS_RemoveElement
  <2>4. IsFiniteSet(R) /\ Cardinality(R) = Cardinality(S) - 2
    <3>1. IsFiniteSet(R) /\ Cardinality(R) = Cardinality(S \ {a}) - 1
      BY <2>2, <2>3, FS_RemoveElement
    <3>. HIDE DEF R
    <3>. QED BY <2>1, <2>3, <3>1
  <2>5. /\ IsFiniteSet(R \union {d})
        /\ Cardinality(R \union {d}) = IF d \in R THEN Cardinality(R) ELSE Cardinality(R) + 1
    <3>. HIDE DEF R, d
    <3>. QED BY <2>4, FS_AddElement
  <2>6. active' \union Restorable' = R \union {d}
    <3>1. Restorable \intersect {a, b} = {} BY <1>3, ReviewFacts
    <3>. HIDE DEF d
    <3>. QED BY <1>1, <1>5, <3>1 DEF S
  <2>7. Cardinality(S) <= MaxSelectable BY DEF S, ReviewInv
  <2>. HIDE DEF R, d
  <2>8. Cardinality(R \union {d}) <= MaxSelectable
    <3>1. Cardinality(R \union {d}) \in {Cardinality(S) - 2, Cardinality(S) - 2 + 1} BY <2>4, <2>5
    <3>2. MaxSelectable \in Nat BY ReviewGiven
    <3>. QED BY <2>1, <2>7, <3>1, <3>2
  <2>. QED BY <2>6, <2>8
<1>11. (selected' # {} => selected' \in active') /\ tracking' = selected'
  BY <1>1 DEF ReviewInv
<1>12. \A x, y \in excluded' : x.tracks = y.tracks => x = y BY <1>1 DEF ReviewInv
<1>. QED BY <1>2, <1>6, <1>7, <1>8, <1>9, <1>10, <1>11, <1>12 DEF ReviewInv

\* Undoing a merge leaves the others as they were.
LEMMA UndoneNests ==
    ASSUME ReviewInv, NEW c
    PROVE  /\ Nested(Candidates!Undone(c)) /\ Len(Candidates!Undone(c)) = Len(decisions)
           /\ Merged(Candidates!Undone(c), Len(decisions)) = Merged(decisions, Len(decisions)) \ {c}
<1>. DEFINE u == Candidates!Undone(c)
<1>1. Nested(decisions) /\ Len(decisions) \in Nat BY ReviewFacts DEF ReviewInv
<1>2. decisions \in Seq(Candidates!Decision) /\ DOMAIN decisions = 1 .. Len(decisions)
  BY <1>1, LenProperties DEF Nested
<1>3. \A i \in 1 .. Len(decisions) :
         decisions[i] \in Candidates!Decision /\ decisions[i].active \in BOOLEAN
  <2>1. \A i \in 1 .. Len(decisions) : decisions[i] \in Candidates!Decision BY <1>2, ElementOfSeq
  <2>2. \A x \in Candidates!Decision : x.active \in BOOLEAN BY DEF Candidates!Decision
  <2>. QED BY <2>1, <2>2
<1>4. ASSUME NEW i \in 1 .. Len(decisions)
      PROVE  /\ u[i] \in Candidates!Decision /\ u[i].tracks = decisions[i].tracks
             /\ (u[i].active <=> decisions[i].active /\ decisions[i].tracks # c)
  <2>. DEFINE e == [decisions[i] EXCEPT !.active = FALSE]
  <2>1. u[i] = IF decisions[i].tracks = c THEN e ELSE decisions[i]
    BY <1>2 DEF Candidates!Undone
  <2>2. decisions[i] \in [tracks : Candidates!Candidate, active : BOOLEAN]
    BY <1>3 DEF Candidates!Decision
  <2>3. e.tracks = decisions[i].tracks /\ ~e.active BY <2>2
  <2>4. e \in Candidates!Decision BY <2>2 DEF Candidates!Decision
  <2>. HIDE DEF e
  <2>5. CASE decisions[i].tracks = c
    BY <2>1, <2>3, <2>4, <2>5
  <2>6. CASE decisions[i].tracks # c BY <1>3, <2>1, <2>6
  <2>. QED BY <2>5, <2>6
<1>5. u = [i \in 1 .. Len(decisions) |-> u[i]]
  BY <1>2 DEF Candidates!Undone
<1>. HIDE DEF u
<1>6. u \in Seq(Candidates!Decision) /\ Len(u) = Len(decisions)
  <2>1. u \in [1 .. Len(decisions) -> Candidates!Decision] BY <1>4, <1>5
  <2>. QED BY <1>1, <2>1, SeqDef, LenProperties
<1>7. Nested(u)
  <2>1. \A i \in 1 .. Len(u) :
          /\ u[i].tracks \notin Groups
          /\ \A g \in Groups : g \subseteq u[i].tracks \/ g \intersect u[i].tracks = {}
    BY <1>1, <1>4, <1>6 DEF Nested
  <2>2. \A i, j \in 1 .. Len(u) :
          i < j /\ u[i].active /\ u[j].active =>
              \/ u[i].tracks \subseteq u[j].tracks
              \/ u[i].tracks \intersect u[j].tracks = {}
    BY <1>1, <1>4, <1>6 DEF Nested
  <2>. QED BY <1>6, <2>1, <2>2 DEF Nested
<1>8. Merged(u, Len(decisions)) = Merged(decisions, Len(decisions)) \ {c}
  <2>1. \A m \in Merged(u, Len(decisions)) : m \in Merged(decisions, Len(decisions)) /\ m # c
    BY <1>4 DEF Merged
  <2>2. \A m \in Merged(decisions, Len(decisions)) : m # c => m \in Merged(u, Len(decisions))
    BY <1>4 DEF Merged
  <2>. QED BY <2>1, <2>2
<1>. QED BY <1>6, <1>7, <1>8 DEF u

\* Undoing the merge c, and building the candidates again without it.
LEMMA UnmergeKeeps ==
    ASSUME ReviewInv, NEW c, Candidates!Unmerge(c)
    PROVE  /\ ReviewInv'
           /\ c \notin active' \union Candidates!ExcludedTracks'
           /\ selected # {} /\ c # selected => selected' = selected
<1>. DEFINE u == Candidates!Undone(c)
            s == IF selected = c THEN {} ELSE selected
<1>1. PICK i \in DOMAIN decisions : decisions[i].tracks = c /\ decisions[i].active
  BY DEF Candidates!Unmerge
<1>2. /\ Nested(decisions) /\ Len(decisions) <= MaxDecisions
      /\ active \union Candidates!ExcludedTracks = Top(decisions, Len(decisions))
      /\ active \subseteq Eligible /\ (selected # {} => selected \in active)
  BY DEF ReviewInv, Candidates!TypeOK
<1>3. /\ Nested(u) /\ Len(u) = Len(decisions)
      /\ Merged(u, Len(u)) = Merged(decisions, Len(decisions)) \ {c}
  BY UndoneNests
<1>4. Candidates!Build(excluded, s, u)
  BY DEF Candidates!Unmerge, Candidates!Unselected, Candidates!NoGroup
<1>. HIDE DEF u, s
<1>5. /\ ReviewInv' /\ active' \union Candidates!ExcludedTracks' = Top(u, Len(u))
      /\ s \in Top(u, Len(u)) \intersect Eligible => selected' = s
  <2>1. Len(u) <= MaxDecisions BY <1>2, <1>3
  <2>. QED BY <1>3, <1>4, <2>1, BuildKeeps
<1>6. c \notin Groups
  <2>1. i \in 1 .. Len(decisions) BY <1>2, LenProperties DEF Nested
  <2>. QED BY <1>1, <1>2, <2>1, NestedFacts
<1>7. c \notin active' \union Candidates!ExcludedTracks' BY <1>3, <1>5, <1>6 DEF Top
<1>8. ASSUME selected # {}, c # selected PROVE selected' = selected
  <2>1. selected \in Top(decisions, Len(decisions)) /\ selected \in Eligible BY <1>2, <1>8
  <2>2. selected \in Top(u, Len(u)) BY <1>3, <1>8, <2>1 DEF Top
  <2>3. s = selected BY <1>8 DEF s
  <2>. QED BY <1>5, <2>1, <2>2, <2>3
<1>. QED BY <1>5, <1>7, <1>8

LEMMA GenerateKeeps ==
    ASSUME ReviewInv, Candidates!Generate
    PROVE  /\ ReviewInv'
           /\ selected # {} => selected' = selected
           /\ \A x \in excluded : x.rejected /\ x.eligible /\ x.tracks \in Groups => x.tracks \notin active'
<1>1. /\ Nested(decisions) /\ Len(decisions) <= MaxDecisions
      /\ active \union Candidates!ExcludedTracks = Top(decisions, Len(decisions))
      /\ active \subseteq Eligible /\ (selected # {} => selected \in active)
      /\ active \intersect Candidates!ExcludedTracks = {}
  BY DEF ReviewInv, Candidates!TypeOK
<1>2. Candidates!Build(excluded, selected, decisions) BY DEF Candidates!Generate
<1>3. /\ ReviewInv'
      /\ selected \in Top(decisions, Len(decisions)) \intersect Eligible => selected' = selected
      /\ \A x \in excluded : /\ x.rejected /\ x.eligible /\ x.tracks \in Groups
                             /\ x.tracks # {} /\ x.tracks # selected
            => x.tracks \notin active'
  BY <1>1, <1>2, BuildKeeps
<1>4. selected # {} => selected' = selected BY <1>1, <1>3
<1>5. \A x \in excluded : x.tracks # {} /\ x.tracks # selected
  <2>1. \A x \in excluded : x.tracks \in Candidates!ExcludedTracks BY ReviewFacts
  <2>2. {} \notin Candidates!ExcludedTracks BY ReviewFacts
  <2>. QED BY <1>1, <2>1, <2>2
<1>. QED BY <1>3, <1>4, <1>5

LEMMA ReviewStep ==
    ASSUME ReviewInv, [Candidates!Next]_candidateVars
    PROVE  ReviewInv'
<1>1. CASE Candidates!Generate BY <1>1, GenerateKeeps
<1>2. ASSUME NEW c \in active, Candidates!Select(c) PROVE ReviewInv' BY <1>2, SelectKeeps
<1>3. ASSUME NEW c \in active, Candidates!Reject(c) PROVE ReviewInv' BY <1>3, RejectKeeps
<1>4. ASSUME NEW t \in Tracks, Candidates!SelectTrack(t) PROVE ReviewInv'
  BY <1>4, SelectKeeps DEF Candidates!SelectTrack
<1>5. ASSUME NEW x \in excluded, Candidates!Restore(x) PROVE ReviewInv' BY <1>5, RestoreKeeps
<1>6. ASSUME NEW a \in active, NEW b \in active, Candidates!Merge(a, b) PROVE ReviewInv'
  BY <1>6, MergeKeeps
<1>7. ASSUME NEW c, Candidates!Unmerge(c) PROVE ReviewInv' BY <1>7, UnmergeKeeps
<1>8. CASE UNCHANGED candidateVars
  BY <1>8 DEF candidateVars, ReviewInv, Candidates!TypeOK, Candidates!ExcludedTracks, Restorable,
      Nested, Top, Merged
<1>. QED BY <1>1, <1>2, <1>3, <1>4, <1>5, <1>6, <1>7, <1>8 DEF Candidates!Next

\* Which operation a step was is what it leaves in last.
LEMMA WhatWasDone ==
    ASSUME Candidates!Next
    PROVE  /\ last'.op = "generate" => Candidates!Generate
           /\ last'.op = "unmerge" => Candidates!Unmerge(last'.candidate)
           /\ last'.op = "reject" => \E c \in active : last'.candidate = c /\ Candidates!Reject(c)
           /\ last'.op = "restore" => selected' = selected
<1>. USE DEF Candidates!Did
<1>1. CASE Candidates!Generate
  <2>1. last' = [op |-> "generate", candidate |-> Candidates!NoGroup] BY <1>1 DEF Candidates!Generate
  <2>. QED BY <1>1, <2>1
<1>2. ASSUME NEW c \in active, Candidates!Select(c) PROVE last' = [op |-> "select", candidate |-> c]
  BY <1>2 DEF Candidates!Select
<1>3. ASSUME NEW c \in active, Candidates!Reject(c) PROVE last' = [op |-> "reject", candidate |-> c]
  BY <1>3 DEF Candidates!Reject
<1>4. ASSUME NEW t \in Tracks, Candidates!SelectTrack(t)
      PROVE  \E c : last' = [op |-> "select", candidate |-> c]
  BY <1>2, <1>4 DEF Candidates!SelectTrack
<1>5. ASSUME NEW x \in excluded, Candidates!Restore(x)
      PROVE  last' = [op |-> "restore", candidate |-> x.tracks] /\ selected' = selected
  BY <1>5 DEF Candidates!Restore
<1>6. ASSUME NEW a \in active, NEW b \in active, Candidates!Merge(a, b)
      PROVE  last' = [op |-> "merge", candidate |-> a \union b]
  BY <1>6 DEF Candidates!Merge
<1>7. ASSUME NEW c, Candidates!Unmerge(c) PROVE last' = [op |-> "unmerge", candidate |-> c]
  BY <1>7 DEF Candidates!Unmerge
<1>. QED BY <1>1, <1>2, <1>3, <1>4, <1>5, <1>6, <1>7 DEF Candidates!Next

-----------------------------------------------------------------------------
\* The excluded records are as many as their candidates.
LEMMA ExcludedCounted ==
    ASSUME ReviewInv
    PROVE  /\ IsFiniteSet(Candidates!ExcludedTracks)
           /\ Cardinality(excluded) = Cardinality(Candidates!ExcludedTracks)
<1>. DEFINE f == [x \in excluded |-> x.tracks]
<1>1. IsFiniteSet(Candidates!ExcludedTracks)
  <2>1. IsFiniteSet(SUBSET Tracks) BY ReviewGiven, FS_SUBSET
  <2>2. Candidates!ExcludedTracks \in SUBSET (SUBSET Tracks) BY ReviewFacts
  <2>. QED BY <2>1, <2>2, FS_Subset
<1>2. f \in [excluded -> Candidates!ExcludedTracks] BY ReviewFacts
<1>3. f \in Injection(excluded, Candidates!ExcludedTracks)
  BY <1>2 DEF Injection, IsInjective, ReviewInv
<1>4. f \in Surjection(excluded, Candidates!ExcludedTracks)
  BY <1>2 DEF Surjection, Candidates!ExcludedTracks
<1>. QED BY <1>1, <1>3, <1>4, FS_Injection

LEMMA ReviewConsistent ==
    ASSUME ReviewInv
    PROVE  /\ Candidates!TypeOK /\ Candidates!TracksPartitioned /\ Candidates!SelectionAgrees
           /\ Candidates!AtMostSelectable /\ Candidates!SamePlayerTogether
<1>1. Candidates!TypeOK BY DEF ReviewInv
<1>2. IsFiniteSet(active) /\ Cardinality(active) \in Nat /\ Cardinality(active) <= MaxSelectable
  <2>1. IsFiniteSet(active \union Restorable) BY ReviewFacts
  <2>2. active \in SUBSET (active \union Restorable) OBVIOUS
  <2>3. IsFiniteSet(active) /\ Cardinality(active) <= Cardinality(active \union Restorable)
    BY <2>1, <2>2, FS_Subset
  <2>4. Cardinality(active) \in Nat /\ Cardinality(active \union Restorable) \in Nat
    BY <2>1, <2>3, FS_CardinalityType
  <2>5. Cardinality(active \union Restorable) <= MaxSelectable BY DEF ReviewInv
  <2>. QED BY <2>3, <2>4, <2>5, ReviewGiven
<1>3. Candidates!TracksPartitioned
  <2>. DEFINE E == Candidates!ExcludedTracks
  <2>1. UNION (active \union E) = Tracks
    <3>1. UNION (active \union E) \subseteq Tracks BY ReviewFacts
    <3>2. Tracks \subseteq UNION (active \union E) BY ReviewFacts
    <3>. QED BY <3>1, <3>2
  <2>2. \A c, d \in active \union E : c = d \/ c \intersect d = {} BY ReviewFacts
  <2>3. Cardinality(active) + Cardinality(excluded) = Cardinality(active \union E)
    <3>1. IsFiniteSet(E) /\ Cardinality(excluded) = Cardinality(E) BY ExcludedCounted
    <3>2. active \intersect E = {} BY DEF ReviewInv
    <3>. HIDE DEF E
    <3>3. Cardinality(active \union E) = Cardinality(active) + Cardinality(E) - Cardinality(active \intersect E)
      BY <1>2, <3>1, FS_Union
    <3>4. Cardinality(active \intersect E) = 0 BY <3>2, FS_EmptySet
    <3>5. Cardinality(E) \in Nat BY <3>1, FS_CardinalityType
    <3>. QED BY <1>2, <3>1, <3>3, <3>4, <3>5
  <2>. QED BY <2>1, <2>2, <2>3, ReviewGiven DEF Candidates!TracksPartitioned
<1>4. Candidates!SelectionAgrees
  <2>1. Candidates!Rejected \subseteq Candidates!ExcludedTracks
    BY DEF Candidates!Rejected, Candidates!ExcludedTracks
  <2>. QED BY <2>1 DEF ReviewInv, Candidates!SelectionAgrees, Candidates!NoGroup
<1>5. Candidates!AtMostSelectable BY <1>2, ReviewGiven DEF Candidates!AtMostSelectable
<1>6. Candidates!SamePlayerTogether
  <2>1. /\ Nested(decisions)
        /\ active \union Candidates!ExcludedTracks = Top(decisions, Len(decisions))
    BY DEF ReviewInv
  <2>2. Len(decisions) \in 0 .. Len(decisions) /\ DOMAIN decisions = 1 .. Len(decisions)
    BY <2>1, NestedFacts, LenProperties DEF Nested
  <2>3. \A d \in Merged(decisions, Len(decisions)) :
           \E c \in Top(decisions, Len(decisions)) : d \subseteq c
    BY <2>1, <2>2, TopPartitions
  <2>4. \A i \in DOMAIN decisions : decisions[i].active =>
           decisions[i].tracks \in Merged(decisions, Len(decisions))
    BY <2>2 DEF Merged
  <2>. QED BY <2>1, <2>3, <2>4 DEF Candidates!SamePlayerTogether
<1>. QED BY <1>1, <1>3, <1>4, <1>5, <1>6

LEMMA ReviewInvariant == Spec => []ReviewInv
<1>1. Init => ReviewInv BY ReviewInit DEF Init
<1>2. ReviewInv /\ [Next]_vars => ReviewInv'
  <2>. SUFFICES ASSUME ReviewInv, [Next]_vars PROVE ReviewInv' OBVIOUS
  <2>1. [Candidates!Next]_candidateVars BY DEF Next, vars
  <2>. QED BY <2>1, ReviewStep
<1>. QED BY <1>1, <1>2, PTL DEF Spec

\* For any tracks, groups, ranks, eligibility and merge checks: however the
\* user reviews, every track stays in one candidate, at most MaxSelectable are
\* offered, and the selection is one of them (build_player_candidates).
THEOREM CandidatesTheorem == Spec => []CandidatesConsistent
<1>1. ReviewInv => CandidatesConsistent BY ReviewConsistent DEF CandidatesConsistent
<1>. QED BY <1>1, ReviewInvariant, PTL

\* Whatever was merged in whatever order: an undone merge is taken apart, the
\* selection survives, a rejected group is not offered again
\* (unmerge_player_candidates, _selectable_policy, _preserve_rejections).
THEOREM RespectTheorem == Spec => ReviewRespected
<1>. DEFINE Split == last'.op = "unmerge" /\ last' # last
                        => last'.candidate \notin active' \union {x.tracks : x \in excluded'}
            Keep == selected # Candidates!NoGroup /\ last'.op \in {"generate", "reject", "restore", "unmerge"}
                       /\ last'.candidate # selected => selected' = selected
            Out == last'.op = "generate" =>
                      \A x \in excluded : x.rejected /\ x.eligible /\ x.tracks \in Groups => x.tracks \notin active'
<1>1. ReviewInv /\ [Next]_vars => [Split]_Candidates!vars /\ [Keep]_Candidates!vars /\ [Out]_Candidates!vars
  <2>. SUFFICES ASSUME ReviewInv, Next, ~UNCHANGED Candidates!vars PROVE Split /\ Keep /\ Out
    BY DEF vars, candidateVars, Candidates!vars
  <2>1. Candidates!Next BY DEF Next, candidateVars, Candidates!vars
  <2>2. Split
    <3>1. {x.tracks : x \in excluded'} = Candidates!ExcludedTracks' BY DEF Candidates!ExcludedTracks
    <3>. QED BY <2>1, <3>1, WhatWasDone, UnmergeKeeps
  <2>3. Keep
    <3>1. \A c : Candidates!Reject(c) /\ c # selected => selected' = selected
      BY DEF Candidates!Reject, Candidates!Unselected
    <3>. QED BY <2>1, <3>1, WhatWasDone, UnmergeKeeps, GenerateKeeps DEF Candidates!NoGroup
  <2>4. Out BY <2>1, WhatWasDone, GenerateKeeps
  <2>. QED BY <2>2, <2>3, <2>4
<1>. QED BY <1>1, ReviewInvariant, PTL
     DEF Spec, ReviewRespected, Candidates!UnmergeSplits, Candidates!SelectionKept,
         Candidates!RejectedGroupStaysOut

-----------------------------------------------------------------------------
(* What the frames of one candidate are worth.                              *)

\* Observations are in the order of their frames, and every one continues the
\* track of the one before it or begins the next.
Observation == [at : 0 .. Frames, track : 1 .. Frames, pos : Movement!Positions, seen : BOOLEAN]
MovementInv ==
    /\ now \in 0 .. Frames /\ stream \in Seq(Observation) /\ Len(stream) <= now
    /\ \A i \in 1 .. Len(stream) : stream[i].at < now /\ stream[i].track <= i
    /\ \A i, j \in 1 .. Len(stream) :
          i < j => stream[i].at < stream[j].at /\ stream[i].track <= stream[j].track

\* What is assumed of the durations.
LEMMA MovementGiven ==
    /\ Frames \in Nat /\ MeasuredGap \in Nat \ {0} /\ UsableDuration \in Nat \ {0} /\ StrongDuration \in Nat
    /\ ExcellentDuration \in Nat /\ MinTracked \in Nat /\ CautiousDuration \in Nat /\ MinObservations \in Nat
    /\ UsableDuration <= StrongDuration /\ MinTracked <= StrongDuration /\ StrongDuration <= CautiousDuration
    /\ StrongDuration > MeasuredGap * (MinObservations - 2)
    /\ \A T : Movement!Cardinality(T) = Cardinality(T)
<1>1. Movement!EvidenceAssumption BY WellFormed DEF WellFormed
<1>2. \A T : Movement!Cardinality(T) = Cardinality(T)
  BY DEF Movement!Cardinality, Movement!IsFiniteSet, Cardinality, IsFiniteSet
<1>3. /\ Frames \in Nat /\ MeasuredGap \in Nat /\ UsableDuration \in Nat /\ StrongDuration \in Nat
      /\ ExcellentDuration \in Nat /\ MinTracked \in Nat /\ CautiousDuration \in Nat /\ MinObservations \in Nat
  BY <1>1 DEF Movement!EvidenceAssumption
<1>4. /\ MeasuredGap > 0 /\ UsableDuration > 0 /\ UsableDuration <= StrongDuration /\ MinTracked <= StrongDuration
      /\ CautiousDuration \in StrongDuration .. ExcellentDuration
      /\ StrongDuration > MeasuredGap * (MinObservations - 2)
  BY <1>1 DEF Movement!EvidenceAssumption
<1>. QED BY <1>2, <1>3, <1>4

\* The invariant holds at first and is kept by every frame.
LEMMA MovementInit == ASSUME Movement!Init PROVE MovementInv
<1>1. <<>> \in Seq(Observation) /\ Len(<<>>) = 0 BY EmptySeq
<1>. QED BY <1>1, MovementGiven DEF Movement!Init, MovementInv

LEMMA MovementStep == ASSUME MovementInv, [Movement!Next]_movementVars PROVE MovementInv'
<1>. USE MovementGiven
<1>1. CASE UNCHANGED movementVars BY <1>1 DEF movementVars, MovementInv
<1>0. \A i \in 1 .. Len(stream) : stream[i].at \in Nat /\ stream[i].track \in Nat
  <2>1. \A i \in 1 .. Len(stream) : stream[i] \in Observation BY ElementOfSeq DEF MovementInv
  <2>. QED BY <2>1 DEF Observation
<1>2. ASSUME now < Frames, now' = now + 1, stream' = stream PROVE MovementInv'
  <2>1. now \in 0 .. Frames /\ Len(stream) \in Nat BY LenProperties DEF MovementInv
  <2>2. \A i \in 1 .. Len(stream) : stream[i].at < now' BY <1>0, <1>2, <2>1 DEF MovementInv
  <2>. QED BY <1>2, <2>1, <2>2 DEF MovementInv
<1>3. ASSUME now < Frames, now' = now + 1, NEW pos \in Movement!Positions, NEW seen \in BOOLEAN,
             NEW track \in Nat \ {0}, Movement!See(pos, seen, track),
             stream = <<>> => track = 1,
             stream # <<>> => track \in {stream[Len(stream)].track, stream[Len(stream)].track + 1}
      PROVE  MovementInv'
  <2>. DEFINE o == [at |-> now, track |-> track, pos |-> pos, seen |-> seen]
  <2>1. stream' = Append(stream, o) BY <1>3 DEF Movement!See
  <2>2. stream \in Seq(Observation) /\ Len(stream) \in Nat BY LenProperties DEF MovementInv
  <2>3. stream = <<>> <=> Len(stream) = 0 BY <2>2, EmptySeq
  <2>4. Len(stream) > 0 => Len(stream) \in 1 .. Len(stream) BY <2>2
  <2>5. track <= Len(stream) + 1 /\ \A i \in 1 .. Len(stream) : stream[i].track <= track
    <3>1. CASE Len(stream) = 0 BY <1>3, <2>3, <3>1
    <3>2. CASE Len(stream) > 0
      <4>. DEFINE newest == stream[Len(stream)].track
      <4>1. track \in {newest, newest + 1} /\ newest <= Len(stream) BY <1>3, <2>3, <2>4, <3>2 DEF MovementInv
      <4>2. \A i \in 1 .. Len(stream) : stream[i] \in Observation BY <2>2, ElementOfSeq
      <4>3. \A i \in 1 .. Len(stream) : stream[i].track \in Nat BY <4>2 DEF Observation
      <4>4. \A i \in 1 .. Len(stream) : i < Len(stream) \/ i = Len(stream) BY <2>2
      <4>5. \A i \in 1 .. Len(stream) : stream[i].track <= newest BY <2>4, <3>2, <4>3, <4>4 DEF MovementInv
      <4>6. newest \in Nat BY <2>4, <3>2, <4>3
      <4>. HIDE DEF newest
      <4>. QED BY <2>2, <4>1, <4>3, <4>5, <4>6
    <3>. QED BY <2>2, <3>1, <3>2
  <2>6. o \in Observation
    <3>1. track <= Frames BY <1>3, <2>2, <2>5 DEF MovementInv
    <3>2. now \in 0 .. Frames BY DEF MovementInv
    <3>. QED BY <1>3, <3>1, <3>2 DEF Observation
  <2>7. /\ stream' \in Seq(Observation) /\ Len(stream') = Len(stream) + 1
        /\ \A i \in 1 .. Len(stream) : stream'[i] = stream[i]
        /\ stream'[Len(stream) + 1] = o
    <3>. HIDE DEF o
    <3>. QED BY <2>1, <2>2, <2>6, AppendProperties
  <2>8. \A i \in 1 .. Len(stream') : i \in 1 .. Len(stream) \/ i = Len(stream) + 1 BY <2>2, <2>7
  <2>9. o.at = now /\ o.track = track OBVIOUS
  <2>. HIDE DEF o
  <2>10. now' \in 0 .. Frames /\ Len(stream') <= now' BY <1>3, <2>2, <2>7 DEF MovementInv
  <2>11. \A i \in 1 .. Len(stream') : stream'[i].at < now' /\ stream'[i].track <= i
    <3>1. ASSUME NEW i \in 1 .. Len(stream) PROVE stream'[i].at < now' /\ stream'[i].track <= i
      <4>1. stream[i].at \in Nat BY <1>0
      <4>. QED BY <1>3, <2>7, <4>1 DEF MovementInv
    <3>2. stream'[Len(stream) + 1].at < now' /\ stream'[Len(stream) + 1].track <= Len(stream) + 1
      BY <1>3, <2>5, <2>7, <2>9 DEF MovementInv
    <3>. QED BY <2>8, <3>1, <3>2
  <2>12. ASSUME NEW i \in 1 .. Len(stream'), NEW j \in 1 .. Len(stream'), i < j
         PROVE  stream'[i].at < stream'[j].at /\ stream'[i].track <= stream'[j].track
    <3>1. i \in 1 .. Len(stream) BY <2>2, <2>7, <2>12
    <3>2. CASE j \in 1 .. Len(stream) BY <2>7, <2>12, <3>1, <3>2 DEF MovementInv
    <3>3. CASE j = Len(stream) + 1 BY <2>5, <2>7, <2>9, <3>1, <3>3 DEF MovementInv
    <3>. QED BY <2>8, <3>2, <3>3
  <2>. QED BY <2>7, <2>10, <2>11, <2>12 DEF MovementInv
<1>4. stream # <<>> => Movement!Last(stream) = stream[Len(stream)] BY DEF Movement!Last
<1>5. stream # <<>> => stream[Len(stream)].track \in Nat \ {0}
  <2>1. stream \in Seq(Observation) BY DEF MovementInv
  <2>2. stream # <<>> => stream[Len(stream)] \in Observation BY <2>1, EmptySeq, LenProperties, ElementOfSeq
  <2>. QED BY <2>2 DEF Observation
<1>6. CASE Movement!Next
  <2>1. now < Frames /\ now' = now + 1 BY <1>6 DEF Movement!Next
  <2>2. 0 \in Movement!Positions BY DEF Movement!Positions
  <2>3. CASE Movement!NewTrack
    <3>. DEFINE track == IF stream = <<>> THEN 1 ELSE stream[Len(stream)].track + 1
    <3>1. PICK pos \in Movement!Positions : Movement!See(pos, TRUE, track)
      BY <1>4, <2>3 DEF Movement!NewTrack
    <3>2. /\ track \in Nat \ {0} /\ (stream = <<>> => track = 1)
          /\ (stream # <<>> => track \in {stream[Len(stream)].track, stream[Len(stream)].track + 1})
      BY <1>5
    <3>. HIDE DEF track
    <3>. QED BY <1>3, <2>1, <3>1, <3>2
  <2>4. CASE Movement!SameTrack
    <3>1. PICK pos \in Movement!Positions :
              stream # <<>> /\ Movement!See(pos, TRUE, stream[Len(stream)].track)
      BY <1>4, <2>4 DEF Movement!SameTrack
    <3>. QED BY <1>3, <1>5, <2>1, <3>1
  <2>5. CASE Movement!OffCourt
    <3>1. stream # <<>> /\ Movement!See(0, FALSE, stream[Len(stream)].track) BY <1>4, <2>5 DEF Movement!OffCourt
    <3>. QED BY <1>3, <1>5, <2>1, <2>2, <3>1
  <2>6. CASE Movement!Unseen BY <1>2, <2>1, <2>6 DEF Movement!Unseen
  <2>. QED BY <1>6, <2>3, <2>4, <2>5, <2>6 DEF Movement!Next
<1>. QED BY <1>1, <1>6
\* Neighbouring observations, the frames and the feet between them.
Pairs == 1 .. Len(stream) - 1
Gaps == [i \in Pairs |-> stream[i + 1].at - stream[i].at]
Strides == [i \in Pairs |-> Movement!Feet(stream[i].pos, stream[i + 1].pos)]
Counted == Movement!Intervals(stream)

\* Two neighbours are in order, and are counted or not.
LEMMA PairsAre ==
    ASSUME MovementInv
    PROVE  /\ Len(stream) \in Nat /\ IsFiniteSet(Pairs) /\ (stream = <<>> <=> Len(stream) = 0)
           /\ \A i \in 1 .. Len(stream) : stream[i] \in Observation /\ stream[i].at \in Nat /\ stream[i].pos \in 0 .. 2
           /\ \A i \in Pairs : /\ i \in 1 .. Len(stream) /\ i + 1 \in 1 .. Len(stream)
                               /\ Gaps[i] = stream[i + 1].at - stream[i].at /\ Gaps[i] \in Nat \ {0}
                               /\ Strides[i] = Movement!Feet(stream[i].pos, stream[i + 1].pos) /\ Strides[i] \in Nat
           /\ Counted \subseteq Pairs /\ IsFiniteSet(Counted)
           /\ \A i \in Pairs : i \in Counted <=>
                 /\ stream[i].track = stream[i + 1].track /\ Gaps[i] <= MeasuredGap
                 /\ stream[i].seen /\ stream[i + 1].seen
<1>. USE MovementGiven
<1>1. stream \in Seq(Observation) BY DEF MovementInv
<1>2. Len(stream) \in Nat /\ (stream = <<>> <=> Len(stream) = 0) BY <1>1, EmptySeq, LenProperties
<1>3. IsFiniteSet(Pairs) BY <1>2, FS_Interval DEF Pairs
<1>4. ASSUME NEW i \in 1 .. Len(stream)
      PROVE  stream[i] \in Observation /\ stream[i].at \in Nat /\ stream[i].pos \in 0 .. 2
  <2>1. stream[i] \in Observation BY <1>1, ElementOfSeq
  <2>. QED BY <2>1 DEF Observation, Movement!Positions
<1>5. ASSUME NEW i \in Pairs
      PROVE  /\ i \in 1 .. Len(stream) /\ i + 1 \in 1 .. Len(stream)
             /\ Gaps[i] = stream[i + 1].at - stream[i].at /\ Gaps[i] \in Nat \ {0}
             /\ Strides[i] = Movement!Feet(stream[i].pos, stream[i + 1].pos) /\ Strides[i] \in Nat
  <2>1. i \in 1 .. Len(stream) /\ i + 1 \in 1 .. Len(stream) /\ i < i + 1 BY <1>2 DEF Pairs
  <2>2. stream[i].at < stream[i + 1].at BY <2>1 DEF MovementInv
  <2>3. Gaps[i] = stream[i + 1].at - stream[i].at BY DEF Gaps
  <2>4. Gaps[i] \in Nat \ {0} BY <1>4, <2>1, <2>2, <2>3
  <2>5. Strides[i] = Movement!Feet(stream[i].pos, stream[i + 1].pos) BY DEF Strides
  <2>6. Strides[i] \in Nat BY <1>4, <2>1, <2>5 DEF Movement!Feet
  <2>. QED BY <2>1, <2>3, <2>4, <2>5, <2>6
<1>6. Counted \subseteq Pairs BY DEF Counted, Movement!Intervals, Pairs
<1>7. IsFiniteSet(Counted) BY <1>3, <1>6, FS_Subset
<1>8. ASSUME NEW i \in Pairs
      PROVE  i \in Counted <=>
                 /\ stream[i].track = stream[i + 1].track /\ Gaps[i] <= MeasuredGap
                 /\ stream[i].seen /\ stream[i + 1].seen
  <2>1. i \in Counted <=> Movement!supports_observed_interval(stream[i], stream[i + 1])
    BY DEF Counted, Movement!Intervals, Pairs
  <2>2. Gaps[i] \in 1 .. MeasuredGap <=> Gaps[i] <= MeasuredGap BY <1>5
  <2>3. Gaps[i] = stream[i + 1].at - stream[i].at BY <1>5
  <2>. QED BY <2>1, <2>2, <2>3 DEF Movement!supports_observed_interval
<1>. QED BY <1>2, <1>3, <1>4, <1>5, <1>6, <1>7, <1>8

\* The time and the distance over some of them are sums.
LEMMA SecondsAre ==
    ASSUME MovementInv, NEW I \in SUBSET Pairs
    PROVE  Movement!Seconds(stream, I) = Total(Gaps, I)
<1>1. IsFiniteSet(I) /\ \A x \in I : Gaps[x] \in Nat BY PairsAre, FS_Subset
<1>. DEFINE Sum(f) == [T \in SUBSET I |-> IF T = {} THEN 0 ELSE
                 LET x == CHOOSE y \in T : TRUE IN (stream[x + 1].at - stream[x].at) + f[T \ {x}]]
            SumOfGaps(f) == [T \in SUBSET I |-> IF T = {} THEN 0 ELSE
                 LET x == CHOOSE y \in T : TRUE IN Gaps[x] + f[T \ {x}]]
<1>2. ASSUME NEW f PROVE Sum(f) = SumOfGaps(f)
  <2>1. \A x \in I : Gaps[x] = stream[x + 1].at - stream[x].at BY PairsAre
  <2>. QED BY <2>1
<1>3. Movement!Seconds(stream, I) = (CHOOSE f : f = Sum(f))[I]
  BY DEF Movement!Seconds, Movement!MapThenSumSet, Movement!MapThenFoldSet
<1>4. SumOf(Gaps, I) = (CHOOSE f : f = SumOfGaps(f))[I] BY DEF SumOf
<1>5. (CHOOSE f : f = Sum(f)) = (CHOOSE f : f = SumOfGaps(f))
  <2>. HIDE DEF Sum, SumOfGaps
  <2>. QED BY <1>2
<1>. QED BY <1>1, <1>3, <1>4, <1>5, SumIsTotal

LEMMA DistanceIs ==
    ASSUME MovementInv, NEW I \in SUBSET Pairs
    PROVE  Movement!Distance(stream, I) = Total(Strides, I)
<1>1. IsFiniteSet(I) /\ \A x \in I : Strides[x] \in Nat BY PairsAre, FS_Subset
<1>. DEFINE Sum(f) == [T \in SUBSET I |-> IF T = {} THEN 0 ELSE
                 LET x == CHOOSE y \in T : TRUE
                 IN  Movement!Feet(stream[x].pos, stream[x + 1].pos) + f[T \ {x}]]
            SumOfStrides(f) == [T \in SUBSET I |-> IF T = {} THEN 0 ELSE
                 LET x == CHOOSE y \in T : TRUE IN Strides[x] + f[T \ {x}]]
<1>2. ASSUME NEW f PROVE Sum(f) = SumOfStrides(f)
  <2>1. \A x \in I : Strides[x] = Movement!Feet(stream[x].pos, stream[x + 1].pos) BY PairsAre
  <2>. QED BY <2>1
<1>3. Movement!Distance(stream, I) = (CHOOSE f : f = Sum(f))[I]
  BY DEF Movement!Distance, Movement!MapThenSumSet, Movement!MapThenFoldSet
<1>4. SumOf(Strides, I) = (CHOOSE f : f = SumOfStrides(f))[I] BY DEF SumOf
<1>5. (CHOOSE f : f = Sum(f)) = (CHOOSE f : f = SumOfStrides(f))
  <2>. HIDE DEF Sum, SumOfStrides
  <2>. QED BY <1>2
<1>. QED BY <1>1, <1>3, <1>4, <1>5, SumIsTotal

\* All gaps together are the span of the recording.
LEMMA GapsTelescope ==
    ASSUME MovementInv, stream # <<>>
    PROVE  Total(Gaps, Pairs) = Movement!Span(stream)
<1>. DEFINE n == Len(stream) - 1
            Sound == {m \in 0 .. n : Total(Gaps, 1 .. m) = stream[m + 1].at - stream[1].at}
<1>1. n \in Nat /\ Len(stream) \in Nat /\ 1 \in 1 .. Len(stream) BY PairsAre
<1>2. 0 \in Sound
  <2>1. 1 .. 0 = {} /\ stream[1].at \in Nat BY <1>1, PairsAre
  <2>. QED BY <1>1, <2>1, TotalEmpty
<1>3. ASSUME NEW k \in 1 .. n, k - 1 \in Sound PROVE k \in Sound
  <2>1. (1 .. k) \ {k} = 1 .. k - 1 /\ k \in 1 .. k /\ IsFiniteSet(1 .. k)
    <3>1. k \in Nat /\ k >= 1 BY <1>1
    <3>. HIDE DEF n
    <3>2. IsFiniteSet(1 .. k) BY <3>1, FS_Interval
    <3>. QED BY <3>1, <3>2
  <2>2. \A i \in 1 .. k : i \in Pairs BY <1>1 DEF Pairs
  <2>3. \A i \in 1 .. k : Gaps[i] \in Nat BY <2>2, PairsAre
  <2>4. Total(Gaps, 1 .. k) = Gaps[k] + Total(Gaps, 1 .. k - 1)
    <3>. HIDE DEF n
    <3>. QED BY <2>1, <2>3, TotalStep
  <2>5. Gaps[k] = stream[k + 1].at - stream[k].at BY <2>1, <2>2, PairsAre
  <2>6. Total(Gaps, 1 .. k - 1) = stream[k].at - stream[1].at BY <1>3
  <2>7. stream[1].at \in Nat /\ stream[k].at \in Nat /\ stream[k + 1].at \in Nat
    BY <1>1, <2>1, <2>2, PairsAre
  <2>. QED BY <1>1, <2>4, <2>5, <2>6, <2>7
<1>4. Sound = 0 .. n
  <2>. HIDE DEF Sound, n
  <2>1. Sound \in SUBSET (0 .. n) BY DEF Sound
  <2>. QED BY <1>1, <1>2, <1>3, <2>1, CountingUp
<1>5. n \in Sound BY <1>1, <1>4
<1>6. Movement!Last(stream) = stream[Len(stream)] BY DEF Movement!Last
<1>. QED BY <1>1, <1>5, <1>6 DEF Movement!Span, Pairs
\* The counted intervals of a zone.
Zoned(k) == {i \in Counted : stream[i].pos + 1 = k}
Report == Movement!generate_match_analytics(stream, 0)

\* What the report says of the counted intervals; the zones share out the time.
LEMMA ReportIs ==
    ASSUME MovementInv
    PROVE  /\ Report.observed = Total(Gaps, Counted) /\ Report.observed \in Nat
           /\ Report.gap = Movement!Span(stream) - Report.observed
           /\ Movement!Span(stream) \in Nat /\ Report.observed <= Movement!Span(stream)
           /\ (stream # <<>> => Movement!Span(stream) = Report.observed + Total(Gaps, Pairs \ Counted))
           /\ Total(Gaps, Pairs \ Counted) \in Nat
           /\ Report.distance = Total(Strides, Counted)
           /\ Report.timeline = Cardinality(Movement!Timeline(stream))
           /\ Report.fragments = Cardinality({stream[i].track : i \in DOMAIN stream})
           /\ \A k \in 1 .. 3 : Report.zones[k] = Total(Gaps, Zoned(k)) /\ Report.zones[k] \in Nat
           /\ Report.tracked = Report.zones[1] + Report.zones[2] + Report.zones[3]
           /\ Report.tracked = Report.observed /\ DOMAIN Movement!Zones = 1 .. 3
<1>. USE MovementGiven
<1>1. /\ Counted \in SUBSET Pairs /\ IsFiniteSet(Pairs) /\ IsFiniteSet(Counted)
      /\ \A i \in Pairs : Gaps[i] \in Nat
  BY PairsAre
<1>2. DOMAIN Movement!Zones = 1 .. 3 BY DEF Movement!Zones
<1>3. /\ Report.observed = Movement!Seconds(stream, Counted)
      /\ Report.gap = Movement!Span(stream) - Report.observed + 0
      /\ Report.distance = Movement!Distance(stream, Counted)
      /\ Report.timeline = Cardinality(Movement!Timeline(stream))
      /\ Report.fragments = Cardinality({stream[i].track : i \in DOMAIN stream})
      /\ Report.zones = Movement!calculate_zone_occupancy(stream)
      /\ Report.tracked = Report.zones[1] + Report.zones[2] + Report.zones[3]
  BY DEF Report, Counted, Movement!generate_match_analytics
<1>4. ASSUME NEW k \in 1 .. 3 PROVE Report.zones[k] = Total(Gaps, Zoned(k)) /\ Report.zones[k] \in Nat
  <2>1. Report.zones[k] = Movement!Seconds(stream, Zoned(k))
    BY <1>2, <1>3 DEF Movement!calculate_zone_occupancy, Zoned, Counted
  <2>2. Zoned(k) \in SUBSET Pairs /\ IsFiniteSet(Zoned(k)) BY <1>1, FS_Subset DEF Zoned
  <2>3. Report.zones[k] = Total(Gaps, Zoned(k)) BY <2>1, <2>2, SecondsAre
  <2>. QED BY <1>1, <2>2, <2>3, TotalFinite
<1>5. Report.observed = Total(Gaps, Counted) /\ Report.observed \in Nat
  <2>1. Report.observed = Total(Gaps, Counted) BY <1>1, <1>3, SecondsAre
  <2>. QED BY <1>1, <2>1, TotalFinite
<1>6. Report.distance = Total(Strides, Counted) BY <1>1, <1>3, DistanceIs
<1>7. Report.tracked = Report.observed
  <2>1. /\ Zoned(1) \in SUBSET Counted /\ Zoned(2) \in SUBSET Counted /\ Zoned(3) \in SUBSET Counted
        /\ Counted = (Zoned(1) \union Zoned(2)) \union Zoned(3)
        /\ Zoned(1) \intersect Zoned(2) = {} /\ (Zoned(1) \union Zoned(2)) \intersect Zoned(3) = {}
    <3>1. \A i \in Counted : stream[i].pos \in 0 .. 2 BY <1>1, PairsAre
    <3>2. \A i \in Counted : stream[i].pos + 1 = 1 \/ stream[i].pos + 1 = 2 \/ stream[i].pos + 1 = 3 BY <3>1
    <3>. QED BY <3>1, <3>2 DEF Zoned
  <2>2. /\ IsFiniteSet(Zoned(1)) /\ IsFiniteSet(Zoned(2)) /\ IsFiniteSet(Zoned(3))
        /\ IsFiniteSet(Zoned(1) \union Zoned(2))
    BY <1>1, <2>1, FS_Subset, FS_Union
  <2>3. Total(Gaps, Zoned(1) \union Zoned(2)) = Total(Gaps, Zoned(1)) + Total(Gaps, Zoned(2))
    BY <1>1, <2>1, <2>2, TotalSplit
  <2>4. Total(Gaps, Counted) = Total(Gaps, Zoned(1) \union Zoned(2)) + Total(Gaps, Zoned(3))
    <3>. DEFINE Others == Zoned(1) \union Zoned(2)
    <3>1. /\ Counted = Others \union Zoned(3) /\ IsFiniteSet(Others) /\ Others \intersect Zoned(3) = {}
          /\ \A x \in Others \union Zoned(3) : Gaps[x] \in Nat
      BY <1>1, <2>1, <2>2
    <3>. HIDE DEF Others
    <3>2. Total(Gaps, Others \union Zoned(3)) = Total(Gaps, Others) + Total(Gaps, Zoned(3))
      BY <2>2, <3>1, TotalSplit
    <3>3. Total(Gaps, Counted) = Total(Gaps, Others) + Total(Gaps, Zoned(3)) BY <3>1, <3>2
    <3>. QED BY <3>3 DEF Others
  <2>. QED BY <1>3, <1>4, <1>5, <2>3, <2>4
<1>8. Total(Gaps, Pairs) = Report.observed + Total(Gaps, Pairs \ Counted) /\ Total(Gaps, Pairs \ Counted) \in Nat
  BY <1>1, <1>5, TotalPart
<1>9. CASE stream # <<>>
  <2>1. Movement!Span(stream) = Report.observed + Total(Gaps, Pairs \ Counted) BY <1>8, <1>9, GapsTelescope
  <2>. QED BY <1>2, <1>3, <1>4, <1>5, <1>6, <1>7, <1>8, <2>1
<1>10. CASE stream = <<>>
  <2>1. Movement!Span(stream) = 0 BY <1>10 DEF Movement!Span
  <2>2. Pairs = {} BY <1>10, PairsAre DEF Pairs
  <2>3. Counted = {} BY <1>1, <2>2
  <2>4. Report.observed = 0 BY <1>5, <2>3, TotalEmpty
  <2>. QED BY <1>2, <1>3, <1>4, <1>5, <1>6, <1>7, <1>8, <1>10, <2>1, <2>4
<1>. QED BY <1>9, <1>10

\* The report's time adds up, and lines are drawn over it.
LEMMA TimeIsShared == ASSUME MovementInv PROVE Movement!TimeAddsUp
<1>. USE MovementGiven
<1>1. DOMAIN stream = 1 .. Len(stream) /\ Len(stream) \in Nat
  <2>1. stream \in Seq(Observation) BY DEF MovementInv
  <2>. QED BY <2>1, LenProperties
<1>2. Report.tracked = Report.observed /\ Report.observed <= Movement!Span(stream) BY ReportIs
<1>3. ASSUME NEW q \in Movement!Timeline(stream), ~q.new
      PROVE  \E i \in Movement!Intervals(stream) : stream[i + 1].at = q.at
  <2>1. PICK j \in {x \in DOMAIN stream : stream[x].seen} :
            q = [at |-> stream[j].at, new |-> j = 1 \/ j - 1 \notin Movement!Intervals(stream)]
    BY DEF Movement!Timeline
  <2>2. ~(j = 1 \/ j - 1 \notin Movement!Intervals(stream)) /\ q.at = stream[j].at BY <1>3, <2>1
  <2>3. j \in 1 .. Len(stream) /\ (j - 1) + 1 = j BY <1>1
  <2>. QED BY <2>2, <2>3
<1>4. ASSUME Report.observed > 0 PROVE \E t \in Movement!Timeline(stream) : ~t.new
  <2>1. Report.observed = Total(Gaps, Counted) BY ReportIs
  <2>2. PICK i \in Counted : TRUE BY <1>4, <2>1, TotalEmpty
  <2>3. /\ i \in Pairs /\ i + 1 \in 1 .. Len(stream) /\ stream[i + 1].seen BY <2>2, PairsAre
  <2>. DEFINE t == [at |-> stream[i + 1].at, new |-> i + 1 = 1 \/ (i + 1) - 1 \notin Movement!Intervals(stream)]
  <2>4. t \in Movement!Timeline(stream) BY <1>1, <2>3 DEF Movement!Timeline
  <2>5. i \in Nat /\ i >= 1 /\ i \in Movement!Intervals(stream) BY <1>1, <2>2, <2>3 DEF Pairs, Counted
  <2>6. ~(i + 1 = 1 \/ (i + 1) - 1 \notin Movement!Intervals(stream)) BY <2>5
  <2>. QED BY <2>4, <2>6
<1>. QED BY <1>2, <1>3, <1>4 DEF Movement!TimeAddsUp, Report

\* The stream is one of the observations the model speaks of.
LEMMA MovementTyped == ASSUME MovementInv PROVE Movement!TypeOK
<1>. USE MovementGiven
<1>1. stream \in Seq(Observation) /\ Len(stream) \in Nat /\ DOMAIN stream = 1 .. Len(stream)
  BY LenProperties DEF MovementInv
<1>2. \A i \in 1 .. Len(stream) : stream[i] \in Observation BY <1>1, ElementOfSeq
<1>3. ASSUME NEW i \in 1 .. Len(stream), i > 1
      PROVE  stream[i].at > stream[i - 1].at /\ stream[i].track >= stream[i - 1].track
  <2>1. i - 1 \in 1 .. Len(stream) /\ i - 1 < i BY <1>1, <1>3
  <2>2. stream[i] \in Observation /\ stream[i - 1] \in Observation BY <1>2, <2>1
  <2>3. stream[i].at \in Nat /\ stream[i - 1].at \in Nat /\ stream[i].track \in Nat /\ stream[i - 1].track \in Nat
    BY <2>2 DEF Observation
  <2>4. stream[i - 1].at < stream[i].at /\ stream[i - 1].track <= stream[i].track BY <2>1 DEF MovementInv
  <2>. QED BY <2>3, <2>4
<1>. QED BY <1>1, <1>2, <1>3 DEF Movement!TypeOK, MovementInv, Observation
\* Every counted interval draws a line, and the first line has a beginning.
LEMMA TimelineGrows ==
    ASSUME MovementInv, Counted # {}
    PROVE  Report.timeline >= Cardinality(Counted) + 1 /\ Report.timeline \in Nat /\ Cardinality(Counted) \in Nat
<1>. USE MovementGiven
<1>. DEFINE Entry(i) == [at |-> stream[i].at, new |-> i = 1 \/ i - 1 \notin Counted]
            Seen == {i \in 1 .. Len(stream) : stream[i].seen}
            Lines == Movement!Timeline(stream)
            entry == [i \in Seen |-> Entry(i)]
            line == [i \in Counted |-> Entry(i + 1)]
<1>1. stream \in Seq(Observation) /\ Len(stream) \in Nat /\ DOMAIN stream = 1 .. Len(stream)
  BY LenProperties DEF MovementInv
<1>2. Lines = {Entry(i) : i \in Seen} BY <1>1 DEF Movement!Timeline, Counted
<1>3. \A i \in 1 .. Len(stream) : stream[i].at \in Nat BY PairsAre
<1>4. \A i \in Counted : /\ i \in Pairs /\ i \in Seen /\ i + 1 \in Seen
                         /\ i \in 1 .. Len(stream) /\ i + 1 \in 1 .. Len(stream)
  BY PairsAre
<1>5. IsFiniteSet(Lines)
  <2>1. IsFiniteSet(1 .. Len(stream)) BY <1>1, FS_Interval
  <2>2. Seen \in SUBSET (1 .. Len(stream)) OBVIOUS
  <2>3. IsFiniteSet(Seen) BY <2>1, <2>2, FS_Subset
  <2>4. entry \in Surjection(Seen, Lines) BY <1>2 DEF Surjection
  <2>. HIDE DEF Seen, Lines, entry
  <2>. QED BY <2>3, <2>4, FS_Surjection
<1>6. Counted \in SUBSET Nat /\ IsFiniteSet(Counted)
  <2>1. \A i \in Counted : i \in Nat BY <1>1, <1>4
  <2>. QED BY <2>1, PairsAre
<1>7. PICK m \in Counted : \A i \in Counted : m <= i BY <1>6, ExtremesExist
<1>8. Entry(m) \in Lines BY <1>2, <1>4, <1>7
<1>9. line \in Injection(Counted, Lines \ {Entry(m)})
  <2>1. ASSUME NEW i \in Counted PROVE Entry(i + 1) \in Lines \ {Entry(m)}
    <3>1. m < i + 1 BY <1>6, <1>7
    <3>2. stream[m].at < stream[i + 1].at BY <1>4, <1>7, <3>1 DEF MovementInv
    <3>3. stream[m].at \in Nat /\ stream[i + 1].at \in Nat BY <1>3, <1>4, <1>7
    <3>4. Entry(m).at # Entry(i + 1).at BY <3>2, <3>3
    <3>5. Entry(i + 1) \in Lines BY <1>2, <1>4
    <3>. QED BY <3>4, <3>5
  <2>2. ASSUME NEW i \in Counted, NEW j \in Counted, line[i] = line[j] PROVE i = j
    <3>1. stream[i + 1].at = stream[j + 1].at
      <4>1. Entry(i + 1) = Entry(j + 1) BY <2>2
      <4>2. Entry(i + 1).at = Entry(j + 1).at BY <4>1
      <4>. QED BY <4>2
    <3>2. stream[i + 1].at \in Nat BY <1>3, <1>4
    <3>3. ~(i + 1 < j + 1) /\ ~(j + 1 < i + 1) BY <1>4, <3>1, <3>2 DEF MovementInv
    <3>. QED BY <1>6, <3>3
  <2>. HIDE DEF Entry, Lines
  <2>. QED BY <2>1, <2>2 DEF Injection, IsInjective
<1>10. Cardinality(Counted) <= Cardinality(Lines \ {Entry(m)})
  <2>1. IsFiniteSet(Lines \ {Entry(m)}) BY <1>5, FS_RemoveElement
  <2>. HIDE DEF line, Lines, Entry
  <2>. QED BY <1>9, <2>1, FS_Injection
<1>11. Cardinality(Lines \ {Entry(m)}) = Cardinality(Lines) - 1
  <2>. HIDE DEF Lines, Entry
  <2>. QED BY <1>5, <1>8, FS_RemoveElement
<1>12. Cardinality(Lines) \in Nat /\ Cardinality(Counted) \in Nat
  <2>. HIDE DEF Lines
  <2>. QED BY <1>5, <1>6, FS_CardinalityType
<1>13. Report.timeline = Cardinality(Lines) BY ReportIs
<1>. QED BY <1>10, <1>11, <1>12, <1>13

Sample(clear) == Movement!BuildCandidate(stream, clear)

\* The candidate and the report are of the same intervals.
LEMMA SampleIs ==
    ASSUME MovementInv, NEW clear \in BOOLEAN
    PROVE  /\ Sample(clear).observed = Report.observed /\ Sample(clear).span = Movement!Span(stream)
           /\ Sample(clear).frames = Len(stream) /\ Len(stream) \in Nat
           /\ Sample(clear).fragments = Report.fragments
           /\ Sample(clear).distance \in Nat /\ Sample(clear).distance <= Report.distance /\ Report.distance \in Nat
<1>. USE MovementGiven
<1>. DEFINE Near == {i \in Counted : Movement!Feet(stream[i].pos, stream[i + 1].pos) <= 15}
<1>1. /\ Sample(clear).observed = Movement!Seconds(stream, Counted)
      /\ Sample(clear).span = Movement!Span(stream) /\ Sample(clear).frames = Len(stream)
      /\ Sample(clear).distance = Movement!Distance(stream, Near)
      /\ Sample(clear).fragments = Cardinality({stream[i].track : i \in DOMAIN stream})
  BY DEF Sample, Counted, Movement!BuildCandidate
<1>2. Counted \in SUBSET Pairs /\ IsFiniteSet(Counted) /\ \A i \in Pairs : Strides[i] \in Nat BY PairsAre
<1>3. Sample(clear).observed = Total(Gaps, Counted) BY <1>1, <1>2, SecondsAre
<1>4. Near \in SUBSET Counted /\ Near \in SUBSET Pairs BY <1>2
<1>5. Sample(clear).distance = Total(Strides, Near)
  <2>. HIDE DEF Near
  <2>. QED BY <1>1, <1>4, DistanceIs
<1>6. /\ Total(Strides, Near) \in Nat /\ Total(Strides, Counted) \in Nat
      /\ Total(Strides, Near) <= Total(Strides, Counted)
  <2>. HIDE DEF Near
  <2>. QED BY <1>2, <1>4, TotalPart
<1>7. Len(stream) \in Nat BY PairsAre
<1>. QED BY <1>1, <1>3, <1>5, <1>6, <1>7, ReportIs

\* A failure makes a level unsuitable, a warning limits it.
LEMMA LevelIs ==
    ASSUME NEW failures, NEW warnings, NEW excellent \in BOOLEAN
    PROVE  /\ Movement!Level(failures, warnings, excellent) = "unsuitable" <=> failures # {}
           /\ failures = {} =>
                 /\ Movement!Level(failures, warnings, excellent) = "limited" <=> warnings # {}
                 /\ Movement!Level(failures, warnings, excellent) \in {"limited", "good", "excellent"}
                 /\ Movement!Level(failures, warnings, excellent) = "excellent" => excellent
<1>1. CASE failures # {}
  <2>1. Movement!Level(failures, warnings, excellent) = "unsuitable" BY <1>1 DEF Movement!Level
  <2>. QED BY <1>1, <2>1
<1>2. CASE failures = {} /\ warnings # {}
  <2>1. Movement!Level(failures, warnings, excellent) = "limited" BY <1>2 DEF Movement!Level
  <2>. QED BY <1>2, <2>1
<1>3. CASE failures = {} /\ warnings = {}
  <2>1. Movement!Level(failures, warnings, excellent) = IF excellent THEN "excellent" ELSE "good"
    BY <1>3 DEF Movement!Level
  <2>. QED BY <1>3, <2>1
<1>. QED BY <1>1, <1>2, <1>3

Readiness(upload, c) == Movement!assess_analysis_readiness(upload, c)
\* What readiness says of a candidate.
LEMMA ReadinessIs ==
    ASSUME NEW upload, NEW c, c.frames \in Nat
    PROVE  /\ upload = "unsuitable" => Readiness(upload, c) = "unsuitable"
           /\ ~Movement!selection_eligible(c) => Readiness(upload, c) = "unsuitable"
           /\ c.frames = 0 => Readiness(upload, c) = "unsuitable"
           /\ c.observed < StrongDuration => Readiness(upload, c) = "unsuitable"
           /\ Readiness(upload, c) \in {"unsuitable", "limited", "good", "excellent"}
           /\ upload = "limited" => Readiness(upload, c) \in {"unsuitable", "limited"}
           /\ Movement!Quality(c) # "strong" => Readiness(upload, c) \in {"unsuitable", "limited"}
           /\ Readiness(upload, c) = "excellent" => upload = "excellent"
<1>. DEFINE eligible == Movement!selection_eligible(c)
            failures ==
                Movement!Named("upload_preflight_blocked", upload = "unsuitable")
                \union Movement!Named("no_person_detections", c.frames = 0)
                \union Movement!Named("no_selectable_player_candidate", c.frames > 0 /\ ~eligible)
                \union Movement!Named("player_visibility_too_low", eligible /\ c.percent < 65)
                \union Movement!Named("tracked_duration_too_short", eligible /\ c.observed < StrongDuration)
                \union Movement!Named("tracking_gaps_excessive", eligible /\ Movement!GapBeyond(c, 50))
                \union Movement!Named("too_many_track_fragments", eligible /\ c.fragments > 3)
            warnings ==
                Movement!Named("upload_preflight_limited", upload = "limited")
                \union Movement!Named("candidate_quality_usable", eligible /\ ~(Movement!Quality(c) = "strong"))
                \union Movement!Named("tracked_duration_limited",
                             eligible /\ c.observed \in StrongDuration .. (ExcellentDuration - 1))
                \union Movement!Named("tracking_gaps_present",
                             eligible /\ (Movement!GapBeyond(c, 10) \/ c.fragments > 1))
            level == Movement!Level(failures, warnings, Movement!ExcellentReadiness(upload, c))
<1>1. Readiness(upload, c) = level BY DEF Readiness, Movement!assess_analysis_readiness
<1>2. /\ upload = "unsuitable" => failures # {}
      /\ c.frames = 0 => failures # {}
      /\ c.frames > 0 /\ ~eligible => failures # {}
      /\ eligible /\ c.observed < StrongDuration => failures # {}
  <2>. HIDE DEF eligible
  <2>. QED BY DEF Movement!Named
<1>3. /\ upload = "limited" => warnings # {}
      /\ eligible /\ Movement!Quality(c) # "strong" => warnings # {}
  <2>. HIDE DEF eligible
  <2>. QED BY DEF Movement!Named
<1>4. Movement!ExcellentReadiness(upload, c) \in BOOLEAN
      /\ (Movement!ExcellentReadiness(upload, c) => upload = "excellent")
  BY DEF Movement!ExcellentReadiness
<1>5. c.frames = 0 \/ c.frames > 0 OBVIOUS
<1>. HIDE DEF failures, warnings, eligible
<1>6. /\ level = "unsuitable" <=> failures # {}
      /\ failures = {} => /\ level = "limited" <=> warnings # {}
                          /\ level \in {"limited", "good", "excellent"}
                          /\ level = "excellent" => Movement!ExcellentReadiness(upload, c)
  BY <1>4, LevelIs
<1>. HIDE DEF level
<1>7. eligible <=> Movement!selection_eligible(c) BY DEF eligible
<1>. QED BY <1>1, <1>2, <1>3, <1>4, <1>5, <1>6, <1>7
\* A candidate that may be selected has been observed and followed.
LEMMA SelectableIs ==
    ASSUME MovementInv, NEW clear \in BOOLEAN, Movement!selection_eligible(Sample(clear))
    PROVE  /\ Report.observed >= UsableDuration /\ Counted # {} /\ Report.distance > 0
           /\ Report.timeline >= Cardinality(Counted) + 1 /\ Report.timeline > 1
           /\ Report.timeline \in Nat /\ Cardinality(Counted) \in Nat
<1>. DEFINE c == Sample(clear)
<1>1. /\ c.observed = Report.observed /\ Report.observed \in Nat /\ c.distance \in Nat
      /\ c.distance <= Report.distance /\ Report.distance \in Nat
  BY SampleIs, ReportIs
<1>2. Movement!Quality(c) # "uncertain" /\ 2 * c.distance >= c.observed
  BY DEF Movement!selection_eligible
<1>. HIDE DEF c
<1>3. Report.observed >= UsableDuration
  <2>1. c.observed >= StrongDuration \/ c.observed >= UsableDuration BY <1>2 DEF Movement!Quality
  <2>. QED BY <1>1, <2>1, MovementGiven
<1>4. Report.distance > 0 BY <1>1, <1>2, <1>3, MovementGiven
<1>5. Counted # {}
  <2>1. Report.observed = Total(Gaps, Counted) BY ReportIs
  <2>2. Total(Gaps, {}) = 0 BY TotalEmpty
  <2>3. Report.observed > 0 BY <1>1, <1>3, MovementGiven
  <2>. QED BY <2>1, <2>2, <2>3
<1>6. Cardinality(Counted) # 0
  <2>1. IsFiniteSet(Counted) BY PairsAre
  <2>. QED BY <1>5, <2>1, FS_EmptySet
<1>. QED BY <1>3, <1>4, <1>5, <1>6, TimelineGrows

\* Of intervals no longer than the gap, so much time takes so many.
LEMMA TimeTakesIntervals ==
    ASSUME MovementInv, Report.observed >= StrongDuration
    PROVE  Cardinality(Counted) >= MinObservations - 1
<1>1. \A i \in Counted : Gaps[i] \in 0 .. MeasuredGap BY PairsAre, MovementGiven
<1>2. Total(Gaps, Counted) <= Cardinality(Counted) * MeasuredGap /\ Cardinality(Counted) \in Nat
  BY <1>1, PairsAre, MovementGiven, TotalBound
<1>. DEFINE many == Cardinality(Counted)
<1>3. StrongDuration <= many * MeasuredGap /\ StrongDuration > MeasuredGap * (MinObservations - 2)
  BY <1>2, ReportIs, MovementGiven
<1>4. SUFFICES ASSUME ~(many >= MinObservations - 1) PROVE FALSE OBVIOUS
<1>5. many \in Nat /\ many <= MinObservations - 2 BY <1>2, <1>4, MovementGiven
<1>. HIDE DEF many
<1>6. \A m, g \in Nat, b \in Int : m <= b => m * g <= g * b
  <2>. SUFFICES ASSUME NEW m \in Nat, NEW g \in Nat, NEW b \in Int, m <= b PROVE m * g <= g * b OBVIOUS
  <2>1. g * b = g * m + g * (b - m) /\ b - m \in Nat OBVIOUS
  <2>2. g * (b - m) \in Nat BY <2>1
  <2>. QED BY <2>1, <2>2
<1>7. many * MeasuredGap <= MeasuredGap * (MinObservations - 2) BY <1>5, <1>6, MovementGiven
<1>. QED BY <1>3, <1>5, <1>7, MovementGiven

\* What may be selected can be measured; what is ready has the evidence.
LEMMA ReadyMeasured == ASSUME MovementInv PROVE Movement!ReadyIsMeasurable
<1>1. ASSUME NEW clear \in BOOLEAN, Movement!selection_eligible(Sample(clear)),
             NEW upload, Readiness(upload, Sample(clear)) # "unsuitable"
      PROVE  Movement!generate_match_iq(Report, Readiness(upload, Sample(clear))).reason = "none"
  <2>. DEFINE r == Readiness(upload, Sample(clear))
  <2>1. Sample(clear).frames \in Nat /\ Sample(clear).observed = Report.observed BY SampleIs
  <2>2. ~(Report.observed < StrongDuration) BY <1>1, <2>1, ReadinessIs
  <2>3. Report.observed \in Nat /\ Report.tracked = Report.observed BY ReportIs
  <2>4. Report.observed >= StrongDuration BY <2>2, <2>3, MovementGiven
  <2>5. Report.timeline >= MinObservations /\ Report.timeline \in Nat
    BY <1>1, <2>4, SelectableIs, TimeTakesIntervals, MovementGiven
  <2>6. Report.tracked >= MinTracked BY <2>3, <2>4, MovementGiven
  <2>7. ~(Report.timeline < MinObservations) /\ ~(Report.tracked < MinTracked)
    BY <2>3, <2>5, <2>6, MovementGiven
  <2>8. r # "unsuitable" BY <1>1
  <2>. HIDE DEF r
  <2>9. Movement!InsufficientReason(Report, r) = "none" BY <2>7, <2>8 DEF Movement!InsufficientReason
  <2>10. Movement!generate_match_iq(Report, r).reason = "none" BY <2>9 DEF Movement!generate_match_iq
  <2>. QED BY <2>10 DEF r
<1>. QED BY <1>1, SelectableIs DEF Movement!ReadyIsMeasurable, Report, Sample, Readiness

\* Who calls a recording unsuitable is not overruled by readiness.
LEMMA VerdictsRespected == ASSUME MovementInv PROVE Movement!VerdictsAgree
<1>. DEFINE c == Sample(TRUE)
<1>1. c.frames \in Nat /\ c.frames = Len(stream) BY SampleIs
<1>. HIDE DEF c
<1>2. ASSUME NEW m \in Videos,
             \/ Movement!assess_upload_preflight(m) = "unsuitable" \/ Movement!Quality(c) = "uncertain"
             \/ Movement!assess_recording_suitability(m, c) = "unsuitable"
      PROVE  Readiness(Movement!assess_upload_preflight(m), c) = "unsuitable"
  <2>. DEFINE upload == Movement!assess_upload_preflight(m)
  <2>1. CASE upload = "unsuitable"
    <3>. HIDE DEF upload
    <3>1. Readiness(upload, c) = "unsuitable" BY <1>1, <2>1, ReadinessIs
    <3>. QED BY <3>1 DEF upload
  <2>2. CASE Movement!Quality(c) = "uncertain"
    <3>1. ~Movement!selection_eligible(c) BY <2>2 DEF Movement!selection_eligible
    <3>. HIDE DEF upload
    <3>2. Readiness(upload, c) = "unsuitable" BY <1>1, <3>1, ReadinessIs
    <3>. QED BY <3>2 DEF upload
  <2>3. CASE Movement!assess_recording_suitability(m, c) = "unsuitable"
    <3>1. m.seconds < 3 \/ c.frames = 0 BY <2>3 DEF Movement!assess_recording_suitability
    <3>2. CASE c.frames = 0
      <4>. HIDE DEF upload
      <4>1. Readiness(upload, c) = "unsuitable" BY <1>1, <3>2, ReadinessIs
      <4>. QED BY <4>1 DEF upload
    <3>3. CASE m.seconds < 3
      <4>1. Videos \subseteq [vertical : BOOLEAN, edge : Nat, fps : Nat, seconds : Nat]
        BY WellFormed DEF WellFormed, Movement!EvidenceAssumption
      <4>2. m.seconds \in Nat /\ m.vertical \in BOOLEAN BY <4>1
      <4>3. m.seconds < 10 BY <3>3, <4>2
      <4>. DEFINE failures == Movement!Named("resolution_too_low", m.edge < 480)
                       \union Movement!Named("fps_too_low", m.fps < 15)
                       \union Movement!Named("recording_too_short", m.seconds < 10)
                  warnings == Movement!Named("vertical_orientation", m.vertical)
                       \union Movement!Named("resolution_below_minimum", m.edge \in 480 .. 719)
                       \union Movement!Named("fps_below_minimum", m.fps \in 15 .. 23)
                  excellent == ~m.vertical /\ m.edge >= 1080 /\ m.fps >= 30 /\ m.seconds >= 60
      <4>4. upload = Movement!Level(failures, warnings, excellent) BY DEF Movement!assess_upload_preflight
      <4>5. failures # {} BY <4>3 DEF Movement!Named
      <4>6. excellent \in BOOLEAN OBVIOUS
      <4>. HIDE DEF failures, warnings, excellent
      <4>7. upload = "unsuitable" BY <4>4, <4>5, <4>6, LevelIs
      <4>. QED BY <2>1, <4>7
    <3>. QED BY <3>1, <3>2, <3>3
  <2>. QED BY <1>2, <2>1, <2>2, <2>3
<1>. QED BY <1>2 DEF Movement!VerdictsAgree, Readiness, Sample, c

\* What a gate that lets advice through has looked at.
LEMMA AdvisingIs ==
    ASSUME MovementInv, NEW clear \in BOOLEAN, NEW upload,
           Movement!Advising(Movement!quality_gate(Report, Readiness(upload, Sample(clear))))
    PROVE  /\ stream # <<>> /\ Report.gap = 0 /\ Report.fragments = 1
           /\ Movement!Span(stream) = Report.observed /\ Report.observed >= CautiousDuration
           /\ upload \notin {"unsuitable", "limited"} /\ Movement!Quality(Sample(clear)) = "strong"
           /\ Movement!quality_gate(Report, Readiness(upload, Sample(clear))) = "NORMAL" => upload = "excellent"
<1>. DEFINE c == Sample(clear)
            r == Readiness(upload, Sample(clear))
            gate == Movement!quality_gate(Report, r)
<1>1. gate \in {"NORMAL", "CAUTIOUS"} BY DEF Movement!Advising
<1>2. /\ Report.gap = Movement!Span(stream) - Report.observed /\ Report.observed \in Nat
      /\ Movement!Span(stream) \in Nat /\ Report.observed <= Movement!Span(stream)
      /\ Report.fragments = Cardinality({stream[i].track : i \in DOMAIN stream})
  BY ReportIs
<1>3. /\ r # "unsuitable" /\ r # "limited" /\ ~(Report.fragments > 1) /\ ~(Report.gap > 0)
      /\ ~(Report.observed < CautiousDuration) /\ (gate = "NORMAL" => r # "good")
  <2>. HIDE DEF r
  <2>. QED BY <1>1 DEF Movement!quality_gate
<1>4. Report.gap = 0 /\ Movement!Span(stream) = Report.observed /\ Report.observed >= CautiousDuration
  BY <1>2, <1>3, MovementGiven
<1>5. c.frames \in Nat /\ c.frames = Len(stream) /\ c.fragments = Report.fragments BY SampleIs
<1>6. /\ upload # "unsuitable" /\ upload # "limited" /\ Movement!Quality(c) = "strong" /\ c.frames # 0
      /\ r \in {"unsuitable", "limited", "good", "excellent"} /\ (r = "excellent" => upload = "excellent")
  <2>. HIDE DEF c
  <2>1. r = Readiness(upload, c) BY DEF c
  <2>. HIDE DEF r
  <2>. QED BY <1>3, <1>5, <2>1, ReadinessIs
<1>7. stream # <<>> BY <1>5, <1>6, PairsAre
<1>8. Report.fragments = 1
  <2>. DEFINE Used == {stream[i].track : i \in DOMAIN stream}
              used == [i \in 1 .. Len(stream) |-> stream[i].track]
  <2>1. stream \in Seq(Observation) /\ Len(stream) \in Nat /\ DOMAIN stream = 1 .. Len(stream)
    BY LenProperties DEF MovementInv
  <2>2. IsFiniteSet(Used)
    <3>1. used \in Surjection(1 .. Len(stream), Used) BY <2>1 DEF Surjection
    <3>2. IsFiniteSet(1 .. Len(stream)) BY <2>1, FS_Interval
    <3>. HIDE DEF Used, used
    <3>. QED BY <3>1, <3>2, FS_Surjection
  <2>3. Used # {}
    <3>1. 1 \in DOMAIN stream BY <1>5, <1>6, <2>1
    <3>. QED BY <3>1
  <2>4. Report.fragments = Cardinality(Used) BY <1>2
  <2>. HIDE DEF Used
  <2>5. Cardinality(Used) \in Nat /\ Cardinality(Used) # 0
    BY <2>2, <2>3, FS_CardinalityType, FS_EmptySet
  <2>. QED BY <1>3, <2>4, <2>5
<1>9. gate = "NORMAL" => upload = "excellent" BY <1>3, <1>6
<1>. QED BY <1>4, <1>6, <1>7, <1>8, <1>9

\* No time is missing, so no interval is, and the track never changes.
LEMMA AdviceEarned == ASSUME MovementInv PROVE Movement!AdviceIsEarned
<1>1. ASSUME NEW clear \in BOOLEAN, NEW upload,
             Movement!Advising(Movement!quality_gate(Report, Readiness(upload, Sample(clear))))
      PROVE  Movement!Continuous
  <2>1. /\ stream # <<>> /\ Report.fragments = 1 /\ Movement!Span(stream) = Report.observed
        /\ Report.observed >= CautiousDuration
    BY <1>1, AdvisingIs
  <2>2. stream \in Seq(Observation) /\ Len(stream) \in Nat /\ DOMAIN stream = 1 .. Len(stream) /\ Len(stream) # 0
    BY <2>1, LenProperties, EmptySeq DEF MovementInv
  <2>3. /\ Counted \in SUBSET Pairs /\ IsFiniteSet(Pairs)
        /\ \A i \in Pairs : Gaps[i] \in Nat \ {0} /\ Gaps[i] = stream[i + 1].at - stream[i].at
    BY PairsAre
  <2>4. Total(Gaps, Pairs \ Counted) = 0
    <3>1. /\ Movement!Span(stream) = Report.observed + Total(Gaps, Pairs \ Counted)
          /\ Total(Gaps, Pairs \ Counted) \in Nat /\ Report.observed \in Nat
      BY <2>1, ReportIs
    <3>. QED BY <2>1, <3>1
  <2>5. Counted = Pairs
    <3>. SUFFICES ASSUME NEW i \in Pairs \ Counted PROVE FALSE BY <2>3
    <3>1. IsFiniteSet(Pairs \ Counted) BY <2>3, FS_Difference
    <3>2. Gaps[i] <= 0 BY <2>3, <2>4, <3>1, TotalMember
    <3>. QED BY <2>3, <3>2
  <2>6. Len(stream) > 1
    <3>. SUFFICES ASSUME ~(Len(stream) > 1) PROVE FALSE OBVIOUS
    <3>1. Pairs = {} BY <2>2 DEF Pairs
    <3>2. Counted = {} BY <2>5, <3>1
    <3>3. Report.observed = 0 BY <3>2, TotalEmpty, ReportIs
    <3>. QED BY <2>1, <3>3, MovementGiven
  <2>7. \A i \in Pairs : Gaps[i] <= MeasuredGap /\ stream[i].seen /\ stream[i + 1].seen BY <2>5, PairsAre
  <2>8. ASSUME NEW i \in 1 .. Len(stream) PROVE stream[i].seen
    <3>1. CASE i < Len(stream)
      <4>1. i \in Pairs BY <2>2, <3>1 DEF Pairs
      <4>. QED BY <2>7, <4>1
    <3>2. CASE i = Len(stream)
      <4>1. i - 1 \in Pairs /\ (i - 1) + 1 = i BY <2>2, <2>6, <3>2 DEF Pairs
      <4>2. stream[(i - 1) + 1].seen BY <2>7, <4>1
      <4>. QED BY <4>1, <4>2
    <3>3. Len(stream) \in Nat BY <2>2
    <3>4. i < Len(stream) \/ i = Len(stream) BY <3>3
    <3>. QED BY <3>1, <3>2, <3>4
  <2>9. ASSUME NEW i \in 1 .. Len(stream) PROVE stream[i].track = stream[1].track
    <3>. DEFINE Used == {stream[j].track : j \in DOMAIN stream}
                used == [j \in 1 .. Len(stream) |-> stream[j].track]
    <3>1. used \in Surjection(1 .. Len(stream), Used) BY <2>2 DEF Surjection
    <3>2. Cardinality(Used) = 1 BY <2>1, ReportIs
    <3>3. 1 \in DOMAIN stream /\ i \in DOMAIN stream BY <2>2
    <3>4. stream[1].track \in Used /\ stream[i].track \in Used BY <3>3
    <3>. HIDE DEF Used, used
    <3>5. IsFiniteSet(1 .. Len(stream)) BY <2>2, FS_Interval
    <3>6. IsFiniteSet(Used) BY <3>1, <3>5, FS_Surjection
    <3>7. PICK x : Used = {x} BY <3>2, <3>6, FS_Singleton
    <3>. QED BY <3>4, <3>7
  <2>10. ASSUME NEW i \in 1 .. Len(stream), i > 1 PROVE stream[i].at - stream[i - 1].at <= MeasuredGap
    <3>1. i - 1 \in Pairs /\ (i - 1) + 1 = i BY <2>2, <2>10 DEF Pairs
    <3>2. Gaps[i - 1] = stream[(i - 1) + 1].at - stream[i - 1].at /\ Gaps[i - 1] <= MeasuredGap
      BY <2>3, <2>7, <3>1
    <3>. QED BY <3>1, <3>2
  <2>. QED BY <2>2, <2>8, <2>9, <2>10 DEF Movement!Continuous
<1>2. ASSUME NEW clear \in BOOLEAN, NEW upload,
             LET report == Movement!generate_match_iq(Report, Readiness(upload, Sample(clear)))
             IN  report.focus # "none" \/ (\E k \in DOMAIN report.insights : report.insights[k].interpreted)
      PROVE  LET report == Movement!generate_match_iq(Report, Readiness(upload, Sample(clear)))
             IN  /\ Movement!Continuous /\ Movement!Span(stream) >= CautiousDuration
                 /\ upload \notin {"unsuitable", "limited"} /\ Movement!Quality(Sample(clear)) = "strong"
                 /\ report.gate = "NORMAL" => upload = "excellent"
                 /\ report.confidence.tracking = "MODERATE" /\ report.limitations = {}
  <2>. DEFINE r == Readiness(upload, Sample(clear))
              gate == Movement!quality_gate(Report, r)
              report == Movement!generate_match_iq(Report, r)
              confidence == Movement!Confidence(Report, r, gate)
              rules == IF gate = "INSUFFICIENT_EVIDENCE" THEN <<>> ELSE Movement!Insights(Report)
              kept == [k \in DOMAIN rules |-> Movement!Insight(rules[k], gate, confidence)]
  <2>1. /\ report.gate = gate /\ report.insights = kept /\ report.confidence = confidence
        /\ report.limitations = Movement!Warnings(Report)
        /\ report.focus = IF Movement!Advising(gate) /\ kept # <<>> /\ kept[1].action THEN kept[1].rule ELSE "none"
    <3>. HIDE DEF r
    <3>. QED BY DEF Movement!generate_match_iq
  <2>2. Movement!Advising(gate)
    <3>1. CASE report.focus # "none"
      <4>. HIDE DEF report, kept, gate
      <4>. QED BY <2>1, <3>1
    <3>2. CASE \E k \in DOMAIN report.insights : report.insights[k].interpreted
      <4>1. PICK k \in DOMAIN report.insights : report.insights[k].interpreted BY <3>2
      <4>2. report.insights = kept BY <2>1
      <4>. HIDE DEF report, gate, rules, confidence
      <4>3. k \in DOMAIN rules /\ kept[k].interpreted BY <4>1, <4>2
      <4>4. kept[k] = Movement!Insight(rules[k], gate, confidence) BY <4>3
      <4>5. kept[k].interpreted = Movement!Advising(gate) BY <4>4 DEF Movement!Insight
      <4>. QED BY <4>3, <4>5
    <3>. QED BY <1>2, <3>1, <3>2
  <2>3. Movement!Continuous BY <1>1, <2>2
  <2>4. /\ Report.gap = 0 /\ Report.fragments = 1
        /\ Movement!Span(stream) = Report.observed /\ Report.observed >= CautiousDuration
        /\ upload \notin {"unsuitable", "limited"} /\ Movement!Quality(Sample(clear)) = "strong"
        /\ gate = "NORMAL" => upload = "excellent"
    BY <2>2, AdvisingIs
  <2>5. confidence.tracking = "MODERATE"
    <3>. HIDE DEF r, gate
    <3>. QED BY <2>4 DEF Movement!Confidence
  <2>6. Movement!Warnings(Report) = {}
    <3>1. ~(Report.fragments > 1) /\ ~(Report.gap > 0) BY <2>4
    <3>. QED BY <3>1 DEF Movement!Warnings, Movement!Named
  <2>7. Movement!Span(stream) >= CautiousDuration BY <2>4
  <2>8. /\ report.gate = gate /\ report.confidence.tracking = "MODERATE" /\ report.limitations = {}
    <3>. HIDE DEF report, gate, confidence, kept
    <3>. QED BY <2>1, <2>5, <2>6
  <2>. QED BY <2>3, <2>4, <2>7, <2>8
<1>. QED BY <1>2 DEF Movement!AdviceIsEarned, Report, Sample, Readiness
\* The insights, and the names in a list of them.
RuleNames == {"high-baseline", "high-kitchen", "high-transition", "low-transition",
              "distribution", "short-distance", "measured"}
Names(s) == {s[i] : i \in 1 .. Len(s)}

\* A rule adds its name to those found, or nothing.
LEMMA RuleAdds ==
    ASSUME NEW found \in Seq(RuleNames), NEW name \in RuleNames, NEW holds \in BOOLEAN
    PROVE  LET more == found \o Movement!Rule(name, holds)
           IN  /\ more \in Seq(RuleNames)
               /\ Len(more) = Len(found) + (IF holds THEN 1 ELSE 0)
               /\ Names(more) = Names(found) \union (IF holds THEN {name} ELSE {})
<1>. DEFINE rule == Movement!Rule(name, holds)
            more == found \o rule
<1>1. rule = IF holds THEN <<name>> ELSE <<>> BY DEF Movement!Rule
<1>2. /\ rule \in Seq(RuleNames) /\ Len(rule) = (IF holds THEN 1 ELSE 0) /\ (holds => rule[1] = name)
  BY <1>1, EmptySeq
<1>. HIDE DEF rule
<1>3. /\ more \in Seq(RuleNames) /\ Len(more) = Len(found) + Len(rule)
      /\ \A i \in 1 .. Len(more) : more[i] = IF i <= Len(found) THEN found[i] ELSE rule[i - Len(found)]
  BY <1>2, ConcatProperties
<1>4. Len(found) \in Nat BY LenProperties
<1>. HIDE DEF more
<1>5. ASSUME NEW x
      PROVE  (\E i \in 1 .. Len(more) : x = more[i]) <=> (\E i \in 1 .. Len(found) : x = found[i]) \/ (holds /\ x = name)
  <2>1. ASSUME NEW i \in 1 .. Len(more), x = more[i]
        PROVE  (\E j \in 1 .. Len(found) : x = found[j]) \/ (holds /\ x = name)
    <3>1. CASE i <= Len(found)
      <4>1. i \in 1 .. Len(found) /\ more[i] = found[i] BY <1>2, <1>3, <1>4, <3>1
      <4>. QED BY <2>1, <4>1
    <3>2. CASE ~(i <= Len(found))
      <4>1. holds /\ i - Len(found) = 1 /\ more[i] = rule[i - Len(found)] BY <1>2, <1>3, <1>4, <3>2
      <4>2. more[i] = name BY <1>2, <4>1
      <4>. QED BY <2>1, <4>1, <4>2
    <3>. QED BY <3>1, <3>2
  <2>2. ASSUME NEW i \in 1 .. Len(found), x = found[i] PROVE \E j \in 1 .. Len(more) : x = more[j]
    <3>1. i \in 1 .. Len(more) /\ more[i] = found[i] BY <1>2, <1>3, <1>4
    <3>. QED BY <2>2, <3>1
  <2>3. ASSUME holds, x = name PROVE \E j \in 1 .. Len(more) : x = more[j]
    <3>. DEFINE end == Len(found) + 1
    <3>1. end \in 1 .. Len(more) /\ ~(end <= Len(found)) /\ end - Len(found) = 1 BY <1>2, <1>3, <1>4, <2>3
    <3>2. more[end] = name BY <1>2, <1>3, <2>3, <3>1
    <3>. HIDE DEF end
    <3>. QED BY <2>3, <3>1, <3>2
  <2>. QED BY <2>1, <2>2, <2>3
<1>6. Names(more) = Names(found) \union (IF holds THEN {name} ELSE {}) BY <1>5 DEF Names
<1>. QED BY <1>2, <1>3, <1>6 DEF more, rule

\* The insights are the rules that hold: four are never exceeded.
LEMMA InsightsAre ==
    ASSUME MovementInv, Report.tracked > 0
    PROVE  \A x : x \in Movement!ToSet(Movement!Insights(Report)) <=>
              \/ Movement!High(Report, 1) /\ x = "high-baseline"
              \/ Movement!High(Report, 3) /\ x = "high-kitchen"
              \/ Movement!High(Report, 2) /\ x = "high-transition"
              \/ Movement!Low(Report, 2) /\ x = "low-transition"
              \/ Movement!Distributed(Report) /\ x = "distribution"
              \/ Movement!ShortDistance(Report) /\ x = "short-distance"
              \/ x = "measured"
<1>. DEFINE h1 == Movement!High(Report, 1)
            h2 == Movement!High(Report, 2)
            h3 == Movement!High(Report, 3)
            l2 == Movement!Low(Report, 2)
            d == Movement!Distributed(Report)
            short == Movement!ShortDistance(Report)
            s1 == Movement!Rule("high-baseline", h1)
            s2 == s1 \o Movement!Rule("high-kitchen", h3)
            s3 == s2 \o Movement!Rule("high-transition", h2)
            s4 == s3 \o Movement!Rule("low-transition", l2)
            s5 == s4 \o Movement!Rule("distribution", d)
            s6 == s5 \o Movement!Rule("short-distance", short)
            found == s6 \o <<"measured">>
            One(b) == IF b THEN 1 ELSE 0
            Only(b, name) == IF b THEN {name} ELSE {}
<1>1. /\ h1 \in BOOLEAN /\ h2 \in BOOLEAN /\ h3 \in BOOLEAN /\ l2 \in BOOLEAN /\ d \in BOOLEAN /\ short \in BOOLEAN
  BY DEF Movement!High, Movement!Low, Movement!Distributed, Movement!ShortDistance
<1>2. Movement!Insights(Report) = SubSeq(found, 1, IF Len(found) < 4 THEN Len(found) ELSE 4)
  BY DEF Movement!Insights
<1>3. /\ ~(h1 /\ h2) /\ ~(h1 /\ h3) /\ ~(h2 /\ h3) /\ ~(h2 /\ l2)
      /\ d => ~h1 /\ ~h2 /\ ~h3 /\ ~l2
  <2>1. /\ Report.zones[1] \in Nat /\ Report.zones[2] \in Nat /\ Report.zones[3] \in Nat
        /\ Report.tracked = Report.zones[1] + Report.zones[2] + Report.zones[3]
        /\ DOMAIN Movement!Zones = 1 .. 3
    BY ReportIs
  <2>2. d => ~h1 /\ ~h2 /\ ~h3 /\ ~l2
    <3>1. 1 \in DOMAIN Movement!Zones /\ 2 \in DOMAIN Movement!Zones /\ 3 \in DOMAIN Movement!Zones BY <2>1
    <3>. QED BY <3>1 DEF Movement!Distributed
  <2>3. /\ h1 <=> 100 * Report.zones[1] >= 55 * Report.tracked
        /\ h2 <=> 100 * Report.zones[2] >= 55 * Report.tracked
        /\ h3 <=> 100 * Report.zones[3] >= 55 * Report.tracked
        /\ l2 <=> 100 * Report.zones[2] <= 20 * Report.tracked
    BY DEF Movement!High, Movement!Low
  <2>4. ~(h1 /\ h2) /\ ~(h1 /\ h3) /\ ~(h2 /\ h3) /\ ~(h2 /\ l2) BY <2>1, <2>3
  <2>. QED BY <2>2, <2>4
<1>. HIDE DEF h1, h2, h3, l2, d, short
<1>4. s1 \in Seq(RuleNames) /\ Len(s1) = One(h1) /\ Names(s1) = Only(h1, "high-baseline")
  <2>1. CASE h1
    <3>1. s1 = <<"high-baseline">> BY <2>1 DEF Movement!Rule
    <3>0. "high-baseline" \in RuleNames BY DEF RuleNames
    <3>2. Len(s1) = 1 /\ s1[1] = "high-baseline" /\ s1 \in Seq(RuleNames)
      <4>. HIDE DEF s1
      <4>. QED BY <3>0, <3>1
    <3>3. Names(s1) = {"high-baseline"} BY <3>2 DEF Names
    <3>. QED BY <2>1, <3>2, <3>3
  <2>2. CASE ~h1
    <3>1. s1 = <<>> BY <2>2 DEF Movement!Rule
    <3>2. Len(s1) = 0 /\ s1 \in Seq(RuleNames) BY <3>1, EmptySeq
    <3>3. Names(s1) = {} BY <3>2 DEF Names
    <3>. QED BY <2>2, <3>2, <3>3
  <2>. QED BY <2>1, <2>2
<1>. HIDE DEF s1
<1>5. s2 \in Seq(RuleNames) /\ Len(s2) = Len(s1) + One(h3) /\ Names(s2) = Names(s1) \union Only(h3, "high-kitchen")
  BY <1>1, <1>4, RuleAdds DEF RuleNames
<1>. HIDE DEF s2
<1>6. s3 \in Seq(RuleNames) /\ Len(s3) = Len(s2) + One(h2) /\ Names(s3) = Names(s2) \union Only(h2, "high-transition")
  BY <1>1, <1>5, RuleAdds DEF RuleNames
<1>. HIDE DEF s3
<1>7. s4 \in Seq(RuleNames) /\ Len(s4) = Len(s3) + One(l2) /\ Names(s4) = Names(s3) \union Only(l2, "low-transition")
  BY <1>1, <1>6, RuleAdds DEF RuleNames
<1>. HIDE DEF s4
<1>8. s5 \in Seq(RuleNames) /\ Len(s5) = Len(s4) + One(d) /\ Names(s5) = Names(s4) \union Only(d, "distribution")
  BY <1>1, <1>7, RuleAdds DEF RuleNames
<1>. HIDE DEF s5
<1>9. s6 \in Seq(RuleNames) /\ Len(s6) = Len(s5) + One(short) /\ Names(s6) = Names(s5) \union Only(short, "short-distance")
  BY <1>1, <1>8, RuleAdds DEF RuleNames
<1>. HIDE DEF s6
<1>10. found \in Seq(RuleNames) /\ Len(found) = Len(s6) + 1 /\ Names(found) = Names(s6) \union {"measured"}
  <2>1. Movement!Rule("measured", TRUE) = <<"measured">> BY DEF Movement!Rule
  <2>2. found = s6 \o Movement!Rule("measured", TRUE) BY <2>1
  <2>3. LET more == s6 \o Movement!Rule("measured", TRUE)
        IN  more \in Seq(RuleNames) /\ Len(more) = Len(s6) + 1 /\ Names(more) = Names(s6) \union {"measured"}
    BY <1>9, RuleAdds DEF RuleNames
  <2>. QED BY <2>2, <2>3
<1>. HIDE DEF found
<1>11. Len(found) \in 1 .. 4
  <2>1. Len(found) = One(h1) + One(h3) + One(h2) + One(l2) + One(d) + One(short) + 1
    BY <1>1, <1>4, <1>5, <1>6, <1>7, <1>8, <1>9, <1>10
  <2>. QED BY <1>1, <1>3, <2>1
<1>12. Movement!Insights(Report) = SubSeq(found, 1, Len(found))
  <2>1. (IF Len(found) < 4 THEN Len(found) ELSE 4) = Len(found) BY <1>11
  <2>. QED BY <1>2, <2>1
<1>13. Movement!ToSet(Movement!Insights(Report)) = Names(found)
  <2>. DEFINE kept == SubSeq(found, 1, Len(found))
  <2>1. /\ kept \in Seq(RuleNames) /\ Len(kept) = Len(found)
        /\ \A i \in 1 .. Len(found) : kept[i] = found[i]
    BY <1>10, <1>11, SubSeqProperties
  <2>2. DOMAIN kept = 1 .. Len(found)
    <3>. HIDE DEF kept
    <3>. QED BY <2>1, LenProperties
  <2>. HIDE DEF kept
  <2>3. Movement!ToSet(kept) = Names(found) BY <2>1, <2>2 DEF Movement!ToSet, Names
  <2>. QED BY <1>12, <2>3 DEF kept
<1>14. \A x : x \in Names(found) <=>
          \/ h1 /\ x = "high-baseline"
          \/ h3 /\ x = "high-kitchen"
          \/ h2 /\ x = "high-transition"
          \/ l2 /\ x = "low-transition"
          \/ d /\ x = "distribution"
          \/ short /\ x = "short-distance"
          \/ x = "measured"
  <2>1. \A x, name : \A b \in BOOLEAN : x \in Only(b, name) <=> b /\ x = name OBVIOUS
  <2>. HIDE DEF Only
  <2>. SUFFICES ASSUME NEW x
                PROVE  x \in Names(found) <=>
          \/ h1 /\ x = "high-baseline"
          \/ h3 /\ x = "high-kitchen"
          \/ h2 /\ x = "high-transition"
          \/ l2 /\ x = "low-transition"
          \/ d /\ x = "distribution"
          \/ short /\ x = "short-distance"
          \/ x = "measured"
    OBVIOUS
  <2>2. x \in Names(s1) <=> h1 /\ x = "high-baseline" BY <1>1, <1>4, <2>1
  <2>3. x \in Names(s2) <=> x \in Names(s1) \/ (h3 /\ x = "high-kitchen") BY <1>1, <1>5, <2>1
  <2>4. x \in Names(s3) <=> x \in Names(s2) \/ (h2 /\ x = "high-transition") BY <1>1, <1>6, <2>1
  <2>5. x \in Names(s4) <=> x \in Names(s3) \/ (l2 /\ x = "low-transition") BY <1>1, <1>7, <2>1
  <2>6. x \in Names(s5) <=> x \in Names(s4) \/ (d /\ x = "distribution") BY <1>1, <1>8, <2>1
  <2>7. x \in Names(s6) <=> x \in Names(s5) \/ (short /\ x = "short-distance") BY <1>1, <1>9, <2>1
  <2>8. x \in Names(found) <=> x \in Names(s6) \/ x = "measured" BY <1>10
  <2>. QED BY <2>2, <2>3, <2>4, <2>5, <2>6, <2>7, <2>8
<1>. QED BY <1>13, <1>14, Zenon DEF h1, h2, h3, l2, d, short

\* Shares of one whole: two of them cannot both be 55 percent of it.
LEMMA InsightsAgreed == ASSUME MovementInv PROVE Movement!InsightsAgree
<1>. USE MovementGiven
<1>. DEFINE found == Movement!ToSet(Movement!Insights(Report))
            high == {"high-baseline", "high-kitchen", "high-transition"}
<1>1. Movement!quality_gate(Report, "good") = "INSUFFICIENT_EVIDENCE"
         <=> Movement!InsufficientReason(Report, "good") # "none"
  BY DEF Movement!quality_gate, Movement!InsufficientReason
<1>2. ASSUME Report.tracked > 0
      PROVE  /\ "measured" \in found /\ Cardinality(found \intersect high) <= 1
             /\ "distribution" \in found => found \intersect (high \union {"low-transition"}) = {}
  <2>1. /\ Report.zones[1] \in Nat /\ Report.zones[2] \in Nat /\ Report.zones[3] \in Nat
        /\ Report.tracked = Report.zones[1] + Report.zones[2] + Report.zones[3]
        /\ DOMAIN Movement!Zones = 1 .. 3
    BY ReportIs
  <2>2. /\ ~(Movement!High(Report, 1) /\ Movement!High(Report, 2))
        /\ ~(Movement!High(Report, 1) /\ Movement!High(Report, 3))
        /\ ~(Movement!High(Report, 2) /\ Movement!High(Report, 3))
    BY <1>2, <2>1 DEF Movement!High
  <2>3. Movement!Distributed(Report) =>
            /\ ~Movement!High(Report, 1) /\ ~Movement!High(Report, 2) /\ ~Movement!High(Report, 3)
            /\ ~Movement!Low(Report, 2)
    <3>1. 1 \in DOMAIN Movement!Zones /\ 2 \in DOMAIN Movement!Zones /\ 3 \in DOMAIN Movement!Zones BY <2>1
    <3>. QED BY <3>1 DEF Movement!Distributed
  <2>4. /\ "measured" \in found
        /\ "high-baseline" \in found <=> Movement!High(Report, 1)
        /\ "high-kitchen" \in found <=> Movement!High(Report, 3)
        /\ "high-transition" \in found <=> Movement!High(Report, 2)
        /\ "low-transition" \in found <=> Movement!Low(Report, 2)
        /\ "distribution" \in found <=> Movement!Distributed(Report)
    BY <1>2, InsightsAre
  <2>. HIDE DEF found
  <2>5. Cardinality(found \intersect high) <= 1
    <3>1. \A x, y \in found \intersect high : x = y BY <2>2, <2>4
    <3>2. CASE found \intersect high = {} BY <3>2, FS_EmptySet
    <3>3. CASE found \intersect high # {}
      <4>1. PICK x : x \in found \intersect high BY <3>3
      <4>2. found \intersect high = {x} BY <3>1, <4>1
      <4>3. Cardinality({x}) = 1 BY FS_Singleton
      <4>. QED BY <4>2, <4>3
    <3>. QED BY <3>2, <3>3
  <2>6. "distribution" \in found => found \intersect (high \union {"low-transition"}) = {}
    BY <2>3, <2>4
  <2>. QED BY <2>4, <2>5, <2>6
<1>. QED BY <1>1, <1>2 DEF Movement!InsightsAgree, Report

\* For any recording, thresholds in their order and gap of observation: what is
\* measured of a candidate adds up, readiness never promises evidence that Match
\* IQ misses, and advice rests on one track without a gap (generate_match_analytics,
\* assess_analysis_readiness, generate_match_iq).
THEOREM MeasurementTheorem == Spec => []MeasurementHonest
<1>1. Init => MovementInv BY MovementInit DEF Init
<1>2. MovementInv /\ [Next]_vars => MovementInv'
  <2>. SUFFICES ASSUME MovementInv, [Next]_vars PROVE MovementInv' OBVIOUS
  <2>1. [Movement!Next]_movementVars BY DEF Next, vars
  <2>. QED BY <2>1, MovementStep
<1>3. MovementInv => MeasurementHonest
  BY MovementTyped, TimeIsShared, ReadyMeasured, AdviceEarned, InsightsAgreed, VerdictsRespected
  DEF MeasurementHonest
<1>. QED BY <1>1, <1>2, <1>3, PTL DEF Spec

-----------------------------------------------------------------------------
(* Active play: what the model asks of its parameters, and a player's motion. *)
\* What the parameters of the estimate are; its cardinality is the usual one.
LEMMA PlayGiven ==
    /\ IsFiniteSet(Players) /\ Ticks \in Nat /\ MinContext \in Nat /\ MinMoving \in Nat
    /\ MotionGap \in 1 .. 3 /\ WindowTicks \in Nat \ {0} /\ MinTogether \in Nat \ {0}
    /\ Play!Time = 0 .. (Ticks - 1) /\ IsFiniteSet(Play!Time)
    /\ \A T : Play!Cardinality(T) = Cardinality(T)
    /\ \A s \in Scenes : /\ s.length \in 1 .. Ticks /\ s.suitable \in BOOLEAN /\ s.current \in BOOLEAN
                         /\ \A p \in Players :
                               /\ s.players[p] \in Play!Candidate
                               /\ \A t \in Play!Time : t >= s.length => s.players[p].motion[t] = "none"
<1>1. Play!MotionAssumption BY WellFormed DEF WellFormed
<1>2. \A T : Play!Cardinality(T) = Cardinality(T)
  BY DEF Play!Cardinality, Play!IsFiniteSet, Cardinality, IsFiniteSet
<1>3. IsFiniteSet(Players) BY <1>1 DEF Play!MotionAssumption, Play!IsFiniteSet, IsFiniteSet
<1>4. Ticks \in Nat /\ MinContext \in Nat /\ MinMoving \in Nat
  BY <1>1 DEF Play!MotionAssumption
<1>5. Play!Time = 0 .. (Ticks - 1) BY DEF Play!Time
<1>6. IsFiniteSet(Play!Time) BY <1>4, <1>5, FS_Interval
<1>7. \A s \in Scenes : s.suitable \in BOOLEAN /\ s.current \in BOOLEAN
  BY <1>1 DEF Play!MotionAssumption
<1>. QED BY <1>1, <1>2, <1>3, <1>4, <1>5, <1>6, <1>7 DEF Play!MotionAssumption

\* Between an observation and the one before it nothing was recorded.
LEMMA BeforeIs ==
    ASSUME NEW m
    PROVE  \A t \in Play!Time :
              /\ Play!Before(m)[t] \in -1 .. (t - 1)
              /\ \A x \in (Play!Before(m)[t] + 1) .. (t - 1) : ~Play!Present(m, x)
<1>. USE PlayGiven
<1>. DEFINE Time == 0 .. (Ticks - 1)
            Step(f) == [t \in Time |-> IF t = 0 THEN -1 ELSE IF Play!Present(m, t - 1) THEN t - 1 ELSE f[t - 1]]
            Earlier(t) == {x \in 0 .. (t - 1) : Play!Present(m, x)}
            latest(t) == IF Earlier(t) = {} THEN -1 ELSE CHOOSE x \in Earlier(t) : \A y \in Earlier(t) : y <= x
            g == [t \in Time |-> latest(t)]
            b == CHOOSE f : f = Step(f)
<1>1. Play!Before(m) = b BY DEF Play!Before
<1>2. ASSUME NEW t \in Time
      PROVE  latest(t) = IF t = 0 THEN -1 ELSE IF Play!Present(m, t - 1) THEN t - 1 ELSE latest(t - 1)
  <2>1. CASE t = 0
    <3>1. Earlier(t) = {} BY <2>1
    <3>. QED BY <2>1, <3>1
  <2>2. CASE t # 0 /\ Play!Present(m, t - 1)
    <3>1. t - 1 \in Earlier(t) /\ \A y \in Earlier(t) : y <= t - 1 BY <2>2
    <3>2. \A x \in Earlier(t) : (\A y \in Earlier(t) : y <= x) => x = t - 1 BY <3>1
    <3>. HIDE DEF Earlier
    <3>3. latest(t) = t - 1 BY <3>1, <3>2
    <3>. QED BY <2>2, <3>3
  <2>3. CASE t # 0 /\ ~Play!Present(m, t - 1)
    <3>1. Earlier(t) = Earlier(t - 1)
      <4>1. \A x \in 0 .. (t - 1) : x \in 0 .. ((t - 1) - 1) \/ x = t - 1 BY <2>3
      <4>2. \A x \in 0 .. ((t - 1) - 1) : x \in 0 .. (t - 1) BY <2>3
      <4>. QED BY <2>3, <4>1, <4>2
    <3>. HIDE DEF Earlier
    <3>2. latest(t) = latest(t - 1) BY <3>1
    <3>. QED BY <2>3, <3>2
  <2>. QED BY <2>1, <2>2, <2>3
<1>3. g = Step(g)
  <2>1. ASSUME NEW t \in Time PROVE g[t] = Step(g)[t]
    <3>1. g[t] = latest(t) OBVIOUS
    <3>2. t # 0 => t - 1 \in Time /\ g[t - 1] = latest(t - 1)
      <4>1. t # 0 => t - 1 \in Time OBVIOUS
      <4>. HIDE DEF latest
      <4>. QED BY <4>1
    <3>3. Step(g)[t] = IF t = 0 THEN -1 ELSE IF Play!Present(m, t - 1) THEN t - 1 ELSE g[t - 1] OBVIOUS
    <3>. HIDE DEF g, latest, Step
    <3>. QED BY <1>2, <3>1, <3>2, <3>3
  <2>2. g = [t \in Time |-> g[t]] /\ Step(g) = [t \in Time |-> Step(g)[t]] OBVIOUS
  <2>. HIDE DEF g, Step
  <2>. QED BY <2>1, <2>2
<1>4. b = Step(b)
  <2>. HIDE DEF g, Step
  <2>. QED BY <1>3
<1>5. ASSUME NEW t \in Time
      PROVE  b[t] = IF t = 0 THEN -1 ELSE IF Play!Present(m, t - 1) THEN t - 1 ELSE b[t - 1]
  <2>. DEFINE r == IF t = 0 THEN -1 ELSE IF Play!Present(m, t - 1) THEN t - 1 ELSE b[t - 1]
  <2>1. Step(b)[t] = r
    <3>. HIDE DEF b
    <3>. QED OBVIOUS
  <2>2. b[t] = r
    <3>. HIDE DEF b, Step, r
    <3>. QED BY <1>4, <2>1
  <2>. QED BY <2>2
<1>. HIDE DEF b
<1>. DEFINE Good == {t \in Time : b[t] \in -1 .. (t - 1) /\ \A x \in (b[t] + 1) .. (t - 1) : ~Play!Present(m, x)}
<1>6. ASSUME Ticks # 0 PROVE Good = Time
  <2>1. Ticks - 1 \in Nat BY <1>6
  <2>2. 0 \in Good
    <3>1. 0 \in Time BY <2>1
    <3>2. b[0] = -1 BY <1>5, <3>1
    <3>3. (b[0] + 1) .. (0 - 1) = {} BY <3>2
    <3>. QED BY <3>1, <3>2, <3>3
  <2>3. ASSUME NEW k \in 1 .. (Ticks - 1), k - 1 \in Good PROVE k \in Good
    <3>1. k \in Time /\ k # 0 BY <2>1
    <3>2. CASE Play!Present(m, k - 1)
      <4>1. b[k] = k - 1 BY <1>5, <3>1, <3>2
      <4>2. (b[k] + 1) .. (k - 1) = {} BY <4>1
      <4>. QED BY <3>1, <4>1, <4>2
    <3>3. CASE ~Play!Present(m, k - 1)
      <4>1. b[k] = b[k - 1] BY <1>5, <3>1, <3>3
      <4>2. b[k - 1] \in -1 .. ((k - 1) - 1)
            /\ \A x \in (b[k - 1] + 1) .. ((k - 1) - 1) : ~Play!Present(m, x) BY <2>3
      <4>3. b[k] \in -1 .. (k - 1) BY <4>1, <4>2
      <4>4. \A x \in (b[k] + 1) .. (k - 1) : x \in (b[k - 1] + 1) .. ((k - 1) - 1) \/ x = k - 1 BY <4>1, <4>2
      <4>. QED BY <3>1, <3>3, <4>2, <4>3, <4>4
    <3>. QED BY <3>2, <3>3
  <2>4. Good \in SUBSET (0 .. (Ticks - 1)) OBVIOUS
  <2>. HIDE DEF Good
  <2>. QED BY <2>1, <2>2, <2>3, <2>4, CountingUp
<1>7. Ticks = 0 => Time = {} OBVIOUS
<1>8. \A t \in Time : t \in Good BY <1>6, <1>7
<1>. QED BY <1>1, <1>8

\* A player stays where it is unless it takes a step.
LEMMA PositionsAre ==
    ASSUME NEW m
    PROVE  \A t \in Play!Time :
              /\ Play!Positions(m)[t] \in Int
              /\ t # 0 /\ m[t] \notin {"step", "back"} => Play!Positions(m)[t] = Play!Positions(m)[t - 1]
<1>. USE PlayGiven
<1>. DEFINE Time == 0 .. (Ticks - 1)
            by(t) == CASE m[t] = "step" -> 1 [] m[t] = "back" -> -1 [] OTHER -> 0
            Step(f) == [t \in Time |-> by(t) + (IF t = 0 THEN 0 ELSE f[t - 1])]
            Done(kind, t) == {u \in 0 .. t : m[u] = kind}
            net(t) == Cardinality(Done("step", t)) - Cardinality(Done("back", t))
            g == [t \in Time |-> net(t)]
            pos == CHOOSE f : f = Step(f)
<1>1. Play!Positions(m) = pos BY DEF Play!Positions
<1>2. \A t \in Time : by(t) = IF m[t] = "step" THEN 1 ELSE IF m[t] = "back" THEN -1 ELSE 0 OBVIOUS
<1>. HIDE DEF by
<1>3. ASSUME NEW t \in Time, NEW kind \in {"step", "back"}
      PROVE  /\ Cardinality(Done(kind, t)) \in Nat
             /\ Cardinality(Done(kind, t)) = (IF m[t] = kind THEN 1 ELSE 0)
                                               + (IF t = 0 THEN 0 ELSE Cardinality(Done(kind, t - 1)))
  <2>1. IsFiniteSet(0 .. (t - 1)) /\ IsFiniteSet(0 .. t)
    <3>1. t \in Int /\ t - 1 \in Int OBVIOUS
    <3>. QED BY <3>1, FS_Interval
  <2>2. Done(kind, t - 1) \in SUBSET (0 .. (t - 1)) /\ Done(kind, t) \in SUBSET (0 .. t) OBVIOUS
  <2>3. IsFiniteSet(Done(kind, t - 1)) /\ IsFiniteSet(Done(kind, t)) BY <2>1, <2>2, FS_Subset
  <2>4. Cardinality(Done(kind, t - 1)) \in Nat /\ Cardinality(Done(kind, t)) \in Nat
    BY <2>3, FS_CardinalityType
  <2>5. t \notin Done(kind, t - 1)
        /\ Done(kind, t) = IF m[t] = kind THEN Done(kind, t - 1) \union {t} ELSE Done(kind, t - 1)
    <3>1. \A x : x \in 0 .. t <=> x \in 0 .. (t - 1) \/ x = t OBVIOUS
    <3>2. t \notin 0 .. (t - 1) OBVIOUS
    <3>. QED BY <3>1, <3>2
  <2>6. t = 0 => Done(kind, t - 1) = {} OBVIOUS
  <2>. HIDE DEF Done
  <2>7. t = 0 => Cardinality(Done(kind, t - 1)) = 0 BY <2>6, FS_EmptySet
  <2>8. Cardinality(Done(kind, t - 1) \union {t}) = Cardinality(Done(kind, t - 1)) + 1
    BY <2>3, <2>5, FS_AddElement
  <2>. QED BY <2>4, <2>5, <2>7, <2>8
<1>. HIDE DEF Done
<1>4. ASSUME NEW t \in Time PROVE net(t) = by(t) + (IF t = 0 THEN 0 ELSE net(t - 1)) /\ net(t) \in Int
  <2>1. t # 0 => t - 1 \in Time OBVIOUS
  <2>. DEFINE steps(u) == Cardinality(Done("step", u))
              backs(u) == Cardinality(Done("back", u))
  <2>2. /\ steps(t) = (IF m[t] = "step" THEN 1 ELSE 0) + (IF t = 0 THEN 0 ELSE steps(t - 1))
        /\ backs(t) = (IF m[t] = "back" THEN 1 ELSE 0) + (IF t = 0 THEN 0 ELSE backs(t - 1))
        /\ steps(t) \in Nat /\ backs(t) \in Nat
    BY <1>3
  <2>3. t # 0 => steps(t - 1) \in Nat /\ backs(t - 1) \in Nat BY <1>3, <2>1
  <2>4. by(t) = IF m[t] = "step" THEN 1 ELSE IF m[t] = "back" THEN -1 ELSE 0 BY <1>2
  <2>5. net(t) = steps(t) - backs(t) /\ net(t - 1) = steps(t - 1) - backs(t - 1) OBVIOUS
  <2>. HIDE DEF steps, backs, net
  <2>6. "step" # "back" OBVIOUS
  <2>. QED BY <2>2, <2>3, <2>4, <2>5, <2>6
<1>5. g = Step(g)
  <2>1. ASSUME NEW t \in Time PROVE g[t] = Step(g)[t]
    <3>1. g[t] = net(t) OBVIOUS
    <3>2. t # 0 => t - 1 \in Time /\ g[t - 1] = net(t - 1) OBVIOUS
    <3>3. Step(g)[t] = by(t) + (IF t = 0 THEN 0 ELSE g[t - 1]) OBVIOUS
    <3>. HIDE DEF g, net, Step
    <3>. QED BY <1>4, <3>1, <3>2, <3>3
  <2>2. g = [t \in Time |-> g[t]] /\ Step(g) = [t \in Time |-> Step(g)[t]] OBVIOUS
  <2>. HIDE DEF g, Step
  <2>. QED BY <2>1, <2>2
<1>6. pos = Step(pos)
  <2>. HIDE DEF g, Step
  <2>. QED BY <1>5
<1>7. ASSUME NEW t \in Time PROVE pos[t] = by(t) + (IF t = 0 THEN 0 ELSE pos[t - 1])
  <2>. DEFINE r == by(t) + (IF t = 0 THEN 0 ELSE pos[t - 1])
  <2>1. Step(pos)[t] = r
    <3>. HIDE DEF pos
    <3>. QED OBVIOUS
  <2>2. pos[t] = r
    <3>. HIDE DEF pos, Step, r
    <3>. QED BY <1>6, <2>1
  <2>. QED BY <2>2
<1>. HIDE DEF pos
<1>. DEFINE Whole == {t \in Time : pos[t] \in Int}
<1>8. ASSUME Ticks # 0 PROVE Whole = Time
  <2>1. Ticks - 1 \in Nat BY <1>8
  <2>2. 0 \in Whole
    <3>1. 0 \in Time BY <2>1
    <3>2. pos[0] = by(0) + 0 BY <1>7, <3>1
    <3>. QED BY <1>2, <3>1, <3>2
  <2>3. ASSUME NEW k \in 1 .. (Ticks - 1), k - 1 \in Whole PROVE k \in Whole
    <3>1. k \in Time /\ k # 0 BY <2>1
    <3>2. pos[k] = by(k) + pos[k - 1] BY <1>7, <3>1
    <3>. QED BY <1>2, <2>3, <3>1, <3>2
  <2>4. Whole \in SUBSET (0 .. (Ticks - 1)) OBVIOUS
  <2>. HIDE DEF Whole
  <2>. QED BY <2>1, <2>2, <2>3, <2>4, CountingUp
<1>9. Ticks = 0 => Time = {} OBVIOUS
<1>10. \A t \in Time : pos[t] \in Int BY <1>8, <1>9
<1>11. ASSUME NEW t \in Time, t # 0, m[t] \notin {"step", "back"} PROVE pos[t] = pos[t - 1]
  <2>1. t - 1 \in Time BY <1>11
  <2>2. pos[t] = 0 + pos[t - 1] BY <1>2, <1>7, <1>11
  <2>. QED BY <1>10, <2>1, <2>2
<1>. QED BY <1>1, <1>10, <1>11

-----------------------------------------------------------------------------
(* Active play: a player's smoothed positions and velocity samples          *)
(* (smooth_observations, movement_stream).                                  *)
\* The observations that an observation is smoothed with, and what comes of it.
JoinedIn(m) == {t \in Play!Time : Play!Joined(m, Play!Before(m)[t], t)}
Near(m, t) ==
    {t} \union {u \in {t - 1} : t \in JoinedIn(m) /\ Play!Before(m)[t] = u}
        \union {u \in {t + 1} : u \in JoinedIn(m) /\ Play!Before(m)[u] = t}
Smooth(m, t) == (6 * SumOf(Play!Positions(m), Near(m, t))) \div Cardinality(Near(m, t))

\* An observation is smoothed with itself and at most one on either side.
LEMMA NearIs ==
    ASSUME NEW m, NEW t \in Play!Time
    PROVE  /\ t \in Near(m, t) /\ Near(m, t) \in SUBSET Play!Time /\ Near(m, t) \in SUBSET ((t - 1) .. (t + 1))
           /\ IsFiniteSet(Near(m, t)) /\ Cardinality(Near(m, t)) \in 1 .. 3
<1>. USE PlayGiven
<1>1. t \in Int /\ t - 1 \in Int /\ t + 1 \in Int OBVIOUS
<1>2. \A u \in JoinedIn(m) : u \in Play!Time /\ Play!Before(m)[u] >= 0
  BY DEF JoinedIn, Play!Joined
<1>3. t \in Near(m, t) /\ Near(m, t) \in SUBSET ((t - 1) .. (t + 1)) BY <1>1 DEF Near
<1>4. Near(m, t) \in SUBSET Play!Time
  <2>1. t \in JoinedIn(m) /\ Play!Before(m)[t] = t - 1 => t - 1 \in Play!Time BY <1>1, <1>2
  <2>2. t + 1 \in JoinedIn(m) => t + 1 \in Play!Time BY <1>2
  <2>. QED BY <2>1, <2>2 DEF Near
<1>5. IsFiniteSet((t - 1) .. (t + 1)) /\ Cardinality((t - 1) .. (t + 1)) = 3 BY <1>1, FS_Interval
<1>6. IsFiniteSet(Near(m, t)) /\ Cardinality(Near(m, t)) <= 3 BY <1>3, <1>5, FS_Subset
<1>7. Cardinality(Near(m, t)) \in Nat /\ Cardinality(Near(m, t)) # 0
  BY <1>3, <1>6, FS_CardinalityType, FS_EmptySet
<1>. QED BY <1>3, <1>4, <1>6, <1>7

\* A smoothed position is a whole number; among equal positions it is that one.
LEMMA SmoothIs ==
    ASSUME NEW m, NEW t \in Play!Time
    PROVE  /\ Smooth(m, t) \in Int
           /\ \A c \in Int : (\A u \in Near(m, t) : Play!Positions(m)[u] = c) => Smooth(m, t) = 6 * c
<1>. DEFINE sum == SumOf(Play!Positions(m), Near(m, t))
            n == Cardinality(Near(m, t))
<1>1. n \in 1 .. 3 /\ IsFiniteSet(Near(m, t)) /\ \A u \in Near(m, t) : Play!Positions(m)[u] \in Int
  BY NearIs, PositionsAre
<1>2. sum \in Int BY <1>1, SumIsInt
<1>3. Smooth(m, t) = (6 * sum) \div n BY DEF Smooth
<1>4. Smooth(m, t) \in Int
  <2>. HIDE DEF sum, n
  <2>. QED BY <1>1, <1>2, <1>3
<1>5. ASSUME NEW c \in Int, \A u \in Near(m, t) : Play!Positions(m)[u] = c PROVE Smooth(m, t) = 6 * c
  <2>1. sum = c * n BY <1>1, <1>5, SumOfOne
  <2>. HIDE DEF sum, n
  <2>2. CASE n = 1 BY <1>3, <2>1, <2>2
  <2>3. CASE n = 2 BY <1>3, <2>1, <2>3
  <2>4. CASE n = 3 BY <1>3, <2>1, <2>4
  <2>. QED BY <1>1, <2>2, <2>3, <2>4
<1>. QED BY <1>4, <1>5

\* What a stream says of the motion it was derived from.
LEMMA StreamFields ==
    ASSUME NEW m
    PROVE  /\ Play!StreamOf(m).present = {t \in Play!Time : Play!Present(m, t)}
           /\ Play!StreamOf(m).before = Play!Before(m)
           /\ Play!StreamOf(m).joined = JoinedIn(m)
           /\ \A t \in JoinedIn(m) : Play!StreamOf(m).pace[t] = Smooth(m, t) - Smooth(m, Play!Before(m)[t])
<1>. DEFINE before == Play!Before(m)
            pos == Play!Positions(m)
            joined == {t \in Play!Time : Play!Joined(m, before[t], t)}
            near(t) == {t} \union {u \in {t - 1} : t \in joined /\ before[t] = u}
                           \union {u \in {t + 1} : u \in joined /\ before[u] = t}
            smooth == [t \in Play!Time |-> (6 * SumOf(pos, near(t))) \div Play!Cardinality(near(t))]
<1>1. /\ Play!StreamOf(m).present = {t \in Play!Time : Play!Present(m, t)}
      /\ Play!StreamOf(m).before = before /\ Play!StreamOf(m).joined = joined
  BY DEF Play!StreamOf
<1>2. joined = JoinedIn(m) BY DEF JoinedIn
<1>3. ASSUME NEW t PROVE near(t) = Near(m, t) BY <1>2 DEF Near
<1>4. Play!StreamOf(m).pace = [t \in joined |-> smooth[t] - smooth[before[t]]]
  BY DEF Play!StreamOf, Play!MapThenSumSet, Play!MapThenFoldSet, SumOf
<1>5. ASSUME NEW t \in Play!Time PROVE smooth[t] = Smooth(m, t)
  <2>1. smooth[t] = (6 * SumOf(pos, near(t))) \div Play!Cardinality(near(t)) OBVIOUS
  <2>2. Play!Cardinality(near(t)) = Cardinality(near(t)) BY PlayGiven
  <2>. HIDE DEF smooth, near
  <2>. QED BY <1>3, <2>1, <2>2 DEF Smooth
<1>6. ASSUME NEW t \in JoinedIn(m) PROVE t \in Play!Time /\ before[t] \in Play!Time
  <2>1. t \in Play!Time /\ before[t] >= 0 /\ before[t] \in -1 .. t - 1 BY BeforeIs DEF JoinedIn, Play!Joined
  <2>. HIDE DEF before
  <2>. QED BY <2>1, PlayGiven
<1>. HIDE DEF smooth, joined, before
<1>7. ASSUME NEW t \in JoinedIn(m) PROVE Play!StreamOf(m).pace[t] = Smooth(m, t) - Smooth(m, before[t])
  BY <1>2, <1>4, <1>5, <1>6
<1>. QED BY <1>1, <1>2, <1>7 DEF before

\* A velocity sample is of two usable observations of one track with nothing
\* recorded between them.
LEMMA SampleJoins ==
    ASSUME NEW m, NEW t \in JoinedIn(m), NEW s, s = Play!Before(m)[t]
    PROVE  /\ t \in Play!Time /\ s \in Play!Time /\ t - s \in 1 .. MotionGap
           /\ Play!Usable(m, s) /\ Play!Usable(m, t) /\ m[t] # "new"
           /\ \A x \in (s + 1) .. (t - 1) : ~Play!Present(m, x)
<1>1. /\ t \in Play!Time /\ s >= 0 /\ Play!Usable(m, s) /\ Play!Usable(m, t) /\ m[t] # "new"
      /\ t - s <= MotionGap
  BY DEF JoinedIn, Play!Joined
<1>2. s \in -1 .. (t - 1) /\ \A x \in (s + 1) .. (t - 1) : ~Play!Present(m, x) BY <1>1, BeforeIs
<1>3. Play!Time = 0 .. (Ticks - 1) /\ Ticks \in Nat /\ MotionGap \in 1 .. 3 BY PlayGiven
<1>. QED BY <1>1, <1>2, <1>3

\* The velocity of a sample is zero unless a step was taken around it.
LEMMA SampleMoves ==
    ASSUME NEW m, NEW t \in JoinedIn(m), NEW s, s = Play!Before(m)[t]
    PROVE  /\ Play!StreamOf(m).pace[t] \in Int
           /\ Play!StreamOf(m).pace[t] # 0 => \E x \in Play!Time : x \in s .. (t + 1) /\ m[x] \in {"step", "back"}
<1>. DEFINE pos == Play!Positions(m)
            n == t + 1 - s
            c == pos[s]
<1>1. t \in Play!Time /\ s \in Play!Time /\ t - s \in 1 .. MotionGap BY SampleJoins
<1>2. Play!Time = 0 .. (Ticks - 1) /\ Ticks \in Nat /\ MotionGap \in 1 .. 3 BY PlayGiven
<1>3. Play!StreamOf(m).pace[t] = Smooth(m, t) - Smooth(m, s) BY StreamFields
<1>4. Smooth(m, t) \in Int /\ Smooth(m, s) \in Int BY <1>1, SmoothIs
<1>5. ASSUME \A x \in Play!Time : x \in s .. (t + 1) => m[x] \notin {"step", "back"}
      PROVE  Play!StreamOf(m).pace[t] = 0
  <2>. DEFINE Still == {k \in 0 .. n : s + k \in Play!Time => pos[s + k] = c}
  <2>1. n \in Nat /\ n >= 2 /\ s \in Nat /\ t \in Nat BY <1>1, <1>2
  <2>2. c \in Int BY <1>1, PositionsAre
  <2>3. 0 \in Still BY <2>1
  <2>4. ASSUME NEW k \in 1 .. n, k - 1 \in Still PROVE k \in Still
    <3>1. CASE s + k \in Play!Time
      <4>1. s + (k - 1) \in Play!Time /\ s + k # 0 /\ (s + k) - 1 = s + (k - 1) BY <1>2, <2>1, <3>1
      <4>2. s + k \in s .. (t + 1) BY <2>1
      <4>3. pos[s + k] = pos[(s + k) - 1] BY <1>5, <3>1, <4>1, <4>2, PositionsAre
      <4>4. pos[s + (k - 1)] = c BY <2>4, <4>1
      <4>. QED BY <4>1, <4>3, <4>4
    <3>2. CASE s + k \notin Play!Time BY <3>2
    <3>. QED BY <3>1, <3>2
  <2>5. Still = 0 .. n
    <3>1. Still \in SUBSET (0 .. n) OBVIOUS
    <3>. HIDE DEF Still, n
    <3>. QED BY <2>1, <2>3, <2>4, <3>1, CountingUp
  <2>6. ASSUME NEW x \in Play!Time, x \in (s - 1) .. (t + 1) PROVE pos[x] = c
    <3>1. CASE x >= s
      <4>1. x - s \in Still /\ s + (x - s) = x BY <2>1, <2>5, <2>6, <3>1
      <4>. QED BY <4>1
    <3>2. CASE x = s - 1
      <4>1. s # 0 /\ s \in s .. (t + 1) BY <1>2, <2>1, <3>2
      <4>. QED BY <1>1, <1>5, <3>2, <4>1, PositionsAre
    <3>. QED BY <2>1, <2>6, <3>1, <3>2
  <2>7. \A x \in Near(m, s) : pos[x] = c
    <3>1. \A x \in Near(m, s) : x \in Play!Time /\ x \in (s - 1) .. (s + 1) BY <1>1, NearIs
    <3>2. \A x \in (s - 1) .. (s + 1) : x \in (s - 1) .. (t + 1) BY <2>1
    <3>. QED BY <2>6, <3>1, <3>2
  <2>8. \A x \in Near(m, t) : pos[x] = c
    <3>1. \A x \in Near(m, t) : x \in Play!Time /\ x \in (t - 1) .. (t + 1) BY <1>1, NearIs
    <3>2. \A x \in (t - 1) .. (t + 1) : x \in (s - 1) .. (t + 1) BY <1>1, <2>1
    <3>. QED BY <2>6, <3>1, <3>2
  <2>9. Smooth(m, s) = 6 * c /\ Smooth(m, t) = 6 * c BY <1>1, <2>2, <2>7, <2>8, SmoothIs
  <2>. QED BY <1>3, <1>4, <2>9
<1>. QED BY <1>3, <1>4, <1>5

-----------------------------------------------------------------------------
(* Active play: what the samples of several players say of the recording.   *)
\* What a recording is and what was derived from it.
Recorded == /\ scene \in Scenes
            /\ streams = [p \in Players |-> Play!StreamOf(scene.players[p].motion)]

\* A player that a velocity sample covers is followed, and moves if it moves.
LEMMA CoveredIsFollowed ==
    ASSUME Recorded, NEW p \in Players, NEW t \in streams[p].joined,
           NEW u \in streams[p].before[t] .. (t - 1)
    PROVE  /\ Play!Followed(p, u)
           /\ Play!Moving(streams[p], t) => Play!Moves(p, u, u + 1)
<1>. DEFINE m == scene.players[p].motion
            s == streams[p].before[t]
<1>1. streams[p] = Play!StreamOf(m) BY DEF Recorded
<1>2. t \in JoinedIn(m) /\ s = Play!Before(m)[t] BY <1>1, StreamFields
<1>3. /\ t \in Play!Time /\ s \in Play!Time /\ t - s \in 1 .. MotionGap
      /\ Play!Usable(m, s) /\ Play!Usable(m, t) /\ m[t] # "new"
      /\ \A x \in (s + 1) .. (t - 1) : ~Play!Present(m, x)
  BY <1>2, SampleJoins
<1>4. MotionGap \in 1 .. 3 /\ s \in Nat /\ t \in Nat /\ u \in s .. (t - 1) BY <1>3, PlayGiven
<1>5. /\ streams[p].pace[t] \in Int
      /\ streams[p].pace[t] # 0 => \E x \in Play!Time : x \in s .. (t + 1) /\ m[x] \in {"step", "back"}
  BY <1>1, <1>2, SampleMoves
<1>6. Play!Moving(streams[p], t) <=> 5 * Play!Size(streams[p].pace[t]) >= 6 * (t - s)
  BY DEF Play!Moving, Play!Length
<1>. HIDE DEF m, s
<1>7. Play!Followed(p, u)
  <2>1. \A x \in (s + 1) .. t : m[x] \notin {"unusable", "new"}
    <3>1. ASSUME NEW x \in (s + 1) .. t PROVE m[x] \notin {"unusable", "new"}
      <4>1. CASE x = t BY <1>3, <4>1 DEF Play!Usable
      <4>2. CASE x # t
        <5>1. x \in (s + 1) .. (t - 1) BY <1>4, <4>2
        <5>. QED BY <1>3, <5>1 DEF Play!Present
      <4>. QED BY <4>1, <4>2
    <3>. QED BY <3>1
  <2>2. s <= u /\ u < t /\ t - s <= MotionGap BY <1>3, <1>4
  <2>. QED BY <1>3, <2>1, <2>2 DEF Play!Followed, m
<1>8. ASSUME Play!Moving(streams[p], t) PROVE Play!Moves(p, u, u + 1)
  <2>1. streams[p].pace[t] # 0
    <3>1. streams[p].pace[t] = 0 => Play!Size(streams[p].pace[t]) = 0 BY DEF Play!Size
    <3>. QED BY <1>3, <1>4, <1>6, <1>8, <3>1
  <2>2. PICK x \in Play!Time : x \in s .. (t + 1) /\ m[x] \in {"step", "back"} BY <1>5, <2>1
  <2>3. x \in (u - MotionGap) .. ((u + 1) + MotionGap) BY <1>3, <1>4, <2>2
  <2>. QED BY <2>2, <2>3 DEF Play!Moves, m
<1>. QED BY <1>7, <1>8

\* Together are at least two.
LEMMA TogetherAre ==
    ASSUME NEW P, NEW ticks, NEW u \in Play!Together(P, ticks)
    PROVE  \E p, q \in P : p # q /\ u \in ticks[p] /\ u \in ticks[q]
<1>. DEFINE there == {p \in P : u \in ticks[p]}
<1>1. Cardinality(there) >= 2 BY PlayGiven DEF Play!Together
<1>2. PICK p \in there : TRUE
  <2>1. there = {} => Cardinality(there) = 0 BY FS_EmptySet
  <2>. HIDE DEF there
  <2>. QED BY <1>1, <2>1
<1>3. PICK q \in there : q # p
  <2>1. there = {p} => Cardinality(there) = 1 BY FS_Singleton
  <2>. HIDE DEF there
  <2>. QED BY <1>1, <1>2, <2>1
<1>. QED BY <1>2, <1>3

\* What a player covers in a window, at any speed or moving.
Covering(from, to) ==
    [p \in Players |-> Play!Covered(streams[p], streams[p].joined) \intersect (from .. (to - 1))]
MovingIn(from, to) ==
    [p \in Players |-> Play!Covered(streams[p], {t \in streams[p].joined : Play!Moving(streams[p], t)})
                           \intersect (from .. (to - 1))]

\* Two sound players are followed wherever two reliable ones are covered.
LEMMA TogetherIsFollowed ==
    ASSUME Recorded, NEW from, NEW to, NEW P \in SUBSET Players, \A p \in P : Play!BaseReliable(p)
    PROVE  /\ \A u \in Play!Together(P, Covering(from, to)) :
                /\ u \in from .. (to - 1)
                /\ \E p, q \in Players : /\ p # q /\ Play!Sound(p) /\ Play!Sound(q)
                                         /\ Play!Followed(p, u) /\ Play!Followed(q, u)
           /\ \A u \in Play!Together(P, MovingIn(from, to)) :
                /\ u \in from .. (to - 1)
                /\ \E p, q \in Players : /\ p # q /\ Play!Sound(p) /\ Play!Sound(q)
                                         /\ Play!Followed(p, u) /\ Play!Followed(q, u)
                                         /\ Play!Moves(p, u, u + 1) /\ Play!Moves(q, u, u + 1)
<1>1. \A p \in P : Play!Sound(p) BY DEF Play!BaseReliable, Play!Sound
<1>2. ASSUME NEW p \in Players, NEW u \in Covering(from, to)[p]
      PROVE  u \in from .. (to - 1) /\ Play!Followed(p, u)
  <2>1. u \in from .. (to - 1) /\ u \in Play!Covered(streams[p], streams[p].joined) BY <1>2 DEF Covering
  <2>2. PICK t \in streams[p].joined : u \in streams[p].before[t] .. (t - 1) BY <2>1 DEF Play!Covered
  <2>. QED BY <2>1, <2>2, CoveredIsFollowed
<1>3. ASSUME NEW p \in Players, NEW u \in MovingIn(from, to)[p]
      PROVE  u \in from .. (to - 1) /\ Play!Followed(p, u) /\ Play!Moves(p, u, u + 1)
  <2>1. u \in from .. (to - 1)
        /\ u \in Play!Covered(streams[p], {t \in streams[p].joined : Play!Moving(streams[p], t)})
    BY <1>3 DEF MovingIn
  <2>2. PICK t \in {t \in streams[p].joined : Play!Moving(streams[p], t)} : u \in streams[p].before[t] .. (t - 1)
    BY <2>1 DEF Play!Covered
  <2>. QED BY <2>1, <2>2, CoveredIsFollowed
<1>4. ASSUME NEW u \in Play!Together(P, Covering(from, to))
      PROVE  /\ u \in from .. (to - 1)
             /\ \E p, q \in Players : /\ p # q /\ Play!Sound(p) /\ Play!Sound(q)
                                      /\ Play!Followed(p, u) /\ Play!Followed(q, u)
  <2>1. PICK p, q \in P : p # q /\ u \in Covering(from, to)[p] /\ u \in Covering(from, to)[q]
    BY <1>4, TogetherAre
  <2>. QED BY <1>1, <1>2, <2>1
<1>5. ASSUME NEW u \in Play!Together(P, MovingIn(from, to))
      PROVE  /\ u \in from .. (to - 1)
             /\ \E p, q \in Players : /\ p # q /\ Play!Sound(p) /\ Play!Sound(q)
                                      /\ Play!Followed(p, u) /\ Play!Followed(q, u)
                                      /\ Play!Moves(p, u, u + 1) /\ Play!Moves(q, u, u + 1)
  <2>1. PICK p, q \in P : p # q /\ u \in MovingIn(from, to)[p] /\ u \in MovingIn(from, to)[q]
    BY <1>5, TogetherAre
  <2>. QED BY <1>1, <1>3, <2>1
<1>. QED BY <1>4, <1>5

\* The work of a player in a window is a whole number.
LEMMA WorkIs ==
    ASSUME Recorded, NEW p \in Players, NEW from \in Nat, NEW to \in Nat
    PROVE  Play!Work(streams[p], from .. (to - 1)) \in Int
<1>. DEFINE s == streams[p]
            m == scene.players[p].motion
            w == from .. (to - 1)
            part(t) == Play!Size(s.pace[t]) * (6 \div Play!Length(s, t))
                          * Play!Cardinality((s.before[t] .. (t - 1)) \intersect w)
            e == [t \in s.joined |-> part(t)]
            Sum(f) == [T \in SUBSET s.joined |-> IF T = {} THEN 0 ELSE
                          LET x == CHOOSE y \in T : TRUE IN part(x) + f[T \ {x}]]
            SumOfParts(f) == [T \in SUBSET s.joined |-> IF T = {} THEN 0 ELSE
                          LET x == CHOOSE y \in T : TRUE IN e[x] + f[T \ {x}]]
<1>1. s = Play!StreamOf(m) BY DEF Recorded
<1>2. s.joined = JoinedIn(m) /\ s.before = Play!Before(m) BY <1>1, StreamFields
<1>3. IsFiniteSet(s.joined)
  <2>1. JoinedIn(m) \in SUBSET Play!Time BY DEF JoinedIn
  <2>. QED BY <1>2, <2>1, PlayGiven, FS_Subset
<1>4. ASSUME NEW t \in s.joined PROVE e[t] \in Int
  <2>1. s.pace[t] \in Int BY <1>1, <1>2, SampleMoves
  <2>2. t - s.before[t] \in 1 .. MotionGap /\ t \in Play!Time /\ s.before[t] \in Play!Time BY <1>2, SampleJoins
  <2>3. MotionGap \in 1 .. 3 BY PlayGiven
  <2>4. Play!Size(s.pace[t]) \in Int BY <2>1 DEF Play!Size
  <2>5. 6 \div Play!Length(s, t) \in Int BY <2>2, <2>3 DEF Play!Length
  <2>6. Play!Cardinality((s.before[t] .. (t - 1)) \intersect w) \in Int
    <3>1. IsFiniteSet(w) BY FS_Interval
    <3>2. IsFiniteSet((s.before[t] .. (t - 1)) \intersect w) BY <3>1, FS_Subset
    <3>. QED BY <3>2, PlayGiven, FS_CardinalityType
  <2>7. e[t] = part(t) OBVIOUS
  <2>. QED BY <2>4, <2>5, <2>6, <2>7
<1>5. SumOf(e, s.joined) \in Int
  <2>. HIDE DEF e
  <2>. QED BY <1>3, <1>4, SumIsInt
<1>6. ASSUME NEW f PROVE Sum(f) = SumOfParts(f)
  <2>1. \A x \in s.joined : e[x] = part(x) OBVIOUS
  <2>. HIDE DEF e, part
  <2>. QED BY <2>1
<1>7. Play!Work(s, w) = (CHOOSE f : f = Sum(f))[s.joined]
  BY DEF Play!Work, Play!MapThenSumSet, Play!MapThenFoldSet
<1>8. SumOf(e, s.joined) = (CHOOSE f : f = SumOfParts(f))[s.joined] BY DEF SumOf
<1>9. (CHOOSE f : f = Sum(f)) = (CHOOSE f : f = SumOfParts(f))
  <2>. HIDE DEF Sum, SumOfParts
  <2>. QED BY <1>6
<1>. QED BY <1>5, <1>7, <1>8, <1>9

\* The players a window is judged by.
Seeable(from, to) == {p \in Play!Shown : streams[p].present \intersect (from .. (to - 1)) # {}}
Reliable(from, to) ==
    {p \in Seeable(from, to) : /\ Play!BaseReliable(p)
                                  /\ Play!Share(Play!Cardinality(Covering(from, to)[p]), to - from, 55)}

\* Its ticks in all, what the players cover in it and how long they stand.
Standing(from, to) ==
    [p \in Players |-> Play!Cardinality(
        Play!Covered(streams[p], {t \in streams[p].joined : Play!Stationary(streams[p], t)})
            \intersect (from .. (to - 1)))]
SeenInAll(from, to) ==
    Play!MapThenSumSet(LAMBDA p : Play!Cardinality(Covering(from, to)[p]), Reliable(from, to))
WorkInAll(from, to) ==
    Play!MapThenSumSet(LAMBDA p : Play!Work(streams[p], from .. (to - 1)), Reliable(from, to))
StoodInAll(from, to) ==
    Play!MapThenSumSet(LAMBDA p : Standing(from, to)[p], Reliable(from, to))

\* What is added up over the players of a window are whole numbers.
LEMMA SumsAre ==
    ASSUME Recorded, NEW from \in Nat, NEW to \in Nat
    PROVE  SeenInAll(from, to) \in Nat /\ WorkInAll(from, to) \in Int /\ StoodInAll(from, to) \in Nat
<1>. DEFINE R == Reliable(from, to)
            still == Standing(from, to)
            seen == Covering(from, to)
            c == [p \in Players |-> Play!Cardinality(seen[p])]
            e == [p \in Players |-> Play!Work(streams[p], from .. (to - 1))]
            SumC(f) == [T \in SUBSET R |-> IF T = {} THEN 0 ELSE
                          LET x == CHOOSE y \in T : TRUE IN Play!Cardinality(seen[x]) + f[T \ {x}]]
            SumOfC(f) == [T \in SUBSET R |-> IF T = {} THEN 0 ELSE
                          LET x == CHOOSE y \in T : TRUE IN c[x] + f[T \ {x}]]
            SumE(f) == [T \in SUBSET R |-> IF T = {} THEN 0 ELSE
                          LET x == CHOOSE y \in T : TRUE
                          IN  Play!Work(streams[x], from .. (to - 1)) + f[T \ {x}]]
            SumOfE(f) == [T \in SUBSET R |-> IF T = {} THEN 0 ELSE
                          LET x == CHOOSE y \in T : TRUE IN e[x] + f[T \ {x}]]
<1>1. R \in SUBSET Players /\ IsFiniteSet(R)
  <2>1. R \in SUBSET Players BY DEF Reliable, Seeable, Play!Shown
  <2>. QED BY <2>1, PlayGiven, FS_Subset
<1>2. \A p \in R : c[p] \in Nat
  <2>1. IsFiniteSet(from .. (to - 1)) BY FS_Interval
  <2>2. \A p \in Players : seen[p] \in SUBSET (from .. (to - 1)) BY DEF Covering
  <2>3. \A p \in Players : Play!Cardinality(seen[p]) \in Nat
    BY <2>1, <2>2, PlayGiven, FS_Subset, FS_CardinalityType
  <2>. QED BY <1>1, <2>3
<1>3. \A p \in R : e[p] \in Int BY <1>1, WorkIs
<1>10. \A p \in R : still[p] \in Nat
  <2>1. IsFiniteSet(from .. (to - 1)) BY FS_Interval
  <2>2. ASSUME NEW T PROVE Play!Cardinality(T \intersect (from .. (to - 1))) \in Nat
    BY <2>1, PlayGiven, FS_Subset, FS_CardinalityType
  <2>. QED BY <1>1, <2>2 DEF Standing
<1>. HIDE DEF R
<1>4. SumOf(c, R) \in Nat
  <2>. HIDE DEF c
  <2>. QED BY <1>1, <1>2, SumIsTotal, TotalFinite
<1>5. SumOf(e, R) \in Int
  <2>. HIDE DEF e
  <2>. QED BY <1>1, <1>3, SumIsInt
<1>6. SumOf(still, R) \in Nat BY <1>1, <1>10, SumIsTotal, TotalFinite
<1>7. Play!MapThenSumSet(LAMBDA p : still[p], R) = SumOf(still, R)
  BY DEF Play!MapThenSumSet, Play!MapThenFoldSet, SumOf
<1>8. Play!MapThenSumSet(LAMBDA p : Play!Cardinality(seen[p]), R) = SumOf(c, R)
  <2>1. ASSUME NEW f PROVE SumC(f) = SumOfC(f)
    <3>1. \A x \in R : c[x] = Play!Cardinality(seen[x]) BY <1>1
    <3>. HIDE DEF c, seen
    <3>. QED BY <3>1
  <2>2. Play!MapThenSumSet(LAMBDA p : Play!Cardinality(seen[p]), R) = (CHOOSE f : f = SumC(f))[R]
    BY DEF Play!MapThenSumSet, Play!MapThenFoldSet
  <2>3. SumOf(c, R) = (CHOOSE f : f = SumOfC(f))[R] BY DEF SumOf
  <2>4. (CHOOSE f : f = SumC(f)) = (CHOOSE f : f = SumOfC(f))
    <3>. HIDE DEF SumC, SumOfC
    <3>. QED BY <2>1
  <2>. QED BY <2>2, <2>3, <2>4
<1>9. Play!MapThenSumSet(LAMBDA p : Play!Work(streams[p], from .. (to - 1)), R) = SumOf(e, R)
  <2>1. ASSUME NEW f PROVE SumE(f) = SumOfE(f)
    <3>1. \A x \in R : e[x] = Play!Work(streams[x], from .. (to - 1)) BY <1>1
    <3>. HIDE DEF e
    <3>. QED BY <3>1
  <2>2. Play!MapThenSumSet(LAMBDA p : Play!Work(streams[p], from .. (to - 1)), R) = (CHOOSE f : f = SumE(f))[R]
    BY DEF Play!MapThenSumSet, Play!MapThenFoldSet
  <2>3. SumOf(e, R) = (CHOOSE f : f = SumOfE(f))[R] BY DEF SumOf
  <2>4. (CHOOSE f : f = SumE(f)) = (CHOOSE f : f = SumOfE(f))
    <3>. HIDE DEF SumE, SumOfE
    <3>. QED BY <2>1
  <2>. QED BY <2>2, <2>3, <2>4
<1>. QED BY <1>4, <1>5, <1>6, <1>7, <1>8, <1>9 DEF R, SeenInAll, WorkInAll, StoodInAll

-----------------------------------------------------------------------------
(* Active play: windows and their verdicts (_classify_window), and two      *)
(* neighbours merged (_merge_interval_and_window).                          *)
\* What a window or an interval is said to be.
Visible == {"not_available", "low", "moderate", "high"}
Features ==
    [first : Nat, last : Nat, length : Nat, observed : Nat, visible : Nat, reliable : Nat,
     intensity : Int, turning : BOOLEAN, still : Int, kitchen : Nat, moving : Nat, together : BOOLEAN,
     visibility : Visible, gap : {"severe", "minor", "none"},
     continuity : {"not_available", "poor", "limited", "strong"}, lineage : SUBSET Players]

\* What is observed of the stretch it covers.
Observed(f) == /\ f.length = f.last - f.first /\ f.length # 0
               /\ f.visibility = "high" => Play!Share(f.observed, f.length, 85)

\* What is observed of a window: its bounds, and who is covered and moves together.
LEMMA WindowIs ==
    ASSUME Recorded, NEW from \in Nat, NEW to \in Nat, from < to,
           NEW f, f = Play!WindowFeatures(from, to)
    PROVE  /\ f \in Features /\ Observed(f) /\ f.first = from /\ f.last = to
           /\ f.observed = Cardinality(Play!Together(Reliable(from, to), Covering(from, to)))
           /\ f.together => Play!Together(Reliable(from, to), MovingIn(from, to)) # {}
<1>. DEFINE w == from .. (to - 1)
            length == to - from
            seen == Covering(from, to)
            R == Reliable(from, to)
            V == Seeable(from, to)
            moving == MovingIn(from, to)
            total == SeenInAll(from, to)
            work == WorkInAll(from, to)
            stood == StoodInAll(from, to)
            both == Play!Together(R, seen)
            observed == Play!Cardinality(both)
            gap == Play!GapSeverity(observed, length)
            atKitchen == {p \in R : /\ scene.players[p].kitchen
                                    /\ Play!Share(Standing(from, to)[p], length, 55)}
            movers == {p \in R : Play!Cardinality(moving[p]) >= MinMoving}
            shared == Play!Together(R, moving)
<1>1. /\ f.first = from /\ f.last = to /\ f.length = length /\ f.observed = observed
      /\ f.visible = Play!Cardinality(V) /\ f.reliable = Play!Cardinality(R)
      /\ f.intensity = IF total = 0 THEN 0 ELSE Play!Least(1000000, (250000 * work) \div (9 * total))
      /\ f.still = IF R = {} THEN 0 ELSE (6 * stood) \div Play!Cardinality(R)
      /\ f.together = (Play!Cardinality(shared) >= MinTogether)
      /\ f.visibility = Play!Visibility(Play!Cardinality(R), observed, length) /\ f.gap = gap
      /\ f.continuity = Play!Continuity(R, gap) /\ f.lineage = IF R # {} THEN R ELSE V
      /\ f.kitchen = Play!Cardinality(atKitchen) /\ f.moving = Play!Cardinality(movers)
  BY DEF Play!WindowFeatures, Reliable, Seeable, Covering, MovingIn, Standing, SeenInAll, WorkInAll, StoodInAll
<1>2. f.turning \in BOOLEAN BY DEF Play!WindowFeatures, Play!Share
<1>3. f = [first |-> f.first, last |-> f.last, length |-> f.length, observed |-> f.observed,
           visible |-> f.visible, reliable |-> f.reliable, intensity |-> f.intensity, turning |-> f.turning,
           still |-> f.still, kitchen |-> f.kitchen, moving |-> f.moving, together |-> f.together,
           visibility |-> f.visibility, gap |-> f.gap, continuity |-> f.continuity, lineage |-> f.lineage]
  BY DEF Play!WindowFeatures
<1>4. /\ V \in SUBSET Players /\ R \in SUBSET Players
      /\ atKitchen \in SUBSET Players /\ movers \in SUBSET Players
  BY DEF Reliable, Seeable, Play!Shown
<1>5. both \in SUBSET w /\ shared \in SUBSET w
  <2>1. \A p \in Players : seen[p] \in SUBSET w /\ moving[p] \in SUBSET w BY DEF Covering, MovingIn
  <2>. HIDE DEF seen, moving, w
  <2>. QED BY <1>4, <2>1 DEF Play!Together
<1>6. total \in Nat /\ work \in Int /\ stood \in Nat BY SumsAre
<1>7. length \in Nat /\ length # 0 OBVIOUS
<1>23. IsFiniteSet(w)
  <2>1. from \in Int /\ to - 1 \in Int OBVIOUS
  <2>. QED BY <2>1, FS_Interval
<1>8. f.observed = Cardinality(Play!Together(Reliable(from, to), Covering(from, to))) BY <1>1, PlayGiven
<1>9. shared = Play!Together(Reliable(from, to), MovingIn(from, to)) OBVIOUS
<1>. HIDE DEF w, length, seen, R, V, moving, total, work, stood, both, observed, gap, atKitchen, movers, shared
<1>10. \A T \in SUBSET Players : IsFiniteSet(T) /\ Play!Cardinality(T) = Cardinality(T) /\ Cardinality(T) \in Nat
  BY PlayGiven, FS_Subset, FS_CardinalityType
<1>11. \A T \in SUBSET w : Play!Cardinality(T) = Cardinality(T) /\ Cardinality(T) \in Nat
  BY <1>23, PlayGiven, FS_Subset, FS_CardinalityType
<1>12. observed \in Nat BY <1>5, <1>11 DEF observed
<1>13. f.together => shared # {}
  <2>1. Play!Cardinality({}) = 0 BY PlayGiven, FS_EmptySet
  <2>2. MinTogether \in Nat /\ MinTogether # 0 BY PlayGiven
  <2>3. Play!Cardinality(shared) >= MinTogether => shared # {}
    <3>1. shared = {} => Play!Cardinality(shared) = 0 BY <2>1
    <3>2. ~(0 >= MinTogether) BY <2>2
    <3>. QED BY <3>1, <3>2
  <2>4. f.together = (Play!Cardinality(shared) >= MinTogether) BY <1>1
  <2>. QED BY <2>3, <2>4
<1>14. R # {} => Play!Cardinality(R) # 0 BY <1>4, <1>10, FS_EmptySet
<1>15. Play!Cardinality(R) \in Nat /\ Play!Cardinality(V) \in Nat BY <1>4, <1>10
<1>16. f.intensity \in Int /\ f.still \in Int
  <2>1. ASSUME total # 0 PROVE (250000 * work) \div (9 * total) \in Int
    <3>. DEFINE a == 250000 * work
                b == 9 * total
    <3>1. a \in Int /\ b \in Nat /\ b # 0 BY <1>6, <2>1
    <3>. HIDE DEF a, b
    <3>2. a \div b \in Int BY <3>1
    <3>. QED BY <3>2 DEF a, b
  <2>2. ASSUME R # {} PROVE (6 * stood) \div Play!Cardinality(R) \in Int
    <3>. DEFINE a == 6 * stood
                b == Play!Cardinality(R)
    <3>1. a \in Int /\ b \in Nat /\ b # 0 BY <1>6, <1>14, <1>15, <2>2
    <3>. HIDE DEF a, b
    <3>2. a \div b \in Int BY <3>1
    <3>. QED BY <3>2 DEF a, b
  <2>. QED BY <1>1, <2>1, <2>2 DEF Play!Least
<1>17. /\ f.visibility \in Visible /\ f.gap \in {"severe", "minor", "none"}
       /\ f.continuity \in {"not_available", "poor", "limited", "strong"}
       /\ f.visibility = "high" => Play!Share(f.observed, f.length, 85)
  BY <1>1 DEF Play!Visibility, Visible, Play!Continuity, gap, Play!GapSeverity
<1>18. f.together \in BOOLEAN BY <1>1
<1>19. f.lineage \in SUBSET Players BY <1>1, <1>4
<1>20. /\ f.first \in Nat /\ f.last \in Nat /\ f.length \in Nat /\ f.observed \in Nat
       /\ f.visible \in Nat /\ f.reliable \in Nat /\ f.kitchen \in Nat /\ f.moving \in Nat
  BY <1>1, <1>4, <1>7, <1>10, <1>12, <1>15
<1>21. f \in Features BY <1>2, <1>3, <1>16, <1>17, <1>18, <1>19, <1>20 DEF Features
<1>22. Observed(f) BY <1>1, <1>7, <1>17 DEF Observed, length
<1>. QED BY <1>1, <1>8, <1>9, <1>13, <1>21, <1>22

\* What is said of a window and of an interval, and what justifies it.
Why == Play!Excuses \union
       {"no_observations", "one_player_only", "sufficient_tracked_coverage", "tracking_gap",
        "fragmented_candidates", "sustained_multi_player_movement", "simultaneous_movement",
        "meaningful_direction_changes", "stationary_player_with_active_peers", "sustained_low_movement",
        "stable_low_activity", "kitchen_low_movement_safeguard"}
Levels == {"not_available", "low", "moderate"}
Signals == [f : Features, state : {"likely_active", "likely_idle", "unknown"}, confidence : Levels,
            windows : Nat, reasons : SUBSET Why]
Justified(i) ==
    /\ Observed(i.f)
    /\ i.state # "unknown" => ~Play!Unclassifiable(i.f) /\ i.confidence = Play!SupportedConfidence(i.f)
    /\ i.state = "likely_active" => Play!ActiveEvidence(i.f)
    /\ i.state = "likely_idle" => Play!IdleEvidence(i.f)

\* The verdict on a window, and the reasons it gives.
LEMMA VerdictIs ==
    ASSUME Recorded, NEW f \in Features, Observed(f), NEW v, v = Play!ClassifyWindow(f)
    PROVE  /\ v \in Signals /\ Justified(v) /\ v.f = f /\ v.windows = 1
           /\ v.state = "unknown" <=> v.reasons \intersect Play!Excuses # {}
<1>. DEFINE blockers == Play!Blockers(f)
            reasons == Play!FeatureReasons(f)
<1>1. /\ reasons \in SUBSET Why
      /\ "insufficient_reliable_players" \in reasons <=> f.reliable < 2
      /\ "insufficient_tracked_coverage" \in reasons <=> ~Play!Share(f.observed, f.length, 65)
      /\ "severe_tracking_gaps" \in reasons <=> f.gap = "severe"
      /\ {"unsuitable_recording", "short_context", "stale_source_artifact", "conflicting_evidence"}
            \intersect reasons = {}
  <2>1. ASSUME NEW x
        PROVE  x \in reasons <=>
                  \/ x = "no_observations" /\ f.visible = 0
                  \/ x = "insufficient_reliable_players" /\ f.reliable < 2
                  \/ x = "one_player_only" /\ f.reliable = 1
                  \/ x = "sufficient_tracked_coverage" /\ Play!Share(f.observed, f.length, 65)
                  \/ x = "insufficient_tracked_coverage" /\ ~Play!Share(f.observed, f.length, 65)
                  \/ x = "tracking_gap" /\ f.gap # "none"
                  \/ x = "severe_tracking_gaps" /\ f.gap = "severe"
                  \/ x = "fragmented_candidates" /\ f.continuity \in {"limited", "poor"}
    BY DEF Play!FeatureReasons, Play!Reason
  <2>. HIDE DEF reasons
  <2>2. reasons \in SUBSET Why BY <2>1 DEF Why, Play!Excuses
  <2>3. /\ "insufficient_reliable_players" \in reasons <=> f.reliable < 2
        /\ "insufficient_tracked_coverage" \in reasons <=> ~Play!Share(f.observed, f.length, 65)
        /\ "severe_tracking_gaps" \in reasons <=> f.gap = "severe"
    BY <2>1
  <2>4. {"unsuitable_recording", "short_context", "stale_source_artifact", "conflicting_evidence"}
            \intersect reasons = {}
    BY <2>1
  <2>. QED BY <2>2, <2>3, <2>4
<1>2. blockers \in SUBSET {"unsuitable_recording", "short_context", "stale_source_artifact"}
  BY DEF Play!Blockers, Play!Reason
<1>. HIDE DEF blockers, reasons
<1>3. Play!Unclassifiable(f) <=> (reasons \union blockers) \intersect Play!Excuses # {}
  BY <1>1, <1>2 DEF Play!Unclassifiable, Play!Excuses, blockers
<1>4. Play!SupportedConfidence(f) \in Levels BY DEF Play!SupportedConfidence, Levels
<1>5. ASSUME NEW state \in {"likely_active", "likely_idle", "unknown"}, NEW confidence \in Levels,
             NEW more \in SUBSET Why, v = Play!Classified(f, state, confidence, more)
      PROVE  /\ v \in Signals /\ v.f = f /\ v.windows = 1 /\ v.state = state /\ v.confidence = confidence
             /\ v.reasons = reasons \union blockers \union more
  <2>1. v = [f |-> f, state |-> state, confidence |-> confidence, windows |-> 1,
             reasons |-> reasons \union blockers \union more]
    BY <1>5 DEF Play!Classified, reasons, blockers
  <2>3. blockers \in SUBSET Why BY <1>2 DEF Why, Play!Excuses
  <2>2. reasons \union blockers \union more \in SUBSET Why BY <1>1, <2>3
  <2>. QED BY <2>1, <2>2 DEF Signals
<1>6. CASE Play!Unclassifiable(f)
  <2>1. v = Play!Classified(f, "unknown", "not_available", {}) BY <1>6 DEF Play!ClassifyWindow
  <2>2. "not_available" \in Levels /\ {} \in SUBSET Why BY DEF Levels
  <2>. QED BY <1>3, <1>5, <1>6, <2>1, <2>2 DEF Justified
<1>7. CASE ~Play!Unclassifiable(f) /\ Play!ActiveEvidence(f)
  <2>. DEFINE more == {"sustained_multi_player_movement", "simultaneous_movement"}
                        \union Play!Reason("meaningful_direction_changes", f.turning)
                        \union Play!Reason("stationary_player_with_active_peers", f.moving < f.reliable)
  <2>1. v = Play!Classified(f, "likely_active", Play!SupportedConfidence(f), more)
    BY <1>7 DEF Play!ClassifyWindow
  <2>2. more \in SUBSET Why /\ more \intersect Play!Excuses = {} BY DEF Play!Reason, Play!Excuses, Why
  <2>. HIDE DEF more
  <2>. QED BY <1>3, <1>4, <1>5, <1>7, <2>1, <2>2 DEF Justified
<1>8. CASE ~Play!Unclassifiable(f) /\ ~Play!ActiveEvidence(f) /\ Play!IdleEvidence(f)
  <2>. DEFINE more == {"sustained_low_movement", "stable_low_activity"}
  <2>1. v = Play!Classified(f, "likely_idle", Play!SupportedConfidence(f), more)
    BY <1>8 DEF Play!ClassifyWindow
  <2>2. more \in SUBSET Why /\ more \intersect Play!Excuses = {} BY DEF Play!Excuses, Why
  <2>. HIDE DEF more
  <2>. QED BY <1>3, <1>4, <1>5, <1>8, <2>1, <2>2 DEF Justified
<1>9. CASE ~Play!Unclassifiable(f) /\ ~Play!ActiveEvidence(f) /\ ~Play!IdleEvidence(f)
  <2>. DEFINE more == {"conflicting_evidence"} \union Play!Reason("kitchen_low_movement_safeguard", f.kitchen > 0)
  <2>1. v = Play!Classified(f, "unknown", "low", more) BY <1>9 DEF Play!ClassifyWindow
  <2>2. more \in SUBSET Why /\ "conflicting_evidence" \in more \intersect Play!Excuses
    BY DEF Play!Reason, Play!Excuses, Why
  <2>3. "low" \in Levels BY DEF Levels
  <2>. HIDE DEF more
  <2>. QED BY <1>5, <1>9, <2>1, <2>2, <2>3 DEF Justified
<1>. QED BY <1>6, <1>7, <1>8, <1>9

\* Two levels of a scale of n and the best of it, which is there once.
Graded(n, scale, a, b, best) ==
    /\ n \in Nat \ {0} /\ DOMAIN scale = 1 .. n /\ best = scale[n]
    /\ \A j \in 1 .. (n - 1) : scale[j] # best
    /\ \E j \in 1 .. n : scale[j] = a
    /\ \E j \in 1 .. n : scale[j] = b

\* The weaker of two levels is one of them, and the best only if both are.
LEMMA WeakerIs ==
    ASSUME NEW n, NEW scale, NEW a, NEW b, NEW best, Graded(n, scale, a, b, best)
    PROVE  /\ Play!Weaker(scale, a, b) \in {a, b}
           /\ Play!Weaker(scale, a, b) = best => a = best /\ b = best
<1>. USE DEF Graded
<1>. DEFINE K == {k \in DOMAIN scale : scale[k] \in {a, b}}
            k == Play!Min(K)
<1>1. K \in SUBSET Nat /\ K # {} /\ K \in SUBSET (1 .. n) OBVIOUS
<1>2. IsFiniteSet(K)
  <2>1. IsFiniteSet(1 .. n) BY FS_Interval
  <2>. HIDE DEF K
  <2>. QED BY <1>1, <2>1, FS_Subset
<1>3. k \in K /\ \A j \in K : k <= j
  <2>. HIDE DEF K
  <2>1. \E x \in K : \A j \in K : x <= j BY <1>1, <1>2, ExtremesExist
  <2>. QED BY <2>1 DEF Play!Min
<1>4. Play!Weaker(scale, a, b) = scale[k] BY DEF Play!Weaker
<1>. HIDE DEF k
<1>5. scale[k] \in {a, b} BY <1>3
<1>6. ASSUME scale[k] = scale[n] PROVE a = scale[n] /\ b = scale[n]
  <2>1. k = n
    <3>1. k \in 1 .. n /\ k \notin 1 .. (n - 1) BY <1>3, <1>6
    <3>. QED BY <3>1
  <2>2. \A j \in 1 .. n : scale[j] \in {a, b} => j = n BY <1>3, <2>1
  <2>. QED BY <2>2
<1>. QED BY <1>4, <1>5, <1>6

\* So it is with every scale that is merged by its weaker level.
LEMMA WeakerLevels ==
    /\ \A a, b \in Levels : /\ Play!Weaker(Play!Confidences, a, b) \in {a, b}
                            /\ Play!Weaker(Play!Confidences, a, b) = "moderate" => a = "moderate" /\ b = "moderate"
    /\ \A a, b \in Visible : /\ Play!Weaker(Play!Visibilities, a, b) \in {a, b}
                             /\ Play!Weaker(Play!Visibilities, a, b) = "high" => a = "high" /\ b = "high"
    /\ \A a, b \in {"severe", "minor", "none"} : Play!Weaker(Play!Gaps, a, b) \in {a, b}
    /\ \A a, b \in {"not_available", "poor", "limited", "strong"} :
          /\ Play!Weaker(Play!Continuities, a, b) \in {a, b}
          /\ Play!Weaker(Play!Continuities, a, b) = "strong" => a = "strong" /\ b = "strong"
<1>. DEFINE c == Play!Confidences
            v == Play!Visibilities
            g == Play!Gaps
            o == Play!Continuities
<1>1. /\ DOMAIN c = 1 .. 3 /\ c[1] = "not_available" /\ c[2] = "low" /\ c[3] = "moderate"
      /\ DOMAIN g = 1 .. 3 /\ g[1] = "severe" /\ g[2] = "minor" /\ g[3] = "none"
      /\ DOMAIN v = 1 .. 4 /\ v[1] = "not_available" /\ v[2] = "low" /\ v[3] = "moderate" /\ v[4] = "high"
      /\ DOMAIN o = 1 .. 4 /\ o[1] = "not_available" /\ o[2] = "poor" /\ o[3] = "limited" /\ o[4] = "strong"
  BY DEF Play!Confidences, Play!Visibilities, Play!Gaps, Play!Continuities
<1>. HIDE DEF c, v, g, o
<1>2. ASSUME NEW a \in Levels, NEW b \in Levels
      PROVE  /\ Play!Weaker(c, a, b) \in {a, b}
             /\ Play!Weaker(c, a, b) = "moderate" => a = "moderate" /\ b = "moderate"
  <2>1. (\E j \in 1 .. 3 : c[j] = a) /\ (\E j \in 1 .. 3 : c[j] = b) BY <1>1 DEF Levels, Visible
  <2>2. (\A j \in 1 .. (3 - 1) : c[j] # "moderate") /\ DOMAIN c = 1 .. 3 /\ "moderate" = c[3] BY <1>1
  <2>3. Graded(3, c, a, b, "moderate") BY <2>1, <2>2 DEF Graded
  <2>. QED BY <2>3, WeakerIs
<1>3. ASSUME NEW a \in Visible, NEW b \in Visible
      PROVE  /\ Play!Weaker(v, a, b) \in {a, b}
             /\ Play!Weaker(v, a, b) = "high" => a = "high" /\ b = "high"
  <2>1. (\E j \in 1 .. 4 : v[j] = a) /\ (\E j \in 1 .. 4 : v[j] = b) BY <1>1 DEF Levels, Visible
  <2>2. (\A j \in 1 .. (4 - 1) : v[j] # "high") /\ DOMAIN v = 1 .. 4 /\ "high" = v[4] BY <1>1
  <2>3. Graded(4, v, a, b, "high") BY <2>1, <2>2 DEF Graded
  <2>. QED BY <2>3, WeakerIs
<1>4. ASSUME NEW a \in {"severe", "minor", "none"}, NEW b \in {"severe", "minor", "none"}
      PROVE  /\ Play!Weaker(g, a, b) \in {a, b}
             /\ Play!Weaker(g, a, b) = "none" => a = "none" /\ b = "none"
  <2>1. (\E j \in 1 .. 3 : g[j] = a) /\ (\E j \in 1 .. 3 : g[j] = b) BY <1>1 DEF Levels, Visible
  <2>2. (\A j \in 1 .. (3 - 1) : g[j] # "none") /\ DOMAIN g = 1 .. 3 /\ "none" = g[3] BY <1>1
  <2>3. Graded(3, g, a, b, "none") BY <2>1, <2>2 DEF Graded
  <2>. QED BY <2>3, WeakerIs
<1>5. ASSUME NEW a \in {"not_available", "poor", "limited", "strong"}, NEW b \in {"not_available", "poor", "limited", "strong"}
      PROVE  /\ Play!Weaker(o, a, b) \in {a, b}
             /\ Play!Weaker(o, a, b) = "strong" => a = "strong" /\ b = "strong"
  <2>1. (\E j \in 1 .. 4 : o[j] = a) /\ (\E j \in 1 .. 4 : o[j] = b) BY <1>1 DEF Levels, Visible
  <2>2. (\A j \in 1 .. (4 - 1) : o[j] # "strong") /\ DOMAIN o = 1 .. 4 /\ "strong" = o[4] BY <1>1
  <2>3. Graded(4, o, a, b, "strong") BY <2>1, <2>2 DEF Graded
  <2>. QED BY <2>3, WeakerIs
<1>6. \A a, b \in Levels : /\ Play!Weaker(c, a, b) \in {a, b}
                           /\ Play!Weaker(c, a, b) = "moderate" => a = "moderate" /\ b = "moderate"
  BY <1>1, <1>2
<1>7. \A a, b \in Visible : /\ Play!Weaker(v, a, b) \in {a, b}
                            /\ Play!Weaker(v, a, b) = "high" => a = "high" /\ b = "high"
  BY <1>1, <1>3
<1>8. \A a, b \in {"not_available", "poor", "limited", "strong"} :
          /\ Play!Weaker(o, a, b) \in {a, b}
          /\ Play!Weaker(o, a, b) = "strong" => a = "strong" /\ b = "strong"
  BY <1>1, <1>5
<1>. QED BY <1>4, <1>6, <1>7, <1>8 DEF c, v, g, o

\* Two weighted values and a bound.
Weighted(a, n, b, m, c) == a \in Int /\ b \in Int /\ n \in Nat \ {0} /\ m \in Nat \ {0} /\ c \in Int

\* An average lies where both of its values lie.
LEMMA AverageIs ==
    ASSUME NEW a, NEW n, NEW b, NEW m, NEW c, Weighted(a, n, b, m, c)
    PROVE  /\ Play!Average(a, n, b, m) \in Int
           /\ a >= c /\ b >= c => Play!Average(a, n, b, m) >= c
           /\ a <= c /\ b <= c => Play!Average(a, n, b, m) <= c
<1>. USE DEF Weighted
<1>. DEFINE x == a * n + b * m
            d == n + m
            q == x \div d
<1>1. Play!Average(a, n, b, m) = q BY DEF Play!Average
<1>2. x \in Int /\ d \in Nat \ {0} OBVIOUS
<1>3. q \in Int /\ q * d <= x /\ x < (q + 1) * d
  <2>. HIDE DEF x, d
  <2>. QED BY <1>2
<1>4. (a >= c /\ b >= c => q >= c) /\ (a <= c /\ b <= c => q <= c)
  <2>1. a >= c /\ b >= c => x >= c * d
    <3>1. a >= c => a * n >= c * n OBVIOUS
    <3>2. b >= c => b * m >= c * m OBVIOUS
    <3>3. c * d = c * n + c * m OBVIOUS
    <3>. QED BY <3>1, <3>2, <3>3
  <2>2. a <= c /\ b <= c => x <= c * d
    <3>1. a <= c => a * n <= c * n OBVIOUS
    <3>2. b <= c => b * m <= c * m OBVIOUS
    <3>3. c * d = c * n + c * m OBVIOUS
    <3>. QED BY <3>1, <3>2, <3>3
  <2>. HIDE DEF x, d, q
  <2>3. ASSUME x >= c * d PROVE q >= c
    <3>1. SUFFICES ASSUME q + 1 <= c PROVE FALSE BY <1>3
    <3>2. (q + 1) * d <= c * d BY <1>2, <1>3, <3>1
    <3>. QED BY <1>2, <1>3, <2>3, <3>2
  <2>4. ASSUME x <= c * d PROVE q <= c
    <3>1. SUFFICES ASSUME c + 1 <= q PROVE FALSE BY <1>3
    <3>2. (c + 1) * d <= q * d BY <1>2, <1>3, <3>1
    <3>3. (c + 1) * d = c * d + d BY <1>2
    <3>. QED BY <1>2, <1>3, <2>4, <3>2, <3>3
  <2>. QED BY <2>1, <2>2, <2>3, <2>4
<1>. HIDE DEF q
<1>. QED BY <1>1, <1>3, <1>4

\* The greater of two numbers.
LEMMA MaxIs ==
    ASSUME NEW a \in Nat, NEW b \in Nat
    PROVE  Play!Max({a, b}) \in Nat /\ (a = 0 /\ b = 0 => Play!Max({a, b}) = 0)
<1>1. \E x \in {a, b} : \A y \in {a, b} : x >= y
  <2>1. a >= b \/ b >= a OBVIOUS
  <2>2. a >= a /\ b >= b OBVIOUS
  <2>. QED BY <2>1, <2>2
<1>2. Play!Max({a, b}) \in {a, b} BY <1>1 DEF Play!Max
<1>. QED BY <1>2

\* Two neighbouring stretches make one that is justified where both are.
LEMMA MergeIs ==
    ASSUME Recorded, NEW i \in Signals, NEW w \in Signals, Justified(i), Justified(w),
           i.state = w.state, i.f.last = w.f.first, NEW v, v = Play!MergeIntervalAndWindow(i, w)
    PROVE  /\ v \in Signals /\ Justified(v) /\ v.state = i.state /\ v.windows = i.windows + 1
           /\ v.f.first = i.f.first /\ v.f.last = w.f.last
           /\ v.confidence = "moderate" => i.confidence = "moderate" /\ w.confidence = "moderate"
<1>. DEFINE a == i.f
            b == w.f
            c == v.f
<1>1. a \in Features /\ b \in Features /\ Observed(a) /\ Observed(b) BY DEF Signals, Justified
<1>2. v = [f |-> Play!MergeFeatures(a, b), state |-> i.state, windows |-> i.windows + 1,
           confidence |-> Play!Weaker(Play!Confidences, i.confidence, w.confidence),
           reasons |-> i.reasons \union w.reasons]
  BY DEF Play!MergeIntervalAndWindow
<1>3. c = [first |-> a.first, last |-> b.last, length |-> a.length + b.length,
           observed |-> a.observed + b.observed,
           visible |-> Play!Least(a.visible, b.visible), reliable |-> Play!Least(a.reliable, b.reliable),
           intensity |-> Play!Average(a.intensity, a.length, b.intensity, b.length),
           turning |-> a.turning \/ b.turning, still |-> a.still + b.still,
           kitchen |-> Play!Max({a.kitchen, b.kitchen}), moving |-> Play!Least(a.moving, b.moving),
           together |-> a.together /\ b.together,
           visibility |-> Play!Weaker(Play!Visibilities, a.visibility, b.visibility),
           gap |-> Play!Weaker(Play!Gaps, a.gap, b.gap),
           continuity |-> Play!Weaker(Play!Continuities, a.continuity, b.continuity),
           lineage |-> a.lineage \union b.lineage]
  BY <1>2 DEF Play!MergeFeatures
<1>4. i.confidence \in Levels /\ w.confidence \in Levels /\ i.windows \in Nat
      /\ i.reasons \in SUBSET Why /\ w.reasons \in SUBSET Why
      /\ i.state \in {"likely_active", "likely_idle", "unknown"}
  BY DEF Signals
<1>5. /\ v.state = i.state /\ v.windows = i.windows + 1 /\ v.confidence \in Levels
      /\ v.confidence \in {i.confidence, w.confidence}
      /\ v.confidence = "moderate" => i.confidence = "moderate" /\ w.confidence = "moderate"
  BY <1>2, <1>4, WeakerLevels
<1>6. a.last = b.first OBVIOUS
<1>. HIDE DEF a, b, c
<1>7. /\ a.first \in Nat /\ a.last \in Nat /\ a.length \in Nat \ {0} /\ a.observed \in Nat
      /\ a.visible \in Nat /\ a.reliable \in Nat /\ a.intensity \in Int /\ a.turning \in BOOLEAN
      /\ a.still \in Int /\ a.kitchen \in Nat /\ a.moving \in Nat /\ a.together \in BOOLEAN
      /\ a.visibility \in Visible /\ a.gap \in {"severe", "minor", "none"}
      /\ a.continuity \in {"not_available", "poor", "limited", "strong"} /\ a.lineage \in SUBSET Players
  BY <1>1 DEF Features, Observed
<1>8. /\ b.first \in Nat /\ b.last \in Nat /\ b.length \in Nat \ {0} /\ b.observed \in Nat
      /\ b.visible \in Nat /\ b.reliable \in Nat /\ b.intensity \in Int /\ b.turning \in BOOLEAN
      /\ b.still \in Int /\ b.kitchen \in Nat /\ b.moving \in Nat /\ b.together \in BOOLEAN
      /\ b.visibility \in Visible /\ b.gap \in {"severe", "minor", "none"}
      /\ b.continuity \in {"not_available", "poor", "limited", "strong"} /\ b.lineage \in SUBSET Players
  BY <1>1 DEF Features, Observed
<1>9. /\ c.first = a.first /\ c.last = b.last /\ c.length = a.length + b.length
      /\ c.observed = a.observed + b.observed /\ c.still = a.still + b.still
      /\ c.turning = (a.turning \/ b.turning) /\ c.together = (a.together /\ b.together)
      /\ c.lineage = a.lineage \union b.lineage
  BY <1>3
<1>10. /\ c.visible \in {a.visible, b.visible} /\ c.reliable \in {a.reliable, b.reliable}
       /\ c.moving \in {a.moving, b.moving}
  BY <1>3 DEF Play!Least
<1>11. c.kitchen \in Nat /\ (a.kitchen = 0 /\ b.kitchen = 0 => c.kitchen = 0)
  BY <1>3, <1>7, <1>8, MaxIs
<1>12. /\ c.intensity \in Int
       /\ a.intensity >= 250000 /\ b.intensity >= 250000 => c.intensity >= 250000
       /\ a.intensity <= 120000 /\ b.intensity <= 120000 => c.intensity <= 120000
  <2>1. c.intensity = Play!Average(a.intensity, a.length, b.intensity, b.length) BY <1>3
  <2>. DEFINE low == 120000
              high == 250000
  <2>2. Weighted(a.intensity, a.length, b.intensity, b.length, low)
        /\ Weighted(a.intensity, a.length, b.intensity, b.length, high)
    BY <1>7, <1>8, SMT DEF Weighted
  <2>. HIDE DEF low, high
  <2>3. /\ c.intensity \in Int
        /\ a.intensity >= high /\ b.intensity >= high => c.intensity >= high
    BY <2>1, <2>2, AverageIs
  <2>4. a.intensity <= low /\ b.intensity <= low => c.intensity <= low
    BY <2>1, <2>2, AverageIs
  <2>. QED BY <2>3, <2>4 DEF low, high
<1>13. /\ c.visibility \in {a.visibility, b.visibility}
       /\ c.visibility = "high" => a.visibility = "high" /\ b.visibility = "high"
       /\ c.gap \in {a.gap, b.gap} /\ c.continuity \in {a.continuity, b.continuity}
       /\ c.continuity = "strong" => a.continuity = "strong" /\ b.continuity = "strong"
  <2>1. /\ c.visibility = Play!Weaker(Play!Visibilities, a.visibility, b.visibility)
        /\ c.gap = Play!Weaker(Play!Gaps, a.gap, b.gap)
        /\ c.continuity = Play!Weaker(Play!Continuities, a.continuity, b.continuity)
    BY <1>3
  <2>. QED BY <1>7, <1>8, <2>1, WeakerLevels
<1>14. c \in Features
  <2>1. /\ c.first \in Nat /\ c.last \in Nat /\ c.length \in Nat /\ c.observed \in Nat
        /\ c.visible \in Nat /\ c.reliable \in Nat /\ c.intensity \in Int /\ c.turning \in BOOLEAN
        /\ c.still \in Int /\ c.kitchen \in Nat /\ c.moving \in Nat /\ c.together \in BOOLEAN
        /\ c.visibility \in Visible /\ c.gap \in {"severe", "minor", "none"}
        /\ c.continuity \in {"not_available", "poor", "limited", "strong"} /\ c.lineage \in SUBSET Players
    BY <1>7, <1>8, <1>9, <1>10, <1>11, <1>12, <1>13
  <2>2. c = [first |-> c.first, last |-> c.last, length |-> c.length, observed |-> c.observed,
             visible |-> c.visible, reliable |-> c.reliable, intensity |-> c.intensity, turning |-> c.turning,
             still |-> c.still, kitchen |-> c.kitchen, moving |-> c.moving, together |-> c.together,
             visibility |-> c.visibility, gap |-> c.gap, continuity |-> c.continuity, lineage |-> c.lineage]
    BY <1>3
  <2>. QED BY <2>1, <2>2 DEF Features
<1>15. v \in Signals
  <2>1. v = [f |-> c, state |-> v.state, confidence |-> v.confidence, windows |-> v.windows,
             reasons |-> v.reasons]
    BY <1>2 DEF c
  <2>2. v.reasons \in SUBSET Why /\ v.windows \in Nat BY <1>2, <1>4
  <2>. QED BY <1>4, <1>5, <1>14, <2>1, <2>2 DEF Signals
<1>16. ASSUME NEW percent \in {55, 65, 85}, NEW k \in {1, 6}, NEW x \in Int, NEW y \in Int,
              Play!Share(x, k * a.length, percent), Play!Share(y, k * b.length, percent)
       PROVE  Play!Share(x + y, k * c.length, percent)
  BY <1>7, <1>8, <1>9, <1>16 DEF Play!Share
<1>17. ASSUME NEW percent \in {65, 85}, Play!Share(a.observed, a.length, percent),
              Play!Share(b.observed, b.length, percent)
       PROVE  Play!Share(c.observed, c.length, percent)
  BY <1>7, <1>8, <1>9, <1>17 DEF Play!Share
<1>18. Observed(c) BY <1>1, <1>6, <1>7, <1>8, <1>9, <1>13, <1>17 DEF Observed
<1>19. ASSUME i.state # "unknown"
       PROVE  ~Play!Unclassifiable(c) /\ v.confidence = Play!SupportedConfidence(c)
  <2>1. /\ ~Play!Unclassifiable(a) /\ ~Play!Unclassifiable(b)
        /\ i.confidence = Play!SupportedConfidence(a) /\ w.confidence = Play!SupportedConfidence(b)
    BY <1>19 DEF Justified, a, b
  <2>2. ~Play!Unclassifiable(c)
    <3>1. Play!Blockers(c) = {}
      <4>1. scene.suitable /\ ~(scene.length < MinContext) /\ scene.current /\ ~(a.length < WindowTicks)
        BY <2>1 DEF Play!Unclassifiable, Play!Blockers, Play!Reason
      <4>2. ~(c.length < WindowTicks)
        <5>1. WindowTicks \in Nat BY PlayGiven
        <5>. QED BY <1>7, <1>8, <1>9, <4>1, <5>1
      <4>. QED BY <4>1, <4>2 DEF Play!Blockers, Play!Reason
    <3>2. ~(c.reliable < 2) /\ c.gap # "severe"
      BY <1>10, <1>13, <2>1 DEF Play!Unclassifiable
    <3>3. Play!Share(c.observed, c.length, 65) BY <1>17, <2>1 DEF Play!Unclassifiable
    <3>. QED BY <3>1, <3>2, <3>3 DEF Play!Unclassifiable
  <2>3. CASE i.confidence = "moderate" /\ w.confidence = "moderate"
    <3>1. /\ Play!Share(a.observed, a.length, 85) /\ a.continuity = "strong" /\ a.visibility = "high"
          /\ Play!Share(b.observed, b.length, 85) /\ b.continuity = "strong" /\ b.visibility = "high"
      BY <2>1, <2>3 DEF Play!SupportedConfidence
    <3>2. Play!Share(c.observed, c.length, 85) /\ c.continuity = "strong" /\ c.visibility = "high"
      BY <1>13, <1>17, <3>1
    <3>. QED BY <1>5, <2>2, <2>3, <3>2 DEF Play!SupportedConfidence
  <2>4. CASE ~(i.confidence = "moderate" /\ w.confidence = "moderate")
    <3>1. i.confidence \in {"low", "moderate"} /\ w.confidence \in {"low", "moderate"}
      BY <2>1 DEF Play!SupportedConfidence
    <3>2. v.confidence = "low" BY <1>5, <2>4, <3>1
    <3>3. ~(c.continuity = "strong" /\ c.visibility = "high")
      <4>1. SUFFICES ASSUME c.continuity = "strong", c.visibility = "high" PROVE FALSE OBVIOUS
      <4>2. /\ Play!Share(a.observed, a.length, 85) /\ a.continuity = "strong" /\ a.visibility = "high"
            /\ Play!Share(b.observed, b.length, 85) /\ b.continuity = "strong" /\ b.visibility = "high"
        BY <1>1, <1>13, <4>1 DEF Observed
      <4>. QED BY <2>1, <2>4, <4>2 DEF Play!SupportedConfidence
    <3>. QED BY <2>2, <3>2, <3>3 DEF Play!SupportedConfidence
  <2>. QED BY <2>3, <2>4
<1>20. ASSUME i.state = "likely_active" PROVE Play!ActiveEvidence(c)
  <2>1. Play!ActiveEvidence(a) /\ Play!ActiveEvidence(b) BY <1>20 DEF Justified, a, b
  <2>2. /\ a.moving >= 2 /\ b.moving >= 2 /\ a.intensity >= 250000 /\ b.intensity >= 250000
        /\ a.together /\ b.together
    BY <2>1 DEF Play!ActiveEvidence
  <2>3. a.together /\ b.together BY <2>2
  <2>4. c.together = (a.together /\ b.together) BY <1>9
  <2>5. c.together BY <2>3, <2>4, Zenon
  <2>6. c.moving >= 2 /\ c.intensity >= 250000 BY <1>10, <1>12, <2>2
  <2>. QED BY <2>5, <2>6 DEF Play!ActiveEvidence
<1>21. ASSUME i.state = "likely_idle" PROVE Play!IdleEvidence(c)
  <2>1. Play!IdleEvidence(a) /\ Play!IdleEvidence(b) BY <1>21 DEF Justified, a, b
  <2>2. Play!Share(c.still, 6 * c.length, 55)
    BY <1>7, <1>8, <1>9, <1>16, <2>1 DEF Play!IdleEvidence
  <2>. QED BY <1>10, <1>11, <1>12, <2>1, <2>2 DEF Play!IdleEvidence
<1>22. Justified(v) BY <1>5, <1>18, <1>19, <1>20, <1>21 DEF Justified, c
<1>. QED BY <1>5, <1>9, <1>15, <1>22 DEF a, b, c

-----------------------------------------------------------------------------
(* Active play: the invariant of windows and intervals.                     *)
\* Window k ends where the next one begins or the recording ends.
End(k) == Play!Least(scene.length, k * WindowTicks)

\* Two sound players are followed at one moment in a window that is classified,
\* and move in one that is active.
Pair(p, q, u) == p # q /\ Play!Sound(p) /\ Play!Sound(q) /\ Play!Followed(p, u) /\ Play!Followed(q, u)
Shared(v) ==
    v.state # "unknown" =>
        /\ scene.suitable /\ scene.current /\ scene.length >= MinContext
        /\ Play!Share(Play!Cardinality({u \in Play!DuringOf(v) : \E p, q \in Players : Pair(p, q, u)}),
                      WindowTicks, 65)
        /\ v.state = "likely_active" =>
              \E p, q \in Players : \E u \in Play!DuringOf(v) :
                  Pair(p, q, u) /\ Play!Moves(p, u, u + 1) /\ Play!Moves(q, u, u + 1)
\* What is said of window k.
Says(v, k) ==
    /\ v.f.first = (k - 1) * WindowTicks /\ v.f.last = End(k) /\ v.f.first < v.f.last /\ v.windows = 1
    /\ v.state = "unknown" <=> v.reasons \intersect Play!Excuses # {}
    /\ Shared(v)

\* Interval i consists of the windows a + 1 to b, and says no more than they do.
Spans(i, a, b) ==
    /\ a < b /\ i.f.first = a * WindowTicks /\ i.f.last = End(b) /\ i.windows = b - a
    /\ \A n \in (a + 1) .. b :
          windows[n].state = i.state /\ (i.confidence = "moderate" => windows[n].confidence = "moderate")

\* The windows so far lie within the recording; the intervals are justified, made
\* of windows, one after the other, and neighbours differ.
PlayInv ==
    /\ Recorded
    /\ windows \in Seq(Signals) /\ intervals \in Seq(Signals) /\ Len(intervals) <= Len(windows)
    /\ \A k \in 1 .. Len(windows) : Says(windows[k], k)
    /\ \A k \in 1 .. Len(intervals) :
          /\ Justified(intervals[k])
          /\ \E a \in 0 .. Len(windows), b \in 1 .. Len(windows) : Spans(intervals[k], a, b)
    /\ \A k \in 2 .. Len(intervals) : /\ intervals[k].f.first = intervals[k - 1].f.last
                                      /\ intervals[k].state # intervals[k - 1].state
    /\ windows # <<>> => /\ intervals # <<>> /\ intervals[1].f.first = 0
                         /\ intervals[Len(intervals)].f.last = End(Len(windows))

\* Before the first window there is nothing to justify.
LEMMA PlayInit == ASSUME Play!Init PROVE PlayInv
<1>1. Recorded /\ windows = <<>> /\ intervals = <<>> BY DEF Play!Init, Recorded
<1>2. Len(windows) = 0 /\ Len(intervals) = 0 /\ windows \in Seq(Signals) /\ intervals \in Seq(Signals) BY <1>1
<1>3. 1 .. 0 = {} /\ 2 .. 0 = {} OBVIOUS
<1>. QED BY <1>1, <1>2, <1>3 DEF PlayInv

\* What holds of the verdict on a window that begins within the recording.
LEMMA VerdictSays ==
    ASSUME Recorded, NEW k \in Nat \ {0}, (k - 1) * WindowTicks < scene.length,
           NEW v, v = Play!ClassifyWindow(Play!WindowFeatures((k - 1) * WindowTicks, End(k)))
    PROVE  v \in Signals /\ Justified(v) /\ Says(v, k)
<1>. DEFINE from == (k - 1) * WindowTicks
            to == End(k)
            f == Play!WindowFeatures(from, to)
            R == Reliable(from, to)
            followed == {u \in Play!DuringOf(v) : \E p, q \in Players : Pair(p, q, u)}
<1>1. scene.length \in Nat /\ WindowTicks \in Nat \ {0} BY PlayGiven DEF Recorded
<1>2. from \in Nat /\ to \in Nat /\ from < to /\ to - from <= WindowTicks
  <2>1. k * WindowTicks = (k - 1) * WindowTicks + WindowTicks BY <1>1
  <2>2. (k - 1) * WindowTicks \in Nat BY <1>1
  <2>. QED BY <1>1, <2>1, <2>2 DEF End, Play!Least
<1>3. v = Play!ClassifyWindow(f) OBVIOUS
<1>. HIDE DEF from, to
<1>4. /\ f \in Features /\ Observed(f) /\ f.first = from /\ f.last = to
      /\ f.observed = Cardinality(Play!Together(R, Covering(from, to)))
      /\ f.together => Play!Together(R, MovingIn(from, to)) # {}
  BY <1>2, WindowIs
<1>. HIDE DEF f
<1>5. /\ v \in Signals /\ Justified(v) /\ v.f = f /\ v.windows = 1
      /\ v.state = "unknown" <=> v.reasons \intersect Play!Excuses # {}
  BY <1>3, <1>4, VerdictIs
<1>6. Play!DuringOf(v) = from .. (to - 1) BY <1>4, <1>5 DEF Play!DuringOf
<1>7. R \in SUBSET Players /\ \A p \in R : Play!BaseReliable(p) BY DEF Reliable, Seeable, Play!Shown
<1>8. \A u \in Play!Together(R, Covering(from, to)) :
          u \in from .. (to - 1) /\ \E p, q \in Players : Pair(p, q, u)
  BY <1>7, TogetherIsFollowed DEF Pair
<1>9. \A u \in Play!Together(R, MovingIn(from, to)) :
          /\ u \in from .. (to - 1)
          /\ \E p, q \in Players : Pair(p, q, u) /\ Play!Moves(p, u, u + 1) /\ Play!Moves(q, u, u + 1)
  BY <1>7, TogetherIsFollowed DEF Pair
<1>10. f.observed <= Play!Cardinality(followed) /\ f.observed \in Nat /\ Play!Cardinality(followed) \in Nat
  <2>1. Play!Together(R, Covering(from, to)) \in SUBSET followed BY <1>6, <1>8
  <2>2. followed \in SUBSET (from .. (to - 1)) BY <1>6
  <2>3. IsFiniteSet(from .. (to - 1)) BY <1>2, FS_Interval
  <2>. HIDE DEF followed
  <2>4. IsFiniteSet(followed) BY <2>2, <2>3, FS_Subset
  <2>. QED BY <1>4, <2>1, <2>4, PlayGiven, FS_Subset, FS_CardinalityType
<1>11. ASSUME v.state # "unknown"
       PROVE  /\ scene.suitable /\ scene.current /\ scene.length >= MinContext
              /\ Play!Share(Play!Cardinality(followed), WindowTicks, 65)
  <2>1. ~Play!Unclassifiable(f) BY <1>5, <1>11 DEF Justified
  <2>2. /\ scene.suitable /\ scene.current /\ ~(scene.length < MinContext) /\ ~(f.length < WindowTicks)
        /\ Play!Share(f.observed, f.length, 65)
    BY <2>1 DEF Play!Unclassifiable, Play!Blockers, Play!Reason
  <2>3. f.length = WindowTicks BY <1>1, <1>2, <1>4, <2>2 DEF Observed
  <2>4. scene.length >= MinContext BY <1>1, <2>2, PlayGiven
  <2>5. Play!Share(Play!Cardinality(followed), WindowTicks, 65)
    <3>. HIDE DEF followed
    <3>. QED BY <1>1, <1>10, <2>2, <2>3 DEF Play!Share
  <2>. QED BY <2>2, <2>4, <2>5
<1>12. ASSUME v.state = "likely_active"
       PROVE  \E p, q \in Players : \E u \in Play!DuringOf(v) :
                  Pair(p, q, u) /\ Play!Moves(p, u, u + 1) /\ Play!Moves(q, u, u + 1)
  <2>1. Play!ActiveEvidence(f) BY <1>5, <1>12 DEF Justified
  <2>2. f.together BY <2>1 DEF Play!ActiveEvidence
  <2>3. PICK u \in Play!Together(R, MovingIn(from, to)) : TRUE BY <1>4, <2>2
  <2>. QED BY <1>6, <1>9, <2>3
<1>13. Shared(v) BY <1>11, <1>12 DEF Shared
<1>14. v.f.first = from /\ v.f.last = to BY <1>4, <1>5
<1>. QED BY <1>2, <1>5, <1>13, <1>14 DEF Says, from, to

\* The next window continues the last one, and is merged or begins an interval.
LEMMA ClassifyKeeps == ASSUME PlayInv, Play!Classify PROVE PlayInv'
<1>. DEFINE n == Len(windows)
            m == Len(intervals)
            at == n * WindowTicks
            v == Play!ClassifyWindow(Play!WindowFeatures(at, Play!Least(scene.length, at + WindowTicks)))
<1>1. /\ at < scene.length /\ windows' = Append(windows, v) /\ intervals' = Play!MergeWindow(intervals, v)
      /\ scene' = scene /\ streams' = streams
  BY DEF Play!Classify, Play!Start
<1>2. /\ Recorded /\ windows \in Seq(Signals) /\ intervals \in Seq(Signals) /\ m <= n
      /\ n \in Nat /\ m \in Nat /\ scene.length \in Nat /\ WindowTicks \in Nat \ {0}
  BY PlayGiven DEF PlayInv, Recorded
<1>3. v \in Signals /\ Justified(v) /\ Says(v, n + 1)
  <2>1. n + 1 \in Nat \ {0} /\ (n + 1) - 1 = n BY <1>2
  <2>2. (n + 1) * WindowTicks = at + WindowTicks BY <1>2
  <2>3. v = Play!ClassifyWindow(Play!WindowFeatures(((n + 1) - 1) * WindowTicks, End(n + 1)))
    <3>1. End(n + 1) = Play!Least(scene.length, at + WindowTicks) BY <2>2 DEF End
    <3>. HIDE DEF n
    <3>. QED BY <2>1, <3>1
  <2>4. ((n + 1) - 1) * WindowTicks < scene.length BY <1>1, <2>1
  <2>. HIDE DEF v, n
  <2>. QED BY <1>2, <2>1, <2>3, <2>4, VerdictSays
<1>. HIDE DEF v
<1>4. /\ windows' \in Seq(Signals) /\ Len(windows') = n + 1 /\ windows'[n + 1] = v
      /\ \A k \in 1 .. n : windows'[k] = windows[k]
  BY <1>1, <1>2, <1>3, AppendProperties
<1>5. v.f.first = at /\ v.f.last = End(n + 1) /\ v.windows = 1
  <2>1. (n + 1) - 1 = n BY <1>2
  <2>. QED BY <1>3, <2>1 DEF Says
\* What was said of the recording is still so; intervals span the longer sequence.
<1>. DEFINE Over(i, a, b) ==
              /\ a < b /\ i.f.first = a * WindowTicks /\ i.f.last = End(b) /\ i.windows = b - a
              /\ \A k \in (a + 1) .. b : /\ windows'[k].state = i.state
                                         /\ i.confidence = "moderate" => windows'[k].confidence = "moderate"
<1>6. ASSUME NEW k, NEW x, windows'[k] = x, Says(x, k) PROVE Says(windows[k], k)'
  BY <1>1, <1>6 DEF Says, Shared, Pair, End, Play!Sound, Play!Followed, Play!Moves, Play!DuringOf
<1>7. ASSUME NEW k, NEW x, intervals'[k] = x, Justified(x) PROVE Justified(intervals[k])'
  BY <1>1, <1>7 DEF Justified, Play!Unclassifiable, Play!Blockers
<1>8. ASSUME NEW k, NEW x, intervals'[k] = x, NEW a, NEW b, Over(x, a, b) PROVE Spans(intervals[k], a, b)'
  BY <1>1, <1>8 DEF Spans, End
<1>9. Recorded' BY <1>1, <1>2 DEF Recorded
<1>10. ASSUME NEW k \in 1 .. Len(windows') PROVE Says(windows[k], k)'
  <2>1. k \in 1 .. n \/ k = n + 1 BY <1>2, <1>4
  <2>2. k \in 1 .. n => Says(windows[k], k) BY DEF PlayInv
  <2>3. \E x : windows'[k] = x /\ Says(x, k)
    <3>. HIDE DEF n
    <3>. QED BY <1>3, <1>4, <2>1, <2>2
  <2>. QED BY <1>6, <2>3
\* What spanned windows so far still does.
<1>11. ASSUME NEW i, NEW a \in 0 .. n, NEW b \in 1 .. n, Spans(i, a, b) PROVE Over(i, a, b)
  <2>1. \A k \in (a + 1) .. b : k \in 1 .. n BY <1>2
  <2>. HIDE DEF n
  <2>. QED BY <1>4, <1>11, <2>1 DEF Spans
<1>12. ASSUME NEW k \in 1 .. m
       PROVE  /\ Justified(intervals[k]) /\ intervals[k] \in Signals
              /\ \E a \in 0 .. n, b \in 1 .. n : Spans(intervals[k], a, b)
  BY <1>2 DEF PlayInv
<1>13. n # 0 => /\ m # 0 /\ intervals[1].f.first = 0 /\ intervals[m].f.last = End(n)
                /\ End(n) = at
  <2>1. n # 0 => windows # <<>> BY <1>2
  <2>2. End(n) = at BY <1>1, <1>2 DEF End, Play!Least
  <2>3. intervals # <<>> => m # 0 BY <1>2
  <2>. QED BY <2>1, <2>2, <2>3 DEF PlayInv
<1>14. ASSUME NEW k \in 2 .. m
       PROVE  intervals[k].f.first = intervals[k - 1].f.last /\ intervals[k].state # intervals[k - 1].state
  BY DEF PlayInv
<1>. DEFINE merging == m # 0 /\ intervals[m].state = v.state /\ intervals[m].f.last = v.f.first
<1>15. CASE merging
  <2>. DEFINE w == Play!MergeIntervalAndWindow(intervals[m], v)
  <2>1. intervals' = [intervals EXCEPT ![m] = w]
    <3>1. intervals # <<>> BY <1>2, <1>15
    <3>. QED BY <1>1, <1>15, <3>1 DEF Play!MergeWindow
  <2>2. m \in 1 .. m /\ n # 0 BY <1>2, <1>15
  <2>3. PICK a \in 0 .. n, b \in 1 .. n : Spans(intervals[m], a, b) BY <1>12, <2>2
  <2>4. intervals[m] \in Signals /\ Justified(intervals[m]) BY <1>12, <2>2
  <2>5. /\ w \in Signals /\ Justified(w) /\ w.state = v.state /\ w.windows = intervals[m].windows + 1
        /\ w.f.first = intervals[m].f.first /\ w.f.last = v.f.last
        /\ w.confidence = "moderate" => intervals[m].confidence = "moderate" /\ v.confidence = "moderate"
    <3>. DEFINE i == intervals[m]
    <3>1. i \in Signals /\ Justified(i) /\ i.state = v.state /\ i.f.last = v.f.first BY <1>15, <2>4
    <3>2. w = Play!MergeIntervalAndWindow(i, v) OBVIOUS
    <3>. HIDE DEF i, w
    <3>3. /\ w \in Signals /\ Justified(w) /\ w.state = i.state /\ w.windows = i.windows + 1
          /\ w.f.first = i.f.first /\ w.f.last = v.f.last
          /\ w.confidence = "moderate" => i.confidence = "moderate" /\ v.confidence = "moderate"
      BY <1>2, <1>3, <3>1, <3>2, MergeIs
    <3>. QED BY <3>1, <3>3 DEF i
  <2>. HIDE DEF w
  <2>6. /\ intervals' \in Seq(Signals) /\ Len(intervals') = m
        /\ \A k \in 1 .. m : intervals'[k] = IF k = m THEN w ELSE intervals[k]
    BY <1>2, <2>1, <2>2, <2>5, ExceptSeq
  <2>7. b = n
    <3>1. End(b) = End(n) BY <1>13, <2>2, <2>3 DEF Spans
    <3>2. ASSUME b < n PROVE FALSE
      <4>1. n * WindowTicks = b * WindowTicks + (n - b) * WindowTicks /\ (n - b) * WindowTicks > 0
        BY <1>2, <3>2
      <4>2. b * WindowTicks \in Nat BY <1>2
      <4>3. End(b) = b * WindowTicks BY <1>1, <1>2, <4>1, <4>2 DEF End, Play!Least
      <4>. QED BY <1>2, <1>13, <2>2, <3>1, <4>1, <4>2, <4>3
    <3>. QED BY <1>2, <3>2
  <2>8. Over(w, a, n + 1)
    <3>1. /\ a < n /\ intervals[m].f.first = a * WindowTicks /\ intervals[m].windows = n - a
          /\ \A k \in (a + 1) .. n : /\ windows[k].state = intervals[m].state
                                     /\ intervals[m].confidence = "moderate" => windows[k].confidence = "moderate"
      BY <2>3, <2>7 DEF Spans
    <3>2. a < n + 1 /\ w.f.first = a * WindowTicks /\ w.f.last = End(n + 1) /\ w.windows = (n + 1) - a
      BY <1>2, <1>5, <2>5, <3>1
    <3>3. ASSUME NEW k \in (a + 1) .. (n + 1)
          PROVE  /\ windows'[k].state = w.state
                 /\ w.confidence = "moderate" => windows'[k].confidence = "moderate"
      <4>1. CASE k = n + 1 BY <1>4, <2>5, <4>1
      <4>2. CASE k # n + 1
        <5>1. k \in (a + 1) .. n /\ k \in 1 .. n BY <1>2, <4>2
        <5>. QED BY <1>4, <1>15, <2>5, <3>1, <5>1
      <4>. QED BY <4>1, <4>2
    <3>. HIDE DEF n
    <3>. QED BY <3>2, <3>3
  <2>9. ASSUME NEW k \in 1 .. Len(intervals')
        PROVE  /\ Justified(intervals[k])'
               /\ \E c \in 0 .. Len(windows'), d \in 1 .. Len(windows') : Spans(intervals[k], c, d)'
    <3>1. CASE k = m
      <4>1. a \in 0 .. (n + 1) /\ n + 1 \in 1 .. (n + 1) BY <1>2
      <4>2. intervals'[k] = w BY <2>2, <2>6, <3>1
      <4>3. Justified(intervals[k])' BY <1>7, <2>5, <4>2
      <4>4. PICK d : d = n + 1 OBVIOUS
      <4>. HIDE DEF Over, n
      <4>5. Over(w, a, d) BY <2>8, <4>4
      <4>6. Spans(intervals[k], a, d)' BY <1>8, <4>2, <4>5
      <4>. QED BY <1>4, <4>1, <4>3, <4>4, <4>6
    <3>2. CASE k # m
      <4>1. k \in 1 .. m /\ intervals'[k] = intervals[k] BY <2>6, <3>2
      <4>2. PICK c \in 0 .. n, d \in 1 .. n : Spans(intervals[k], c, d) BY <1>12, <4>1
      <4>3. c \in 0 .. (n + 1) /\ d \in 1 .. (n + 1) BY <1>2
      <4>4. Justified(intervals[k])' BY <1>7, <1>12, <4>1
      <4>5. Spans(intervals[k], c, d)'
        <5>. HIDE DEF Over, n
        <5>. QED BY <1>8, <1>11, <4>1, <4>2
      <4>. HIDE DEF n
      <4>. QED BY <1>4, <4>3, <4>4, <4>5
    <3>. QED BY <3>1, <3>2
  <2>10. ASSUME NEW k \in 2 .. Len(intervals')
         PROVE  /\ intervals'[k].f.first = intervals'[k - 1].f.last
                /\ intervals'[k].state # intervals'[k - 1].state
    <3>1. k \in 2 .. m /\ k \in 1 .. m /\ k - 1 \in 1 .. m /\ k - 1 # m BY <1>2, <2>6
    <3>2. intervals'[k - 1] = intervals[k - 1] BY <2>6, <3>1
    <3>3. intervals'[k].f.first = intervals[k].f.first /\ intervals'[k].state = intervals[k].state
      BY <1>15, <2>5, <2>6, <3>1
    <3>. QED BY <1>14, <3>1, <3>2, <3>3
  <2>11. /\ intervals' # <<>> /\ intervals'[1].f.first = 0
         /\ intervals'[Len(intervals')].f.last = End(Len(windows))'
    <3>1. intervals' # <<>> /\ 1 \in 1 .. m BY <1>2, <2>2, <2>6
    <3>2. intervals'[1].f.first = 0 BY <1>13, <2>2, <2>5, <2>6, <3>1
    <3>3. intervals'[m] = w BY <2>2, <2>6
    <3>4. w.f.last = End(n + 1) BY <1>5, <2>5
    <3>5. End(Len(windows))' = End(n + 1) BY <1>1, <1>4 DEF End
    <3>. HIDE DEF n, m
    <3>. QED BY <2>6, <3>1, <3>2, <3>3, <3>4, <3>5
  <2>12. Len(intervals') <= Len(windows') BY <1>2, <1>4, <2>6
  <2>. QED BY <1>4, <1>9, <1>10, <2>6, <2>9, <2>10, <2>11, <2>12 DEF PlayInv
<1>16. CASE ~merging
  <2>1. intervals' = Append(intervals, v)
    <3>1. intervals # <<>> <=> m # 0 BY <1>2
    <3>. QED BY <1>1, <1>16, <3>1 DEF Play!MergeWindow
  <2>2. /\ intervals' \in Seq(Signals) /\ Len(intervals') = m + 1 /\ intervals'[m + 1] = v
        /\ \A k \in 1 .. m : intervals'[k] = intervals[k]
    BY <1>2, <1>3, <2>1, AppendProperties
  <2>3. Over(v, n, n + 1)
    <3>1. \A k \in (n + 1) .. (n + 1) : k = n + 1 BY <1>2
    <3>2. n < n + 1 /\ (n + 1) - n = 1 BY <1>2
    <3>. HIDE DEF n
    <3>. QED BY <1>4, <1>5, <3>1, <3>2 DEF at
  <2>4. ASSUME NEW k \in 1 .. Len(intervals')
        PROVE  /\ Justified(intervals[k])'
               /\ \E c \in 0 .. Len(windows'), d \in 1 .. Len(windows') : Spans(intervals[k], c, d)'
    <3>1. CASE k = m + 1
      <4>1. n \in 0 .. (n + 1) /\ n + 1 \in 1 .. (n + 1) BY <1>2
      <4>2. Justified(intervals[k])' BY <1>3, <1>7, <2>2, <3>1
      <4>3. PICK c, d : c = n /\ d = n + 1 OBVIOUS
      <4>. HIDE DEF Over, n
      <4>4. Over(v, c, d) BY <2>3, <4>3
      <4>5. Spans(intervals[k], c, d)' BY <1>8, <2>2, <3>1, <4>4
      <4>. QED BY <1>4, <4>1, <4>2, <4>3, <4>5
    <3>2. CASE k # m + 1
      <4>1. k \in 1 .. m /\ intervals'[k] = intervals[k] BY <1>2, <2>2, <3>2
      <4>2. PICK c \in 0 .. n, d \in 1 .. n : Spans(intervals[k], c, d) BY <1>12, <4>1
      <4>3. c \in 0 .. (n + 1) /\ d \in 1 .. (n + 1) BY <1>2
      <4>4. Justified(intervals[k])' BY <1>7, <1>12, <4>1
      <4>5. Spans(intervals[k], c, d)'
        <5>. HIDE DEF Over, n
        <5>. QED BY <1>8, <1>11, <4>1, <4>2
      <4>. HIDE DEF n
      <4>. QED BY <1>4, <4>3, <4>4, <4>5
    <3>. QED BY <3>1, <3>2
  <2>5. ASSUME NEW k \in 2 .. Len(intervals')
        PROVE  /\ intervals'[k].f.first = intervals'[k - 1].f.last
               /\ intervals'[k].state # intervals'[k - 1].state
    <3>1. CASE k = m + 1
      <4>1. m \in 1 .. m /\ k - 1 = m /\ n # 0 BY <1>2, <2>2, <3>1
      <4>2. intervals'[k] = v /\ intervals'[k - 1] = intervals[m] BY <2>2, <3>1, <4>1
      <4>3. intervals[m].f.last = v.f.first BY <1>5, <1>13, <4>1
      <4>. QED BY <1>16, <4>1, <4>2, <4>3
    <3>2. CASE k # m + 1
      <4>1. k \in 2 .. m /\ k \in 1 .. m /\ k - 1 \in 1 .. m BY <1>2, <2>2, <3>2
      <4>. QED BY <1>14, <2>2, <4>1
    <3>. QED BY <3>1, <3>2
  <2>6. /\ intervals' # <<>> /\ intervals'[1].f.first = 0
        /\ intervals'[Len(intervals')].f.last = End(Len(windows))'
    <3>1. intervals' # <<>> BY <1>2, <2>2
    <3>2. intervals'[1].f.first = 0
      <4>1. CASE m = 0
        <5>1. n = 0 BY <1>13, <4>1
        <5>2. at = 0 BY <1>2, <5>1
        <5>. QED BY <1>5, <2>2, <4>1, <5>2
      <4>2. CASE m # 0
        <5>1. 1 \in 1 .. m /\ n # 0 BY <1>2, <4>2
        <5>. QED BY <1>13, <2>2, <5>1
      <4>. QED BY <4>1, <4>2
    <3>3. End(Len(windows))' = End(n + 1) BY <1>1, <1>4 DEF End
    <3>. HIDE DEF n, m
    <3>. QED BY <1>5, <2>2, <3>1, <3>2, <3>3
  <2>7. Len(intervals') <= Len(windows') BY <1>2, <1>4, <2>2
  <2>. QED BY <1>4, <1>9, <1>10, <2>2, <2>4, <2>5, <2>6, <2>7 DEF PlayInv
<1>. QED BY <1>15, <1>16

\* Of the actions, only the classification touches windows and intervals.
LEMMA PlayStep == ASSUME PlayInv, [Play!Next]_playVars PROVE PlayInv'
<1>1. CASE Play!Classify BY <1>1, ClassifyKeeps
<1>2. CASE UNCHANGED playVars
  <2>1. scene' = scene /\ streams' = streams /\ windows' = windows /\ intervals' = intervals
    BY <1>2 DEF playVars
  <2>2. /\ (Recorded' <=> Recorded) /\ (\A k : Says(windows[k], k)' <=> Says(windows[k], k))
        /\ \A k : Justified(intervals[k])' <=> Justified(intervals[k])
        /\ \A k, a, b : Spans(intervals[k], a, b)' <=> Spans(intervals[k], a, b)
        /\ \A k : End(k)' = End(k)
    BY <2>1 DEF Recorded, Says, Shared, Pair, End, Spans, Justified, Play!Sound, Play!Followed,
                Play!Moves, Play!DuringOf, Play!Unclassifiable, Play!Blockers
  <2>. QED BY <2>1, <2>2 DEF PlayInv
<1>. QED BY <1>1, <1>2 DEF Play!Next

-----------------------------------------------------------------------------
(* Active play: what the invariant says of the report.                      *)
\* What the invariant says of single windows and intervals.
LEMMA PlayFacts ==
    ASSUME PlayInv
    PROVE  /\ Recorded /\ Len(windows) \in Nat /\ Len(intervals) \in Nat /\ scene.length \in Nat
           /\ WindowTicks \in Nat \ {0} /\ DOMAIN windows = 1 .. Len(windows)
           /\ DOMAIN intervals = 1 .. Len(intervals) /\ Len(intervals) <= Len(windows)
           /\ \A k \in 1 .. Len(windows) : windows[k] \in Signals /\ Says(windows[k], k)
           /\ \A k \in 1 .. Len(intervals) :
                 /\ intervals[k] \in Signals /\ Justified(intervals[k])
                 /\ \E a \in 0 .. Len(windows), b \in 1 .. Len(windows) : Spans(intervals[k], a, b)
<1>1. Recorded /\ scene.length \in Nat /\ WindowTicks \in Nat \ {0} BY PlayGiven DEF PlayInv, Recorded
<1>2. windows \in Seq(Signals) /\ intervals \in Seq(Signals) BY DEF PlayInv
<1>3. /\ Len(windows) \in Nat /\ Len(intervals) \in Nat /\ DOMAIN windows = 1 .. Len(windows)
      /\ DOMAIN intervals = 1 .. Len(intervals)
      /\ \A k \in 1 .. Len(windows) : windows[k] \in Signals
      /\ \A k \in 1 .. Len(intervals) : intervals[k] \in Signals
  BY <1>2
<1>. QED BY <1>1, <1>3 DEF PlayInv

\* Windows never number more than the recording holds.
LEMMA PlayTyped == ASSUME PlayInv PROVE Play!TypeOK
<1>1. Len(windows) * WindowTicks < scene.length + WindowTicks
  <2>1. CASE Len(windows) = 0
    <3>1. scene.length + WindowTicks > 0 /\ 0 * WindowTicks = 0 BY PlayFacts
    <3>. QED BY <2>1, <3>1
  <2>2. CASE Len(windows) # 0
    <3>1. Len(windows) \in 1 .. Len(windows) BY PlayFacts, <2>2
    <3>2. Says(windows[Len(windows)], Len(windows)) BY PlayFacts, <3>1
    <3>3. (Len(windows) - 1) * WindowTicks < End(Len(windows)) BY <3>2 DEF Says
    <3>. DEFINE n == Len(windows)
    <3>4. /\ (n - 1) * WindowTicks < End(n) /\ n \in Nat \ {0} /\ WindowTicks \in Nat \ {0}
          /\ scene.length \in Nat
      BY PlayFacts, <2>2, <3>3
    <3>. HIDE DEF n
    <3>5. n * WindowTicks = (n - 1) * WindowTicks + WindowTicks /\ (n - 1) * WindowTicks \in Nat
          /\ n * WindowTicks \in Nat
      BY <3>4
    <3>6. End(n) <= scene.length BY <3>4, <3>5 DEF End, Play!Least
    <3>7. End(n) \in Nat BY <3>4, <3>5 DEF End, Play!Least
    <3>8. n * WindowTicks < scene.length + WindowTicks BY <3>4, <3>5, <3>6, <3>7
    <3>. QED BY <3>8 DEF n
  <2>. QED BY <2>1, <2>2
<1>2. \A k \in DOMAIN windows : windows[k].state \in {"likely_active", "likely_idle", "unknown"}
  BY PlayFacts DEF Signals
<1>. QED BY <1>1, <1>2, PlayFacts DEF Play!TypeOK

\* A classified window is one that two sound players share.
LEMMA PlayShared == ASSUME PlayInv PROVE Play!PlayIsShared
<1>1. ASSUME NEW k \in DOMAIN windows PROVE Shared(windows[k]) BY PlayFacts DEF Says
<1>2. \A v, u : {x \in Play!DuringOf(v) : \E p, q \in Players : Pair(p, q, x)}
                  = {x \in Play!DuringOf(v) : \E p, q \in Players : p # q /\ Play!Sound(p) /\ Play!Sound(q)
                                                  /\ Play!Followed(p, x) /\ Play!Followed(q, x)}
  BY DEF Pair
<1>. QED BY <1>1, <1>2 DEF Play!PlayIsShared, Shared, Pair

\* Only an unknown window says why.
LEMMA UnknownExplained == ASSUME PlayInv PROVE Play!UnknownIsExplained
BY PlayFacts DEF Says, Play!UnknownIsExplained

\* The windows of an interval are those that begin within it.
LEMMA PartsAre ==
    ASSUME PlayInv, NEW i, NEW a \in 0 .. Len(windows), NEW b \in 1 .. Len(windows), Spans(i, a, b)
    PROVE  {n \in DOMAIN windows : windows[n].f.first \in Play!DuringOf(i)} = (a + 1) .. b
<1>1. ASSUME NEW n \in 1 .. Len(windows)
      PROVE  windows[n].f.first \in Play!DuringOf(i) <=> n \in (a + 1) .. b
  <2>1. /\ a \in Nat /\ b \in Nat /\ n \in Nat \ {0} /\ WindowTicks \in Nat \ {0} /\ scene.length \in Nat
    BY PlayFacts
  <2>2. windows[n].f.first = (n - 1) * WindowTicks /\ (n - 1) * WindowTicks < End(n) BY PlayFacts DEF Says
  <2>3. Play!DuringOf(i) = (a * WindowTicks) .. (End(b) - 1) BY DEF Spans, Play!DuringOf
  <2>. DEFINE x == (n - 1) * WindowTicks
              y == a * WindowTicks
              z == b * WindowTicks
  <2>4. x \in Nat /\ y \in Nat /\ z \in Nat BY <2>1
  <2>5. a <= n - 1 => y <= x BY <2>1
  <2>6. a > n - 1 => y > x
    <3>1. ASSUME a > n - 1 PROVE y > x
      <4>. DEFINE d == (a - (n - 1)) * WindowTicks
      <4>1. y = x + d BY <2>1
      <4>2. d \in Int /\ d > 0 BY <2>1, <3>1
      <4>. HIDE DEF x, y, d
      <4>. QED BY <2>4, <4>1, <4>2
    <3>. QED BY <3>1
  <2>7. n <= b => x < z
    <3>1. ASSUME n <= b PROVE x < z
      <4>. DEFINE d == (b - (n - 1)) * WindowTicks
      <4>1. z = x + d BY <2>1
      <4>2. d \in Int /\ d > 0 BY <2>1, <3>1
      <4>. HIDE DEF x, z, d
      <4>. QED BY <2>4, <4>1, <4>2
    <3>. QED BY <3>1
  <2>8. n > b => x >= z BY <2>1
  <2>9. End(b) = IF scene.length < z THEN scene.length ELSE z BY DEF End, Play!Least
  <2>10. x < scene.length
    <3>1. End(n) <= scene.length BY <2>1 DEF End, Play!Least
    <3>2. End(n) \in Nat BY <2>1 DEF End, Play!Least
    <3>. QED BY <2>1, <2>2, <2>4, <3>1, <3>2
  <2>11. x \in y .. (End(b) - 1) <=> n \in (a + 1) .. b
    <3>. HIDE DEF x, y, z
    <3>. QED BY <2>1, <2>4, <2>5, <2>6, <2>7, <2>8, <2>9, <2>10
  <2>. QED BY <2>2, <2>3, <2>11
<1>2. \A n \in (a + 1) .. b : n \in 1 .. Len(windows) BY PlayFacts
<1>. QED BY <1>1, <1>2, PlayFacts

\* What a merged interval says follows from it and from its windows.
LEMMA MergedJustified == ASSUME PlayInv PROVE Play!MergedIsJustified
<1>1. ASSUME NEW k \in DOMAIN intervals, NEW i, i = intervals[k]
      PROVE  LET again == Play!ClassifyWindow(i.f)
                 parts == {n \in DOMAIN windows : windows[n].f.first \in Play!DuringOf(i)}
             IN  /\ i.state # "unknown" => again.state = i.state /\ again.confidence = i.confidence
                 /\ Play!Cardinality(parts) = i.windows
                 /\ \A n \in parts : /\ windows[n].state = i.state
                                     /\ i.confidence = "moderate" => windows[n].confidence = "moderate"
  <2>1. i \in Signals /\ Justified(i) BY <1>1, PlayFacts
  <2>2. PICK a \in 0 .. Len(windows), b \in 1 .. Len(windows) : Spans(i, a, b) BY <1>1, PlayFacts
  <2>. DEFINE again == Play!ClassifyWindow(i.f)
              parts == {n \in DOMAIN windows : windows[n].f.first \in Play!DuringOf(i)}
  <2>3. parts = (a + 1) .. b BY <2>2, PartsAre
  <2>. HIDE DEF parts
  <2>4. Play!Cardinality(parts) = i.windows
    <3>1. a \in Int /\ b \in Int /\ a + 1 \in Int /\ a < b /\ i.windows = b - a BY <2>2, PlayFacts DEF Spans
    <3>2. Cardinality((a + 1) .. b) = IF a + 1 > b THEN 0 ELSE b - (a + 1) + 1 BY <3>1, FS_Interval
    <3>3. Cardinality(parts) = b - a BY <2>3, <3>1, <3>2
    <3>. QED BY <3>1, <3>3, PlayGiven
  <2>5. \A n \in parts : /\ windows[n].state = i.state
                         /\ i.confidence = "moderate" => windows[n].confidence = "moderate"
    BY <2>2, <2>3 DEF Spans
  <2>6. ASSUME i.state # "unknown" PROVE again.state = i.state /\ again.confidence = i.confidence
    <3>1. ~Play!Unclassifiable(i.f) /\ i.confidence = Play!SupportedConfidence(i.f) BY <2>1, <2>6 DEF Justified
    <3>2. CASE i.state = "likely_active"
      <4>1. Play!ActiveEvidence(i.f) BY <2>1, <3>2 DEF Justified
      <4>. QED BY <3>1, <3>2, <4>1 DEF Play!ClassifyWindow, Play!Classified
    <3>3. CASE i.state = "likely_idle"
      <4>1. Play!IdleEvidence(i.f) BY <2>1, <3>3 DEF Justified
      <4>2. i.f.moving = 0 BY <4>1 DEF Play!IdleEvidence
      <4>3. ~Play!ActiveEvidence(i.f) BY <4>2 DEF Play!ActiveEvidence
      <4>. QED BY <3>1, <3>3, <4>1, <4>3 DEF Play!ClassifyWindow, Play!Classified
    <3>4. i.state \in {"likely_active", "likely_idle", "unknown"} BY <2>1 DEF Signals
    <3>. QED BY <2>6, <3>2, <3>3, <3>4
  <2>. QED BY <2>4, <2>5, <2>6 DEF parts
<1>. QED BY <1>1 DEF Play!MergedIsJustified

\* What the intervals cover, in all and in one state.
Lengths == [k \in 1 .. Len(intervals) |-> intervals[k].f.last - intervals[k].f.first]
InState(state) == {k \in DOMAIN intervals : intervals[k].state = state}

\* The length of an interval is a whole number.
LEMMA LengthsAre ==
    ASSUME PlayInv
    PROVE  \A k \in 1 .. Len(intervals) :
              /\ Lengths[k] = intervals[k].f.last - intervals[k].f.first /\ Lengths[k] \in Nat
              /\ intervals[k].f.first \in Nat /\ intervals[k].f.last \in Nat
<1>1. ASSUME NEW k \in 1 .. Len(intervals)
      PROVE  /\ intervals[k].f.length = intervals[k].f.last - intervals[k].f.first
             /\ intervals[k].f \in Features
  BY PlayFacts DEF Justified, Observed, Signals
<1>2. \A k \in 1 .. Len(intervals) : /\ intervals[k].f.length \in Nat
                                     /\ intervals[k].f.first \in Nat /\ intervals[k].f.last \in Nat
  BY <1>1 DEF Features
<1>. QED BY <1>1, <1>2 DEF Lengths

\* The report adds up the lengths of the intervals in a state.
LEMMA TicksAre ==
    ASSUME PlayInv, NEW state
    PROVE  Play!StateTicks(state) = Total(Lengths, InState(state))
<1>. DEFINE K == InState(state)
            Sum(f) == [T \in SUBSET K |-> IF T = {} THEN 0 ELSE
                 LET x == CHOOSE y \in T : TRUE
                 IN  (intervals[x].f.last - intervals[x].f.first) + f[T \ {x}]]
            SumOfLengths(f) == [T \in SUBSET K |-> IF T = {} THEN 0 ELSE
                 LET x == CHOOSE y \in T : TRUE IN Lengths[x] + f[T \ {x}]]
<1>1. K \in SUBSET (1 .. Len(intervals)) /\ IsFiniteSet(K)
  <2>1. K \in SUBSET (1 .. Len(intervals)) BY PlayFacts DEF InState
  <2>2. IsFiniteSet(1 .. Len(intervals)) BY PlayFacts, FS_Interval
  <2>. QED BY <2>1, <2>2, FS_Subset
<1>2. \A x \in K : Lengths[x] = intervals[x].f.last - intervals[x].f.first /\ Lengths[x] \in Nat
  BY <1>1, LengthsAre
<1>3. Play!StateTicks(state) = (CHOOSE f : f = Sum(f))[K]
  BY DEF Play!StateTicks, Play!MapThenSumSet, Play!MapThenFoldSet, InState
<1>4. SumOf(Lengths, K) = (CHOOSE f : f = SumOfLengths(f))[K] BY DEF SumOf
<1>. HIDE DEF K
<1>5. ASSUME NEW f PROVE Sum(f) = SumOfLengths(f) BY <1>2
<1>6. (CHOOSE f : f = Sum(f)) = (CHOOSE f : f = SumOfLengths(f))
  <2>. HIDE DEF Sum, SumOfLengths
  <2>. QED BY <1>5
<1>7. SumOf(Lengths, K) = Total(Lengths, K) BY <1>1, <1>2, SumIsTotal
<1>. QED BY <1>3, <1>4, <1>6, <1>7 DEF K

\* All together they reach to the end of the last window.
LEMMA TicksTelescope ==
    ASSUME PlayInv
    PROVE  Total(Lengths, 1 .. Len(intervals)) = End(Len(windows))
<1>. DEFINE m == Len(intervals)
            Sound == {k \in 0 .. m : Total(Lengths, 1 .. k) = IF k = 0 THEN 0 ELSE intervals[k].f.last}
<1>1. m \in Nat BY PlayFacts
<1>2. 0 \in Sound
  <2>1. 1 .. 0 = {} OBVIOUS
  <2>. QED BY <1>1, <2>1, TotalEmpty
<1>3. ASSUME NEW k \in 1 .. m, k - 1 \in Sound PROVE k \in Sound
  <2>1. (1 .. k) \ {k} = 1 .. k - 1 /\ k \in 1 .. k /\ IsFiniteSet(1 .. k)
    <3>1. k \in Nat /\ k >= 1 BY <1>1
    <3>. HIDE DEF m
    <3>2. IsFiniteSet(1 .. k) BY <3>1, FS_Interval
    <3>. QED BY <3>1, <3>2
  <2>2. \A i \in 1 .. k : Lengths[i] \in Nat BY <1>1, LengthsAre
  <2>3. Total(Lengths, 1 .. k) = Lengths[k] + Total(Lengths, 1 .. k - 1)
    <3>. HIDE DEF m
    <3>. QED BY <2>1, <2>2, TotalStep
  <2>4. /\ Lengths[k] = intervals[k].f.last - intervals[k].f.first
        /\ intervals[k].f.first \in Nat /\ intervals[k].f.last \in Nat
    BY LengthsAre
  <2>5. Total(Lengths, 1 .. k - 1) = intervals[k].f.first
    <3>1. CASE k = 1
      <4>1. windows # <<>> BY <1>1, PlayFacts
      <4>2. intervals[1].f.first = 0 BY <4>1 DEF PlayInv
      <4>. QED BY <1>3, <3>1, <4>2
    <3>2. CASE k # 1
      <4>1. k \in 2 .. m /\ k - 1 # 0 BY <1>1, <3>2
      <4>2. intervals[k].f.first = intervals[k - 1].f.last BY <4>1 DEF PlayInv
      <4>. QED BY <1>3, <4>1, <4>2
    <3>. QED BY <3>1, <3>2
  <2>6. Total(Lengths, 1 .. k) = intervals[k].f.last BY <2>3, <2>4, <2>5
  <2>. QED BY <1>1, <2>6
<1>4. Sound = 0 .. m
  <2>1. Sound \in SUBSET (0 .. m) OBVIOUS
  <2>. HIDE DEF Sound, m
  <2>. QED BY <1>1, <1>2, <1>3, <2>1, CountingUp
<1>5. m \in Sound BY <1>1, <1>4
<1>6. CASE Len(windows) = 0
  <2>1. m = 0 BY <1>1, <1>6, PlayFacts
  <2>2. End(0) = 0
    <3>1. 0 * WindowTicks = 0 /\ ~(scene.length < 0) BY PlayFacts
    <3>. QED BY <3>1 DEF End, Play!Least
  <2>. QED BY <1>5, <1>6, <2>1, <2>2
<1>7. CASE Len(windows) # 0
  <2>1. windows # <<>> BY <1>7, PlayFacts
  <2>2. intervals # <<>> /\ intervals[m].f.last = End(Len(windows)) BY <2>1 DEF PlayInv
  <2>3. m # 0 BY <2>2, PlayInv DEF PlayInv
  <2>. QED BY <1>5, <2>2, <2>3
<1>. QED BY <1>6, <1>7

\* The states and the levels of confidence share out the recording so far.
LEMMA TimePartitioned == ASSUME PlayInv PROVE Play!TimeIsPartitioned
<1>. DEFINE A == InState("likely_active")
            I == InState("likely_idle")
            U == InState("unknown")
            n == Len(windows)
            Of(level) == {k \in DOMAIN windows : windows[k].confidence = level}
<1>1. Play!StateTicks("likely_active") + Play!StateTicks("likely_idle") + Play!StateTicks("unknown") = End(n)
  <2>1. A \union I \union U = 1 .. Len(intervals)
    <3>1. \A k \in 1 .. Len(intervals) : intervals[k].state \in {"likely_active", "likely_idle", "unknown"}
      BY PlayFacts DEF Signals
    <3>. QED BY <3>1, PlayFacts DEF InState
  <2>2. A \intersect I = {} /\ (A \union I) \intersect U = {} BY DEF InState
  <2>3. IsFiniteSet(1 .. Len(intervals)) BY PlayFacts, FS_Interval
  <2>4. \A k \in 1 .. Len(intervals) : Lengths[k] \in Nat BY LengthsAre
  <2>5. /\ Play!StateTicks("likely_active") = Total(Lengths, A) /\ Play!StateTicks("likely_idle") = Total(Lengths, I)
        /\ Play!StateTicks("unknown") = Total(Lengths, U)
    BY TicksAre
  <2>6. Total(Lengths, 1 .. Len(intervals)) = End(n) BY TicksTelescope
  <2>. HIDE DEF A, I, U, n
  <2>7. IsFiniteSet(A) /\ IsFiniteSet(I) /\ IsFiniteSet(U) /\ IsFiniteSet(A \union I) BY <2>1, <2>3, FS_Subset
  <2>8. Total(Lengths, A \union I) = Total(Lengths, A) + Total(Lengths, I) BY <2>1, <2>2, <2>4, <2>7, TotalSplit
  <2>9. Total(Lengths, (A \union I) \union U) = Total(Lengths, A \union I) + Total(Lengths, U)
    BY <2>1, <2>2, <2>4, <2>7, TotalSplit
  <2>. QED BY <2>1, <2>5, <2>6, <2>8, <2>9
<1>2. Play!Cardinality(Of("not_available")) + Play!Cardinality(Of("low")) + Play!Cardinality(Of("moderate")) = n
  <2>. DEFINE N == Of("not_available")
              L == Of("low")
              M == Of("moderate")
  <2>1. N \union L \union M = 1 .. n
    <3>1. \A k \in 1 .. n : windows[k].confidence \in {"not_available", "low", "moderate"}
      BY PlayFacts DEF Signals, Levels
    <3>. QED BY <3>1, PlayFacts
  <2>2. N \intersect L = {} /\ (N \union L) \intersect M = {} OBVIOUS
  <2>3. IsFiniteSet(1 .. n) /\ Cardinality(1 .. n) = n
    <3>1. n \in Nat /\ n \in Int /\ 1 \in Int BY PlayFacts
    <3>. HIDE DEF n
    <3>2. IsFiniteSet(1 .. n) /\ Cardinality(1 .. n) = IF 1 > n THEN 0 ELSE n - 1 + 1 BY <3>1, FS_Interval
    <3>. QED BY <3>1, <3>2
  <2>4. \A T : Play!Cardinality(T) = Cardinality(T) BY PlayGiven
  <2>. HIDE DEF Of, n, N, L, M
  <2>5. IsFiniteSet(N) /\ IsFiniteSet(L) /\ IsFiniteSet(M) /\ IsFiniteSet(N \union L) BY <2>1, <2>3, FS_Subset
  <2>6. /\ Cardinality(N) \in Nat /\ Cardinality(L) \in Nat /\ Cardinality(M) \in Nat
        /\ Cardinality({}) = 0
    BY <2>5, FS_CardinalityType, FS_EmptySet
  <2>7. Cardinality(N \union L) = Cardinality(N) + Cardinality(L) - Cardinality(N \intersect L) BY <2>5, FS_Union
  <2>8. Cardinality((N \union L) \union M)
          = Cardinality(N \union L) + Cardinality(M) - Cardinality((N \union L) \intersect M)
    BY <2>5, FS_Union
  <2>9. Cardinality(N \intersect L) = 0 /\ Cardinality((N \union L) \intersect M) = 0 BY <2>2, <2>6
  <2>10. Cardinality((N \union L) \union M) = n BY <2>1, <2>3
  <2>11. Cardinality(N) + Cardinality(L) + Cardinality(M) = n BY <2>6, <2>7, <2>8, <2>9, <2>10
  <2>. QED BY <2>4, <2>11 DEF N, L, M
<1>3. \A k \in DOMAIN intervals : k > 1 =>
          /\ intervals[k].f.first = intervals[k - 1].f.last
          /\ intervals[k].state # intervals[k - 1].state
  <2>1. ASSUME NEW k \in DOMAIN intervals, k > 1 PROVE k \in 2 .. Len(intervals) BY <2>1, PlayFacts
  <2>. QED BY <2>1 DEF PlayInv
<1>4. Play!Least(scene.length, Play!Start) = End(n) BY DEF Play!Start, End
<1>5. /\ Play!Report.classifiable = Play!StateTicks("likely_active") + Play!StateTicks("likely_idle")
      /\ Play!Report.unknown = Play!StateTicks("unknown")
      /\ Play!Report.confidence["not_available"] = Play!Cardinality(Of("not_available"))
      /\ Play!Report.confidence["low"] = Play!Cardinality(Of("low"))
      /\ Play!Report.confidence["moderate"] = Play!Cardinality(Of("moderate"))
  BY DEF Play!Report, Play!Counted
<1>. HIDE DEF Of
<1>. QED BY <1>1, <1>2, <1>3, <1>4, <1>5 DEF Play!TimeIsPartitioned

\* For any players, motions, policies and recordings: play is called active only
\* where two sound players move at one moment while both are followed, a merged
\* interval is what its signals say with the confidence they support, the times
\* of the states add up, and what is not classified has a reason (_window_features,
\* _classify_window, _merge_interval_and_window, build_active_play_report).
THEOREM PlayTheorem == Spec => []PlayEstimateHonest
<1>. DEFINE Inv == focus = "play" => PlayInv
<1>1. Init => Inv BY PlayInit DEF Init
<1>2. Inv /\ [Next]_vars => Inv'
  <2>. SUFFICES ASSUME Inv, [Next]_vars, focus' = "play" PROVE PlayInv' OBVIOUS
  <2>1. focus = "play" /\ [Play!Next]_playVars BY DEF Next, vars
  <2>. QED BY <2>1, PlayStep
<1>3. Inv => PlayEstimateHonest
  BY PlayTyped, PlayShared, MergedJustified, TimePartitioned, UnknownExplained DEF PlayEstimateHonest
<1>. QED BY <1>1, <1>2, <1>3, PTL DEF Spec

-----------------------------------------------------------------------------
(* The upload page: the inductive invariant, by the state each part is about. *)

Statuses == {"absent", "initiated", "uploading", "finalizing", "completed", "failed", "aborted", "expired"}
Known(s) == s \in Sessions /\ row[s] # "absent"
NoneStored == [p \in 1 .. PartCount |-> None]

\* A session holds parts of its own file only.
RowsInv ==
    /\ row \in [Sessions -> Statuses]
    /\ keyOf \in [Sessions -> Nat] /\ fileOf \in [Sessions -> Files \union {None}]
    /\ stored \in [Sessions -> [1 .. PartCount -> Files \union {None}]]
    /\ \A s \in Sessions : row[s] = "absent" <=> keyOf[s] = 0
    /\ \A s \in Sessions : row[s] = "absent" => stored[s] = NoneStored
    /\ \A s \in Sessions : \A p \in 1 .. PartCount : stored[s][p] \in {None, fileOf[s]}
    /\ Upload!FinalizedIsOneFile /\ Upload!OnlyUserDestroys

\* A key stands for one file, wherever it is: in a row, in a request that
\* nobody waits for, in the run and in the form.
RowNames  == {<<keyOf[s], fileOf[s]>> : s \in {t \in Sessions : row[t] # "absent"}}
LateNames == {<<r.key, r.file>> : r \in {q \in late : q.op = "initiate"}}
RunNames  == IF run.from = "dropzone" THEN {<<run.key, run.file>>} ELSE {}
FormNames == IF key = 0 THEN {} ELSE {<<key, file>>}
Named     == RowNames \union LateNames \union RunNames \union FormNames
KeysInv ==
    /\ keys \in Nat
    /\ \A c \in Named : c[1] \in 1 .. keys
    /\ \A c, d \in Named : c[1] = d[1] => c[2] = d[2]

\* What may still be served: parts of the session's file, and deletions the
\* user asked for.
Servable(r) ==
    /\ r.op = "initiate" => r.file \in Files \union {None}
    /\ r.op = "put" => Known(r.session) /\ r.file = fileOf[r.session]
    /\ r.op = "delete" => r.session \in canceled
LateInv == \A r \in late : Servable(r)

FormInv ==
    /\ checking \in BOOLEAN /\ file \in Files \union {None} /\ session \in Sessions \union {0} /\ key \in Nat
ShownInv ==
    /\ view \in {"checking", "failed", "dropzone", "recovered", "done"}
    /\ shown.s \in Sessions \union {0} /\ listed \in Sessions \union {0, None}
    /\ listed \notin {0, None} => Known(listed)
    /\ view = "recovered" => Known(shown.s)
Thens == {"nothing", "choose", "reset", "interrupted", "cancel", "reload"}
ReleaseInv ==
    /\ release \in [session : Sessions \union {0}, then : Thens, file : Files \union {None}]
    /\ release # Upload!NoRelease => release.session \in canceled

\* A run works on a session that exists; one of the dropzone on its own, and
\* a transfer on one of its file.
RunInv ==
    /\ run \in [step : {"idle", "identity", "initiate", "recover", "resume", "check", "transfer", "complete", "wait"},
                from : {"none", "dropzone", "recovered"}, session : Sessions \union {0}, key : Nat,
                file : Files \union {None}, again : BOOLEAN]
    /\ run.session # 0 => Known(run.session)
    /\ run.step \in {"recover", "resume", "check", "transfer", "complete", "wait"} => run.session # 0
    /\ run.step = "identity" /\ run.from # "dropzone" => run.session # 0
    /\ run.step \in {"initiate", "recover"} => run.from = "dropzone"
    /\ run.step = "transfer" => run.file = fileOf[run.session]
    /\ Upload!RunsOwnSession

Sending(w) == workers[w].step \in {"put", "url"}
\* The workers share out the parts that were not received when they began.
TransferInv ==
    /\ workers \in [Workers -> [part : 0 .. PartCount, attempt : Nat, step : {"idle", "url", "put", "done"}]]
    /\ next \in 1 .. PartCount + 1 /\ urls \subseteq 1 .. PartCount /\ skip \subseteq 1 .. PartCount
    /\ got \in [1 .. PartCount -> Files \union {None}]
    /\ run.step \in {"idle", "identity", "initiate", "recover", "resume", "check"} => got = NoneStored
    /\ \A w \in Workers : Sending(w) =>
          run.step = "transfer" /\ workers[w].part \in 1 .. next - 1 /\ workers[w].part \notin Upload!Held(got)
    /\ \A v, w \in Workers : Sending(v) /\ Sending(w) /\ v # w => workers[v].part # workers[w].part
    /\ run.step = "transfer" => Upload!Held(got) \subseteq skip \union (1 .. next - 1)
    /\ run.session # 0 /\ row[run.session] \in Upload!Active =>
          \A p \in Upload!Held(got) : stored[run.session][p] = got[p]

UploadInv == RowsInv /\ KeysInv /\ LateInv /\ FormInv /\ ShownInv /\ ReleaseInv /\ RunInv /\ TransferInv

-----------------------------------------------------------------------------
(* The sessions.                                                            *)

LEMMA UploadGiven ==
    /\ Sessions \subseteq Nat /\ 0 \notin Sessions /\ IsFiniteSet(Sessions) /\ PartCount \in Nat \ {0}
    /\ None \notin Files /\ Upload!Parts = 1 .. PartCount /\ Upload!NoParts = NoneStored
    /\ Upload!Active = {"initiated", "uploading"}
<1>1. Upload!ClientAssumption BY WellFormed DEF WellFormed
<1>2. Upload!IsFiniteSet(Sessions) <=> IsFiniteSet(Sessions) BY DEF Upload!IsFiniteSet, IsFiniteSet
<1>. QED BY <1>1, <1>2 DEF Upload!ClientAssumption, Upload!Parts, Upload!NoParts, NoneStored, Upload!Active

\* What a request may do to a session that exists.
RowsMove ==
    \A s \in Sessions : row[s] # "absent" =>
        /\ row'[s] # "absent" /\ keyOf'[s] = keyOf[s] /\ fileOf'[s] = fileOf[s]
        /\ row'[s] \in Upload!Active =>
              /\ row[s] \in Upload!Active
              /\ \A p \in 1 .. PartCount : stored[s][p] # None => stored'[s][p] = stored[s][p]

\* A request that changes nothing but what has become of the sessions.
LEMMA StatusMoves ==
    ASSUME RowsInv, canceled \subseteq canceled', UNCHANGED <<keyOf, fileOf, stored>>,
           row' \in [Sessions -> Statuses],
           \A s \in Sessions :
              /\ row'[s] = "absent" <=> row[s] = "absent"
              /\ row'[s] \in Upload!Active => row[s] \in Upload!Active
              /\ row'[s] \in {"finalizing", "completed"} =>
                    \/ row[s] \in {"finalizing", "completed"}
                    \/ \A p \in 1 .. PartCount : stored[s][p] = fileOf[s]
              /\ row'[s] = "aborted" => row[s] = "aborted" \/ s \in canceled'
    PROVE  RowsInv' /\ RowsMove /\ RowNames' = RowNames
<1>1. Upload!FinalizedIsOneFile' BY UploadGiven DEF RowsInv, Upload!FinalizedIsOneFile
<1>2. Upload!OnlyUserDestroys' BY DEF RowsInv, Upload!OnlyUserDestroys
<1>3. RowsMove BY DEF RowsMove
<1>4. RowNames' = RowNames BY DEF RowNames
<1>. QED BY <1>1, <1>2, <1>3, <1>4 DEF RowsInv

LEMMA NothingMoves ==
    ASSUME RowsInv, canceled \subseteq canceled', UNCHANGED <<row, keyOf, fileOf, stored>>
    PROVE  RowsInv' /\ RowsMove /\ RowNames' = RowNames
BY StatusMoves DEF RowsInv

LEMMA SignMoves ==
    ASSUME RowsInv, canceled \subseteq canceled', NEW s, Upload!SignAt(s)
    PROVE  RowsInv' /\ RowsMove /\ RowNames' = RowNames
<1>1. /\ row' = [row EXCEPT ![s] = IF Upload!Expired(s) THEN "expired"
                                   ELSE IF row[s] = "initiated" THEN "uploading" ELSE row[s]]
      /\ UNCHANGED <<keyOf, fileOf, stored>>
  BY DEF Upload!SignAt
<1>2. row \in [Sessions -> Statuses] BY DEF RowsInv
<1>3. Upload!Expired(s) => row[s] # "absent" BY DEF Upload!Expired, Upload!Active
<1>4. row' \in [Sessions -> Statuses] BY <1>1, <1>2 DEF Statuses
<1>. QED BY <1>1, <1>2, <1>3, <1>4, StatusMoves DEF Upload!Active

LEMMA AbortMoves ==
    ASSUME RowsInv, canceled \subseteq canceled', NEW s \in canceled', Upload!AbortAt(s)
    PROVE  RowsInv' /\ RowsMove /\ RowNames' = RowNames
<1>1. /\ row' = [row EXCEPT ![s] = IF row[s] \in Upload!Active \union {"expired"} THEN "aborted" ELSE row[s]]
      /\ UNCHANGED <<keyOf, fileOf, stored>>
  BY DEF Upload!AbortAt
<1>2. row \in [Sessions -> Statuses] BY DEF RowsInv
<1>4. row' \in [Sessions -> Statuses] BY <1>1, <1>2 DEF Statuses
<1>. QED BY <1>1, <1>2, <1>4, StatusMoves DEF Upload!Active

\* What is finalized was held whole.
LEMMA CompleteMoves ==
    ASSUME RowsInv, canceled \subseteq canceled', NEW s, NEW receipts, Upload!CompleteAt(s, receipts)
    PROVE  RowsInv' /\ RowsMove /\ RowNames' = RowNames
<1>. DEFINE done == Upload!Completes(s, receipts) /\ receipts = stored[s]
<1>1. /\ row' = [row EXCEPT ![s] = IF Upload!Expired(s) THEN "expired"
                                   ELSE IF done THEN "finalizing" ELSE row[s]]
      /\ UNCHANGED <<keyOf, fileOf, stored>>
  BY DEF Upload!CompleteAt
<1>2. row \in [Sessions -> Statuses] BY DEF RowsInv
<1>3. Upload!Expired(s) \/ done => row[s] # "absent"
  BY DEF Upload!Expired, Upload!Active, Upload!Completes
<1>4. row' \in [Sessions -> Statuses] BY <1>1, <1>2 DEF Statuses
<1>5. ASSUME s \in Sessions, done PROVE \A p \in 1 .. PartCount : stored[s][p] = fileOf[s]
  <2>1. Upload!Held(stored[s]) = 1 .. PartCount BY <1>5, UploadGiven DEF Upload!Completes
  <2>2. \A p \in 1 .. PartCount : stored[s][p] # None BY <2>1, UploadGiven DEF Upload!Held
  <2>. QED BY <1>5, <2>2 DEF RowsInv
<1>. HIDE DEF done
<1>. QED BY <1>1, <1>2, <1>3, <1>4, <1>5, StatusMoves DEF Upload!Active

\* A part of the session's own file arrives.
LEMMA PutMoves ==
    ASSUME RowsInv, canceled \subseteq canceled', NEW s, Known(s), NEW p, NEW f, f = fileOf[s],
           Upload!PutAt(s, p, f)
    PROVE  RowsInv' /\ RowsMove /\ RowNames' = RowNames
<1>1. /\ stored' = IF row[s] \in Upload!Active THEN [stored EXCEPT ![s][p] = f] ELSE stored
      /\ UNCHANGED <<row, keyOf, fileOf>>
  BY DEF Upload!PutAt
<1>2. CASE row[s] \notin Upload!Active BY <1>1, <1>2, NothingMoves
<1>3. CASE row[s] \in Upload!Active
  <2>1. /\ stored \in [Sessions -> [1 .. PartCount -> Files \union {None}]] /\ f \in Files \union {None}
        /\ fileOf \in [Sessions -> Files \union {None}] /\ s \in Sessions
    BY DEF RowsInv, Known
  <2>2. \A t \in Sessions : \A q \in 1 .. PartCount :
           stored'[t][q] = IF t = s /\ q = p THEN f ELSE stored[t][q]
    BY <1>1, <1>3, <2>1
  <2>3. stored' \in [Sessions -> [1 .. PartCount -> Files \union {None}]]
    BY <1>1, <1>3, <2>1
  <2>4. \A t \in Sessions : t # s => stored'[t] = stored[t] BY <1>1, <1>3, <2>1
  <2>5. \A t \in Sessions : \A q \in 1 .. PartCount : stored'[t][q] \in {None, fileOf'[t]}
    BY <1>1, <2>2 DEF RowsInv
  <2>6. \A t \in Sessions : row'[t] = "absent" => stored'[t] = NoneStored
    <3>1. row[s] # "absent" BY <1>3, UploadGiven
    <3>. QED BY <1>1, <2>4, <3>1 DEF RowsInv
  <2>7. Upload!FinalizedIsOneFile'
    <3>1. row[s] \notin {"finalizing", "completed"} BY <1>3, UploadGiven
    <3>. QED BY <1>1, <2>4, <3>1 DEF RowsInv, Upload!FinalizedIsOneFile
  <2>8. Upload!OnlyUserDestroys' BY <1>1 DEF RowsInv, Upload!OnlyUserDestroys
  <2>9. RowsMove
    <3>1. \A t \in Sessions : \A q \in 1 .. PartCount : stored[t][q] # None => stored'[t][q] = stored[t][q]
      BY <2>2 DEF RowsInv
    <3>. QED BY <1>1, <3>1 DEF RowsMove
  <2>10. RowNames' = RowNames BY <1>1 DEF RowNames
  <2>. QED BY <1>1, <2>3, <2>5, <2>6, <2>7, <2>8, <2>9, <2>10 DEF RowsInv
<1>. QED BY <1>2, <1>3

\* A key that is known answers with its session; a new one opens a session of
\* its file, with no parts.
LEMMA InitiateMoves ==
    ASSUME RowsInv, canceled \subseteq canceled', NEW k \in Nat \ {0}, NEW f \in Files \union {None}, NEW again,
           NEW s, Upload!InitiateAt(k, f, again, s)
    PROVE  /\ RowsInv' /\ RowsMove /\ RowNames' \subseteq RowNames \union {<<k, f>>}
           /\ s # 0 => Known(s)' /\ keyOf'[s] = k
           /\ s # 0 /\ keyOf[s] = 0 => fileOf'[s] = f
           /\ s # 0 /\ keyOf[s] # 0 => fileOf'[s] = fileOf[s] /\ row[s] # "absent"
<1>. DEFINE old == {t \in Sessions : keyOf[t] = k}
            lapsed == {t \in Sessions : Upload!Expired(t)}
<1>0. /\ row \in [Sessions -> Statuses] /\ keyOf \in [Sessions -> Nat]
      /\ fileOf \in [Sessions -> Files \union {None}] /\ 0 \notin Sessions
      /\ \A t \in Sessions : row[t] = "absent" <=> keyOf[t] = 0
  BY UploadGiven DEF RowsInv
<1>1. CASE old # {}
  <2>1. /\ s \in old /\ UNCHANGED <<keyOf, fileOf, stored>>
        /\ row' = [row EXCEPT ![s] = IF Upload!Expired(s) THEN "expired" ELSE row[s]]
    BY <1>1 DEF Upload!InitiateAt
  <2>2. row' \in [Sessions -> Statuses] BY <1>0, <2>1 DEF Statuses
  <2>3. s \in Sessions /\ keyOf[s] = k /\ row[s] # "absent" BY <1>0, <2>1
  <2>. HIDE DEF old
  <2>4. RowsInv' /\ RowsMove /\ RowNames' = RowNames
    BY <1>0, <2>1, <2>2, <2>3, StatusMoves DEF Upload!Active
  <2>. QED BY <2>1, <2>3, <2>4 DEF Known, RowsMove
<1>2. CASE old = {} /\ s = 0 /\ UNCHANGED Upload!server
  BY <1>2, NothingMoves DEF Upload!server
<1>3. CASE /\ old = {} /\ s \in Sessions /\ row[s] = "absent"
           /\ row' = [t \in Sessions |-> CASE t = s -> "initiated" [] t \in lapsed -> "expired"
                                           [] OTHER -> row[t]]
           /\ keyOf' = [keyOf EXCEPT ![s] = k] /\ fileOf' = [fileOf EXCEPT ![s] = f]
           /\ UNCHANGED stored
  <2>1. keyOf' \in [Sessions -> Nat] /\ fileOf' \in [Sessions -> Files \union {None}]
    BY <1>0, <1>3
  <2>2. \A t \in Sessions : t # s => keyOf'[t] = keyOf[t] /\ fileOf'[t] = fileOf[t]
    BY <1>0, <1>3
  <2>3. row'[s] = "initiated" /\ keyOf'[s] = k /\ fileOf'[s] = f
    <3>1. s \notin lapsed BY <1>3 DEF Upload!Expired, Upload!Active
    <3>. QED BY <1>0, <1>3, <3>1
  <2>4. \A t \in Sessions : t # s => row'[t] \in {row[t], "expired"} /\ (row'[t] # row[t] => row[t] # "absent")
    BY <1>3 DEF Upload!Expired, Upload!Active
  <2>5. row' \in [Sessions -> Statuses]
    <3>1. \A t \in Sessions : row'[t] \in Statuses BY <1>0, <2>3, <2>4 DEF Statuses
    <3>2. row' = [t \in Sessions |-> row'[t]] BY <1>3
    <3>. QED BY <3>1, <3>2
  <2>6. stored[s] = NoneStored BY <1>3 DEF RowsInv
  <2>7. \A t \in Sessions : row'[t] = "absent" <=> keyOf'[t] = 0 BY <1>0, <2>2, <2>3, <2>4
  <2>8. \A t \in Sessions : row'[t] = "absent" => stored'[t] = NoneStored
    BY <1>3, <2>3, <2>4 DEF RowsInv
  <2>9. \A t \in Sessions : \A p \in 1 .. PartCount : stored'[t][p] \in {None, fileOf'[t]}
    <3>1. \A p \in 1 .. PartCount : stored'[s][p] = None BY <1>3, <2>6 DEF NoneStored
    <3>2. \A t \in Sessions : t # s =>
             \A p \in 1 .. PartCount : stored'[t][p] = stored[t][p] /\ fileOf'[t] = fileOf[t]
      BY <1>3, <2>2
    <3>. QED BY <3>1, <3>2 DEF RowsInv
  <2>10. Upload!FinalizedIsOneFile' BY <1>3, <2>2, <2>3, <2>4, UploadGiven DEF RowsInv, Upload!FinalizedIsOneFile
  <2>11. Upload!OnlyUserDestroys' BY <2>3, <2>4 DEF RowsInv, Upload!OnlyUserDestroys
  <2>12. RowsMove BY <1>3, <2>2, <2>4 DEF RowsMove, Upload!Active
  <2>13. RowNames' \subseteq RowNames \union {<<k, f>>} BY <2>2, <2>3, <2>4 DEF RowNames
  <2>14. RowsInv' BY <1>3, <2>1, <2>5, <2>7, <2>8, <2>9, <2>10, <2>11 DEF RowsInv
  <2>. QED BY <1>0, <1>3, <2>3, <2>12, <2>13, <2>14 DEF Known
<1>. QED BY <1>1, <1>2, <1>3 DEF Upload!InitiateAt

-----------------------------------------------------------------------------
(* What a step leaves of the invariant when it does not touch it.           *)

LEMMA KeysKept == ASSUME KeysInv, keys' = keys, Named' \subseteq Named PROVE KeysInv'
BY DEF KeysInv

LEMMA KeysFresh ==
    ASSUME KeysInv, keys' = keys + 1, NEW f, Named' \subseteq Named \union {<<keys + 1, f>>}
    PROVE  KeysInv'
<1>1. keys \in Nat /\ \A c \in Named : c[1] \in 1 .. keys BY DEF KeysInv
<1>2. \A c \in Named : c[1] # keys + 1 /\ c[1] \in 1 .. keys + 1 BY <1>1
<1>3. <<keys + 1, f>>[1] = keys + 1 /\ keys + 1 \in 1 .. keys + 1 BY <1>1
<1>4. \A c \in Named' : c[1] \in 1 .. keys' BY <1>2, <1>3
<1>5. \A c, d \in Named' : c[1] = d[1] => c[2] = d[2] BY <1>2, <1>3 DEF KeysInv
<1>. QED BY <1>1, <1>4, <1>5 DEF KeysInv

LEMMA LateKept ==
    ASSUME LateInv, RowsMove, canceled \subseteq canceled', \A r \in late' : r \in late \/ Servable(r)
    PROVE  LateInv'
<1>. SUFFICES ASSUME NEW r \in late' PROVE Servable(r)' BY DEF LateInv
<1>1. Servable(r) BY DEF LateInv
<1>. QED BY <1>1 DEF Servable, Known, RowsMove

LEMMA FormKept == ASSUME FormInv, UNCHANGED <<checking, file, session, key>> PROVE FormInv'
BY DEF FormInv

LEMMA ShownKept == ASSUME ShownInv, RowsMove, UNCHANGED <<view, shown, listed>> PROVE ShownInv'
BY DEF ShownInv, RowsMove, Known

LEMMA ReleaseKept == ASSUME ReleaseInv, release' = release, canceled \subseteq canceled' PROVE ReleaseInv'
BY DEF ReleaseInv

LEMMA RunKept == ASSUME RunInv, RowsMove, run' = run PROVE RunInv'
BY DEF RunInv, RowsMove, Known, Upload!RunsOwnSession

LEMMA TransferKept ==
    ASSUME TransferInv, RunInv, RowsMove, UNCHANGED <<run, workers, next, urls, got, skip>>
    PROVE  TransferInv'
<1>1. ASSUME run.session # 0, row'[run.session] \in Upload!Active
      PROVE  \A p \in Upload!Held(got) : stored'[run.session][p] = got[p]
  <2>1. Known(run.session) BY <1>1 DEF RunInv
  <2>2. /\ row[run.session] \in Upload!Active
        /\ \A p \in 1 .. PartCount : stored[run.session][p] # None =>
              stored'[run.session][p] = stored[run.session][p]
    BY <1>1, <2>1 DEF RowsMove, Known
  <2>3. \A p \in Upload!Held(got) : /\ p \in 1 .. PartCount /\ got[p] # None
                                    /\ stored[run.session][p] = got[p]
    BY <1>1, <2>2, UploadGiven DEF TransferInv, Upload!Held
  <2>. QED BY <2>2, <2>3
<1>2. /\ Upload!Held(got)' = Upload!Held(got) /\ Upload!Active' = Upload!Active
      /\ \A w \in Workers : Sending(w)' <=> Sending(w)
  BY DEF Upload!Held, Upload!Active, Sending
<1>. QED BY <1>1, <1>2 DEF TransferInv

\* Requests of a run that is stopped are its own.
LEMMA InFlightServable ==
    ASSUME RunInv, NEW r \in Upload!InFlight
    PROVE  /\ Servable(r)
           /\ r.op = "initiate" => run.from = "dropzone" /\ r.key = run.key /\ r.file = run.file
<1>1. CASE run.step = "initiate" /\ r = Upload!Request("initiate", run)
  BY <1>1 DEF Upload!Request, Servable, RunInv
<1>2. CASE run.step = "complete" /\ r = [Upload!Request("complete", run) EXCEPT !.receipts = got]
  BY <1>2 DEF Upload!Request, Servable
<1>3. CASE run.step = "transfer" /\ \E w \in Workers : r = Upload!Put(w)
  <2>1. r.op = "put" /\ r.session = run.session /\ r.file = run.file
    BY <1>3 DEF Upload!Put, Upload!Request
  <2>2. Known(run.session) /\ run.file = fileOf[run.session] BY <1>3 DEF RunInv
  <2>. QED BY <2>1, <2>2 DEF Servable
<1>4. \/ run.step = "initiate" /\ r = Upload!Request("initiate", run)
      \/ run.step = "complete" /\ r = [Upload!Request("complete", run) EXCEPT !.receipts = got]
      \/ run.step = "transfer" /\ \E w \in Workers : r = Upload!Put(w)
  <2>1. CASE run.step = "initiate" BY <2>1 DEF Upload!InFlight
  <2>2. CASE run.step = "complete" BY <2>2 DEF Upload!InFlight
  <2>3. CASE run.step = "transfer" BY <2>3 DEF Upload!InFlight
  <2>4. CASE run.step \notin {"initiate", "complete", "transfer"} BY <2>4 DEF Upload!InFlight
  <2>. QED BY <2>1, <2>2, <2>3, <2>4
<1>. QED BY <1>1, <1>2, <1>3, <1>4

\* An empty run.
LEMMA IdleRun ==
    ASSUME run' = Upload!NoRun, Upload!NoTransfer
    PROVE  RunInv' /\ TransferInv' /\ RunNames' = {}
<1>1. run' = [step |-> "idle", from |-> "none", session |-> 0, key |-> 0, file |-> None, again |-> FALSE]
  BY DEF Upload!NoRun
<1>2. /\ workers' = [w \in Workers |-> [part |-> 0, attempt |-> 0, step |-> "idle"]]
      /\ next' = 1 /\ urls' = {} /\ got' = NoneStored /\ skip' = {}
  BY UploadGiven DEF Upload!NoTransfer, Upload!Asleep
<1>3. RunInv' BY <1>1 DEF RunInv, Upload!RunsOwnSession
<1>4. RunNames' = {} BY <1>1 DEF RunNames
<1>5. TransferInv'
  <2>1. \A w \in Workers : ~Sending(w)' BY <1>2 DEF Sending
  <2>2. workers' \in [Workers -> [part : 0 .. PartCount, attempt : Nat, step : {"idle", "url", "put", "done"}]]
    <3>1. 0 \in 0 .. PartCount BY UploadGiven
    <3>. QED BY <1>2, <3>1
  <2>3. next' \in 1 .. PartCount + 1 BY <1>2, UploadGiven
  <2>4. got' \in [1 .. PartCount -> Files \union {None}] BY <1>2 DEF NoneStored
  <2>. QED BY <1>1, <1>2, <2>1, <2>2, <2>3, <2>4 DEF TransferInv
<1>. QED BY <1>3, <1>4, <1>5

\* A run that stops leaves its requests to themselves.
LEMMA StopsSafe ==
    ASSUME RunInv, Upload!Stops
    PROVE  /\ RunInv' /\ TransferInv' /\ RunNames' = {}
           /\ \A r \in late' : r \in late \/ Servable(r)
           /\ LateNames' \subseteq LateNames \union RunNames
<1>1. /\ late' = late \union Upload!InFlight /\ run' = Upload!NoRun /\ Upload!NoTransfer
  BY DEF Upload!Stops, Upload!Abandoned
<1>2. \A r \in late' : r \in late \/ Servable(r) BY <1>1, InFlightServable
<1>3. LateNames' \subseteq LateNames \union RunNames
  BY <1>1, InFlightServable DEF LateNames, RunNames
<1>. QED BY <1>1, <1>2, <1>3, IdleRun

LEMMA FailsKeeps ==
    ASSUME UploadInv, RowsInv', RowsMove, RowNames' \subseteq RowNames \union RunNames, keys' = keys,
           NEW kind, Upload!Fails(kind)
    PROVE  UploadInv'
<1>1. /\ Upload!Stops /\ UNCHANGED <<view, listed, release, canceled>>
      /\ file' = file /\ key' \in {0, key} /\ session' \in {0, session}
  BY DEF Upload!Fails, Upload!Pending, Upload!dropzone
<1>2. checking' \in BOOLEAN
  <2>1. \/ checking' = (checking \/ (~Upload!Releasing /\ (session # 0 \/ kind = "capacity")))
        \/ checking' = checking
    BY DEF Upload!Fails
  <2>. QED BY <2>1 DEF UploadInv, FormInv
<1>3. shown' = shown \/ shown' = Upload!Snapshot(shown.s)
  BY DEF Upload!Fails
<1>4. shown'.s = shown.s BY <1>3 DEF Upload!Snapshot
<1>5. /\ RunInv' /\ TransferInv' /\ RunNames' = {}
      /\ \A r \in late' : r \in late \/ Servable(r)
      /\ LateNames' \subseteq LateNames \union RunNames
  BY <1>1, StopsSafe DEF UploadInv
<1>6. LateInv' BY <1>1, <1>5, LateKept DEF UploadInv
<1>7. FormInv' BY <1>1, <1>2 DEF UploadInv, FormInv
<1>8. ShownInv' BY <1>1, <1>4 DEF UploadInv, ShownInv, RowsMove, Known
<1>9. ReleaseInv' BY <1>1, ReleaseKept DEF UploadInv
<1>10. KeysInv'
  <2>1. FormNames' \subseteq FormNames BY <1>1 DEF FormNames
  <2>2. Named' \subseteq Named BY <1>5, <2>1 DEF Named
  <2>. QED BY <2>2, KeysKept DEF UploadInv
<1>. QED BY <1>5, <1>6, <1>7, <1>8, <1>9, <1>10 DEF UploadInv

\* What a step of the run or of the server leaves of the page.
LEMMA PageKept ==
    ASSUME UploadInv, RowsMove, RowNames' \subseteq RowNames \union RunNames \union LateNames,
           RunNames' \subseteq RunNames,
           \A r \in late' \ late : Servable(r) /\ r.op # "initiate",
           UNCHANGED <<view, checking, file, key, session, listed, shown, release, canceled, keys>>
    PROVE  KeysInv' /\ LateInv' /\ FormInv' /\ ShownInv' /\ ReleaseInv'
<1>1. LateInv' BY LateKept DEF UploadInv
<1>2. FormInv' /\ ShownInv' /\ ReleaseInv' BY FormKept, ShownKept, ReleaseKept DEF UploadInv
<1>3. Named' \subseteq Named
  <2>1. FormNames' = FormNames BY DEF FormNames
  <2>2. LateNames' \subseteq LateNames BY DEF LateNames
  <2>. QED BY <2>1, <2>2 DEF Named
<1>. QED BY <1>1, <1>2, <1>3, KeysKept DEF UploadInv

-----------------------------------------------------------------------------
(* The run, up to the transfer of the parts.                                *)

Steps == {"idle", "identity", "initiate", "recover", "resume", "check", "transfer", "complete", "wait"}

LEMMA Continues ==
    ASSUME RunInv, NEW step \in Steps, Upload!Continue(step)
    PROVE  /\ run' \in [step : Steps, from : {"none", "dropzone", "recovered"}, session : Sessions \union {0},
                        key : Nat, file : Files \union {None}, again : BOOLEAN]
           /\ run'.step = step /\ run'.from = run.from /\ run'.session = run.session
           /\ run'.key = run.key /\ run'.file = run.file /\ RunNames' = RunNames
<1>1. run' = [run EXCEPT !.step = step] BY DEF Upload!Continue
<1>2. run \in [step : Steps, from : {"none", "dropzone", "recovered"}, session : Sessions \union {0},
               key : Nat, file : Files \union {None}, again : BOOLEAN]
  BY DEF RunInv, Steps
<1>3. run' \in [step : Steps, from : {"none", "dropzone", "recovered"}, session : Sessions \union {0},
                key : Nat, file : Files \union {None}, again : BOOLEAN]
  BY <1>1, <1>2
<1>4. /\ run'.step = step /\ run'.from = run.from /\ run'.session = run.session
      /\ run'.key = run.key /\ run'.file = run.file
  BY <1>1, <1>2
<1>. QED BY <1>3, <1>4 DEF RunNames

\* The receipts held before are still backed.
LEMMA ReceiptsKept ==
    ASSUME RunInv, TransferInv, RowsMove, got' = got, run'.session = run.session,
           run'.session # 0, row'[run'.session] \in Upload!Active
    PROVE  \A p \in Upload!Held(got') : stored'[run'.session][p] = got'[p]
<1>1. Known(run.session) BY DEF RunInv
<1>2. /\ row[run.session] \in Upload!Active
      /\ \A p \in 1 .. PartCount : stored[run.session][p] # None =>
            stored'[run.session][p] = stored[run.session][p]
  BY <1>1 DEF RowsMove, Known
<1>3. \A p \in Upload!Held(got) : /\ p \in 1 .. PartCount /\ got[p] # None
                                  /\ stored[run.session][p] = got[p]
  BY <1>2, UploadGiven DEF TransferInv, Upload!Held
<1>. QED BY <1>2, <1>3

\* A run moves on between its requests.
LEMMA MovesOn ==
    ASSUME RunInv, TransferInv, RowsMove, NEW step \in {"initiate", "resume", "complete", "wait"},
           Upload!Continue(step), UNCHANGED <<workers, next, urls, got, skip>>,
           \A w \in Workers : ~Sending(w),
           step = "initiate" => run.step = "identity" /\ run.from = "dropzone",
           step = "resume" => run.step = "identity",
           step # "initiate" => run.session # 0
    PROVE  RunInv' /\ TransferInv' /\ RunNames' = RunNames
<1>1. /\ run' \in [step : Steps, from : {"none", "dropzone", "recovered"}, session : Sessions \union {0},
                   key : Nat, file : Files \union {None}, again : BOOLEAN]
      /\ run'.step = step /\ run'.from = run.from /\ run'.session = run.session
      /\ run'.key = run.key /\ run'.file = run.file /\ RunNames' = RunNames
  BY Continues DEF Steps
<1>2. RunInv'
  <2>1. run'.session # 0 => Known(run.session)' BY <1>1 DEF RunInv, RowsMove, Known
  <2>2. Upload!RunsOwnSession'
    BY <1>1 DEF RunInv, Upload!RunsOwnSession, RowsMove, Known
  <2>. QED BY <1>1, <2>1, <2>2 DEF RunInv, Steps, Known
<1>3. TransferInv'
  <2>1. \A w \in Workers : ~Sending(w)' BY DEF Sending
  <2>2. run'.session # 0 /\ row'[run'.session] \in Upload!Active =>
           \A p \in Upload!Held(got') : stored'[run'.session][p] = got'[p]
    BY <1>1, ReceiptsKept
  <2>3. run'.step \in {"idle", "identity", "initiate", "recover", "resume", "check"} => got' = NoneStored
    BY <1>1 DEF TransferInv
  <2>4. run'.step # "transfer" BY <1>1
  <2>5. /\ Upload!Held(got)' = Upload!Held(got') /\ Upload!Active' = Upload!Active
    BY DEF Upload!Held, Upload!Active
  <2>. QED BY <2>1, <2>2, <2>3, <2>4, <2>5 DEF TransferInv
<1>. QED BY <1>1, <1>2, <1>3

LEMMA LossKeeps == ASSUME UploadInv, Upload!Loss PROVE UploadInv'
<1>1. /\ UNCHANGED <<row, keyOf, fileOf, stored, keys>> /\ Upload!Fails("network")
  BY DEF Upload!Loss, Upload!Fault, Upload!server
<1>2. canceled' = canceled BY <1>1 DEF Upload!Fails
<1>3. RowsInv' /\ RowsMove /\ RowNames' = RowNames BY <1>1, <1>2, NothingMoves DEF UploadInv
<1>. QED BY <1>1, <1>3, FailsKeeps

LEMMA IdentifyKeeps == ASSUME UploadInv, Upload!Identify PROVE UploadInv'
<1>1. /\ run.step = "identity"
      /\ Upload!Continue(IF run.from = "dropzone" THEN "initiate" ELSE "resume")
      /\ UNCHANGED <<row, keyOf, fileOf, stored, workers, next, urls, got, skip>>
      /\ UNCHANGED <<late, view, checking, file, key, session, listed, shown, release, canceled, keys>>
  BY DEF Upload!Identify, Upload!Pending, Upload!server, Upload!transfer, Upload!Local, Upload!page,
         Upload!dropzone, Upload!bounds
<1>2. RowsInv' /\ RowsMove /\ RowNames' = RowNames BY <1>1, NothingMoves DEF UploadInv
<1>3. \A w \in Workers : ~Sending(w) BY <1>1 DEF UploadInv, TransferInv
<1>4. RunInv' /\ TransferInv' /\ RunNames' = RunNames
  <2>1. CASE run.from = "dropzone" BY <1>1, <1>2, <1>3, <2>1, MovesOn DEF UploadInv
  <2>2. CASE run.from # "dropzone"
    <3>1. run.session # 0 BY <1>1, <2>2 DEF UploadInv, RunInv
    <3>. QED BY <1>1, <1>2, <1>3, <2>2, <3>1, MovesOn DEF UploadInv
  <2>. QED BY <2>1, <2>2
<1>. QED BY <1>1, <1>2, <1>4, PageKept DEF UploadInv

\* An open session continues with the parts it holds.
LEMMA ResumeKeeps ==
    ASSUME UploadInv, run.step \in {"recover", "resume"}, run.file = fileOf[run.session],
           Upload!Resume(Upload!Snapshot(run.session)), UNCHANGED <<Upload!server, Upload!Local>>
    PROVE  UploadInv'
<1>. DEFINE s == run.session
            snapshot == Upload!Snapshot(s)
<1>1. /\ UNCHANGED <<row, keyOf, fileOf, stored>>
      /\ UNCHANGED <<late, view, checking, file, key, session, listed, shown, release, canceled, keys>>
  BY DEF Upload!server, Upload!Local, Upload!page, Upload!dropzone, Upload!bounds
<1>2. RowsInv' /\ RowsMove /\ RowNames' = RowNames BY <1>1, NothingMoves DEF UploadInv
<1>3. s # 0 /\ Known(s) /\ \A w \in Workers : ~Sending(w)
  BY DEF UploadInv, RunInv, TransferInv
<1>4. CASE snapshot.status \in Upload!Active
  <2>1. /\ Upload!Continue("transfer") /\ got' = snapshot.parts /\ skip' = Upload!Held(snapshot.parts)
        /\ UNCHANGED <<workers, next, urls>>
    BY <1>4 DEF Upload!Resume
  <2>2. row[s] \in Upload!Active /\ snapshot.parts = stored[s]
    BY <1>4, UploadGiven DEF Upload!Snapshot
  <2>3. /\ run' \in [step : Steps, from : {"none", "dropzone", "recovered"}, session : Sessions \union {0},
                     key : Nat, file : Files \union {None}, again : BOOLEAN]
        /\ run'.step = "transfer" /\ run'.from = run.from /\ run'.session = s
        /\ run'.key = run.key /\ run'.file = run.file /\ RunNames' = RunNames
    BY <2>1, Continues DEF UploadInv, Steps
  <2>4. RunInv'
    <3>1. Known(run.session)' BY <1>2, <1>3, <2>3 DEF RowsMove, Known
    <3>2. Upload!RunsOwnSession' BY <1>1, <2>3 DEF UploadInv, RunInv, Upload!RunsOwnSession
    <3>. QED BY <1>1, <1>3, <2>3, <3>1, <3>2 DEF RunInv, Steps
  <2>5. TransferInv'
    <3>1. \A w \in Workers : ~Sending(w)' BY <1>3, <2>1 DEF Sending
    <3>2. got' = stored[s] /\ got' \in [1 .. PartCount -> Files \union {None}]
      BY <1>3, <2>1, <2>2 DEF UploadInv, RowsInv, Known
    <3>3. skip' = Upload!Held(got') /\ skip' \subseteq 1 .. PartCount
      BY <2>1, UploadGiven DEF Upload!Held
    <3>4. \A p \in Upload!Held(got') : stored'[s][p] = got'[p] BY <1>1, <3>2
    <3>5. Upload!Held(got)' = Upload!Held(got') BY DEF Upload!Held
    <3>. QED BY <2>1, <2>3, <3>1, <3>2, <3>3, <3>4, <3>5 DEF UploadInv, TransferInv
  <2>. QED BY <1>1, <1>2, <2>3, <2>4, <2>5, PageKept DEF UploadInv
<1>5. CASE snapshot.status \notin Upload!Active
  <2>1. Upload!Continue("wait") /\ UNCHANGED <<workers, next, urls, got, skip>>
    BY <1>5 DEF Upload!Resume, Upload!transfer
  <2>2. RunInv' /\ TransferInv' /\ RunNames' = RunNames
    BY <1>2, <1>3, <2>1, MovesOn DEF UploadInv
  <2>. QED BY <1>1, <1>2, <2>2, PageKept DEF UploadInv
<1>. QED BY <1>4, <1>5

LEMMA RecoverKeeps == ASSUME UploadInv, Upload!Recover PROVE UploadInv'
<1>1. run.step = "recover" BY DEF Upload!Recover
<1>2. run.file = fileOf[run.session] BY <1>1 DEF UploadInv, RunInv, Upload!RunsOwnSession
<1>. QED BY <1>1, <1>2, ResumeKeeps, LossKeeps DEF Upload!Recover

LEMMA ResumeSessionKeeps == ASSUME UploadInv, Upload!ResumeSession PROVE UploadInv'
<1>1. run.step = "resume" BY DEF Upload!ResumeSession
<1>2. CASE Upload!SameFile /\ Upload!Resume(Upload!Snapshot(run.session))
           /\ UNCHANGED <<Upload!server, Upload!Local>>
  BY <1>1, <1>2, ResumeKeeps DEF Upload!SameFile
<1>3. CASE Upload!Fails("mismatch") /\ UNCHANGED <<Upload!server, Upload!bounds>>
  <2>1. UNCHANGED <<row, keyOf, fileOf, stored, keys, canceled>>
    BY <1>3 DEF Upload!Fails, Upload!server, Upload!bounds
  <2>2. RowsInv' /\ RowsMove /\ RowNames' = RowNames BY <2>1, NothingMoves DEF UploadInv
  <2>. QED BY <1>3, <2>1, <2>2, FailsKeeps
<1>. QED BY <1>2, <1>3, LossKeeps DEF Upload!ResumeSession

\* Initiate: the session it answers with is of this run's key, hence file.
LEMMA InitiateKeeps == ASSUME UploadInv, Upload!Initiate PROVE UploadInv'
<1>0. run.step = "initiate" /\ run.from = "dropzone" BY DEF Upload!Initiate, UploadInv, RunInv
<1>1. /\ run.key \in Nat \ {0} /\ run.file \in Files \union {None} /\ RunNames = {<<run.key, run.file>>}
      /\ <<run.key, run.file>> \in Named
  <2>1. RunNames = {<<run.key, run.file>>} BY <1>0 DEF RunNames
  <2>2. <<run.key, run.file>> \in Named BY <2>1 DEF Named
  <2>3. <<run.key, run.file>>[1] \in 1 .. keys /\ keys \in Nat BY <2>2 DEF UploadInv, KeysInv
  <2>4. run.file \in Files \union {None} BY DEF UploadInv, RunInv
  <2>. QED BY <2>1, <2>2, <2>3, <2>4
<1>2. CASE Upload!InitiateAt(run.key, run.file, run.again, 0) /\ Upload!Fails("capacity")
           /\ UNCHANGED Upload!bounds
  <2>1. keys' = keys /\ canceled' = canceled BY <1>2 DEF Upload!bounds, Upload!Fails
  <2>2. RowsInv' /\ RowsMove /\ RowNames' \subseteq RowNames \union {<<run.key, run.file>>}
    BY <1>1, <1>2, <2>1, InitiateMoves DEF UploadInv
  <2>. QED BY <1>1, <1>2, <2>1, <2>2, FailsKeeps
<1>3. ASSUME NEW s \in Sessions,
             Upload!InitiateAt(run.key, run.file, run.again, s), session' = s,
             IF Upload!InitiateResponse(s).resumed
             THEN run' = [run EXCEPT !.session = s, !.step = "recover"] /\ UNCHANGED Upload!transfer
             ELSE /\ run' = [run EXCEPT !.session = s, !.step = "transfer"]
                  /\ urls' = Upload!InitiateResponse(s).parts
                  /\ UNCHANGED <<workers, next, got, skip>>,
             UNCHANGED <<late, view, checking, file, key, duplicate, listed, shown, release, canceled, Upload!bounds>>
      PROVE  UploadInv'
  <2>1. UNCHANGED <<late, view, checking, file, key, listed, shown, release, canceled, keys>>
    BY <1>3 DEF Upload!bounds
  <2>2. s # 0 BY UploadGiven
  <2>3. /\ RowsInv' /\ RowsMove /\ RowNames' \subseteq RowNames \union {<<run.key, run.file>>}
        /\ s \in Sessions /\ row'[s] # "absent" /\ keyOf'[s] = run.key
        /\ keyOf[s] = 0 => fileOf'[s] = run.file
        /\ keyOf[s] # 0 => fileOf'[s] = fileOf[s] /\ row[s] # "absent"
    BY <1>1, <1>3, <2>1, <2>2, InitiateMoves DEF UploadInv, Known
  <2>4. fileOf'[s] = run.file
    <3>1. CASE keyOf[s] # 0
      <4>1. <<keyOf[s], fileOf[s]>> \in Named BY <2>3, <3>1 DEF Named, RowNames
      <4>2. keyOf[s] = run.key BY <2>3, <3>1 DEF RowsMove
      <4>3. <<keyOf[s], fileOf[s]>>[2] = <<run.key, run.file>>[2]
        BY <1>1, <4>1, <4>2 DEF UploadInv, KeysInv
      <4>. QED BY <2>3, <3>1, <4>3
    <3>. QED BY <2>3, <3>1
  <2>5. PICK step \in {"recover", "transfer"} :
           /\ run' = [run EXCEPT !.session = s, !.step = step]
           /\ UNCHANGED <<workers, next, got, skip>>
           /\ urls' \subseteq 1 .. PartCount
    <3>1. CASE Upload!InitiateResponse(s).resumed
      BY <1>3, <3>1 DEF Upload!transfer, UploadInv, TransferInv
    <3>2. CASE ~Upload!InitiateResponse(s).resumed
      <4>1. urls' = Upload!PresignedParts(s) BY <1>3, <3>2 DEF Upload!InitiateResponse
      <4>2. urls' \subseteq 1 .. PartCount BY <4>1, UploadGiven DEF Upload!PresignedParts
      <4>. QED BY <1>3, <3>2, <4>2
    <3>. QED BY <3>1, <3>2
  <2>6. run \in [step : Steps, from : {"none", "dropzone", "recovered"}, session : Sessions \union {0},
                 key : Nat, file : Files \union {None}, again : BOOLEAN]
    BY DEF UploadInv, RunInv, Steps
  <2>7. /\ run' \in [step : Steps, from : {"none", "dropzone", "recovered"}, session : Sessions \union {0},
                     key : Nat, file : Files \union {None}, again : BOOLEAN]
        /\ run'.step = step /\ run'.session = s /\ run'.from = run.from
        /\ run'.key = run.key /\ run'.file = run.file
    BY <2>5, <2>6 DEF Steps
  <2>8. RunInv'
    <3>1. Known(run.session)' BY <2>3, <2>7 DEF Known
    <3>2. Upload!RunsOwnSession' BY <2>3, <2>4, <2>7 DEF Upload!RunsOwnSession
    <3>. QED BY <1>0, <2>2, <2>4, <2>5, <2>7, <3>1, <3>2 DEF RunInv, Steps
  <2>9. TransferInv'
    <3>1. got = NoneStored /\ \A w \in Workers : ~Sending(w)
      BY <1>0 DEF UploadInv, TransferInv
    <3>2. \A w \in Workers : ~Sending(w)' BY <2>5, <3>1 DEF Sending
    <3>3. Upload!Held(got)' = {} /\ got' = NoneStored
      BY <2>5, <3>1, UploadGiven DEF Upload!Held, NoneStored
    <3>. QED BY <2>5, <2>7, <3>2, <3>3 DEF UploadInv, TransferInv
  <2>10. KeysInv'
    <3>1. RunNames' = RunNames BY <2>7 DEF RunNames
    <3>2. LateNames' = LateNames /\ FormNames' = FormNames BY <2>1 DEF LateNames, FormNames
    <3>3. Named' \subseteq Named BY <1>1, <2>3, <3>1, <3>2 DEF Named
    <3>. QED BY <2>1, <3>3, KeysKept DEF UploadInv
  <2>11. LateInv' BY <2>1, <2>3, LateKept DEF UploadInv
  <2>12. FormInv' BY <1>3, <2>1 DEF UploadInv, FormInv
  <2>13. ShownInv' /\ ReleaseInv' BY <2>1, <2>3, ShownKept, ReleaseKept DEF UploadInv
  <2>. QED BY <2>3, <2>8, <2>9, <2>10, <2>11, <2>12, <2>13 DEF UploadInv
<1>. QED BY <1>2, <1>3, LossKeeps DEF Upload!Initiate

\* Check: what the session holds is received, when it is all of it.
LEMMA CheckKeeps == ASSUME UploadInv, Upload!Check PROVE UploadInv'
<1>. DEFINE s == run.session
            now_ == Upload!Snapshot(s)
            ended == now_.status \in {"finalizing", "completed"}
            whole == Upload!Held(now_.parts) = Upload!Parts
<1>0. run.step = "check" /\ s # 0 /\ Known(s) /\ got = NoneStored /\ \A w \in Workers : ~Sending(w)
  BY DEF Upload!Check, UploadInv, RunInv, TransferInv
<1>1. CASE Upload!Fails("reselect") /\ UNCHANGED <<Upload!server, Upload!bounds>>
  <2>1. UNCHANGED <<row, keyOf, fileOf, stored, keys, canceled>>
    BY <1>1 DEF Upload!Fails, Upload!server, Upload!bounds
  <2>2. RowsInv' /\ RowsMove /\ RowNames' = RowNames BY <2>1, NothingMoves DEF UploadInv
  <2>. QED BY <1>1, <2>1, <2>2, FailsKeeps
<1>2. CASE /\ Upload!Continue(IF ended THEN "wait" ELSE IF whole THEN "complete" ELSE "identity")
           /\ got' = (IF whole THEN now_.parts ELSE got)
           /\ shown' = now_
           /\ UNCHANGED <<late, view, checking, Upload!dropzone, listed, workers, next, urls, skip, release, canceled>>
           /\ UNCHANGED <<Upload!server, Upload!bounds>>
  <2>1. UNCHANGED <<row, keyOf, fileOf, stored, keys, canceled, late, view, checking, file, key, session,
                    listed, workers, next, urls, skip, release>>
    BY <1>2 DEF Upload!server, Upload!bounds, Upload!dropzone
  <2>2. RowsInv' /\ RowsMove /\ RowNames' = RowNames BY <2>1, NothingMoves DEF UploadInv
  <2>3. PICK step \in {"wait", "complete", "identity"} : Upload!Continue(step) /\ (step = "identity" => ~whole)
    BY <1>2
  <2>4. /\ run' \in [step : Steps, from : {"none", "dropzone", "recovered"}, session : Sessions \union {0},
                     key : Nat, file : Files \union {None}, again : BOOLEAN]
        /\ run'.step = step /\ run'.from = run.from /\ run'.session = s
        /\ run'.key = run.key /\ run'.file = run.file /\ RunNames' = RunNames
    BY <2>3, Continues DEF UploadInv, Steps
  <2>5. RunInv'
    <3>1. Known(run.session)' BY <1>0, <2>1, <2>4 DEF Known
    <3>2. Upload!RunsOwnSession' BY <2>1, <2>4 DEF UploadInv, RunInv, Upload!RunsOwnSession
    <3>. QED BY <1>0, <2>4, <3>1, <3>2 DEF RunInv, Steps
  <2>6. whole => row[s] \in Upload!Active /\ now_.parts = stored[s]
    <3>1. CASE row[s] \in Upload!Active BY <3>1 DEF Upload!Snapshot
    <3>2. CASE row[s] \notin Upload!Active
      <4>1. now_.parts = NoneStored BY <3>2, UploadGiven DEF Upload!Snapshot
      <4>2. Upload!Held(now_.parts) = {} BY <4>1, UploadGiven DEF Upload!Held, NoneStored
      <4>3. 1 \in Upload!Parts BY UploadGiven
      <4>. QED BY <4>2, <4>3
    <3>. QED BY <3>1, <3>2
  <2>7. TransferInv'
    <3>1. got' \in [1 .. PartCount -> Files \union {None}]
      BY <1>0, <1>2, <2>6 DEF UploadInv, RowsInv, TransferInv, Known
    <3>2. \A w \in Workers : ~Sending(w)' BY <1>0, <2>1 DEF Sending
    <3>3. run'.step = "identity" => got' = NoneStored BY <1>0, <1>2, <2>3, <2>4
    <3>4. \A p \in Upload!Held(got)' : stored'[s][p] = got'[p]
      <4>1. CASE whole BY <1>2, <2>1, <2>6, <4>1
      <4>2. CASE ~whole
        <5>1. got' = NoneStored BY <1>0, <1>2, <4>2
        <5>. QED BY <5>1, UploadGiven DEF Upload!Held, NoneStored
      <4>. QED BY <4>1, <4>2
    <3>. QED BY <2>1, <2>4, <3>1, <3>2, <3>3, <3>4 DEF UploadInv, TransferInv
  <2>8. KeysInv'
    <3>1. LateNames' = LateNames /\ FormNames' = FormNames BY <2>1 DEF LateNames, FormNames
    <3>2. Named' \subseteq Named BY <2>2, <2>4, <3>1 DEF Named
    <3>. QED BY <2>1, <3>2, KeysKept DEF UploadInv
  <2>9. LateInv' BY <2>1, <2>2, LateKept DEF UploadInv
  <2>10. FormInv' BY <2>1, FormKept DEF UploadInv
  <2>11. ReleaseInv' BY <2>1, ReleaseKept DEF UploadInv
  <2>12. ShownInv'
    <3>1. shown'.s = s BY <1>2 DEF Upload!Snapshot
    <3>. QED BY <1>0, <2>1, <3>1 DEF UploadInv, ShownInv, Known
  <2>. QED BY <2>2, <2>5, <2>7, <2>8, <2>9, <2>10, <2>11, <2>12 DEF UploadInv
<1>. QED BY <1>1, <1>2, LossKeeps DEF Upload!Check

LEMMA CompleteKeeps == ASSUME UploadInv, Upload!Complete PROVE UploadInv'
<1>0. run.step = "complete" /\ run.session # 0 /\ \A w \in Workers : ~Sending(w)
  BY DEF Upload!Complete, UploadInv, RunInv, TransferInv
<1>1. CASE Upload!CompleteAt(run.session, got) /\ UNCHANGED Upload!bounds
           /\ Upload!Continue("wait") /\ UNCHANGED <<Upload!transfer, late, Upload!page, release, canceled>>
  <2>1. UNCHANGED <<late, view, checking, file, key, session, listed, shown, release, canceled, keys,
                    workers, next, urls, got, skip>>
    BY <1>1 DEF Upload!transfer, Upload!page, Upload!dropzone, Upload!bounds
  <2>2. RowsInv' /\ RowsMove /\ RowNames' = RowNames BY <1>1, <2>1, CompleteMoves DEF UploadInv
  <2>3. RunInv' /\ TransferInv' /\ RunNames' = RunNames
    BY <1>0, <1>1, <2>1, <2>2, MovesOn DEF UploadInv
  <2>. QED BY <2>1, <2>2, <2>3, PageKept DEF UploadInv
<1>2. CASE Upload!CompleteAt(run.session, got) /\ UNCHANGED Upload!bounds /\ Upload!Fails("conflict")
  <2>1. keys' = keys /\ canceled' = canceled BY <1>2 DEF Upload!bounds, Upload!Fails
  <2>2. RowsInv' /\ RowsMove /\ RowNames' = RowNames BY <1>2, <2>1, CompleteMoves DEF UploadInv
  <2>. QED BY <1>2, <2>1, <2>2, FailsKeeps
<1>. QED BY <1>1, <1>2, LossKeeps DEF Upload!Complete

LEMMA WaitKeeps == ASSUME UploadInv, Upload!Wait PROVE UploadInv'
<1>0. Known(run.session) /\ row \in [Sessions -> Statuses]
  BY DEF Upload!Wait, UploadInv, RunInv, RowsInv
<1>1. ASSUME NEW d, Upload!Succeeds(d), UNCHANGED <<Upload!server, Upload!bounds>> PROVE UploadInv'
  <2>1. /\ UNCHANGED <<row, keyOf, fileOf, stored, keys, late, checking, file, key, listed, shown, release, canceled>>
        /\ run' = Upload!NoRun /\ Upload!NoTransfer /\ view' \in {"dropzone", "done"}
        /\ session' \in {0, session}
    BY <1>1 DEF Upload!Succeeds, Upload!server, Upload!bounds
  <2>2. RowsInv' /\ RowsMove /\ RowNames' = RowNames BY <2>1, NothingMoves DEF UploadInv
  <2>3. RunInv' /\ TransferInv' /\ RunNames' = {} BY <2>1, IdleRun
  <2>4. KeysInv'
    <3>1. LateNames' = LateNames /\ FormNames' = FormNames BY <2>1 DEF LateNames, FormNames
    <3>2. Named' \subseteq Named BY <2>2, <2>3, <3>1 DEF Named
    <3>. QED BY <2>1, <3>2, KeysKept DEF UploadInv
  <2>5. LateInv' BY <2>1, <2>2, LateKept DEF UploadInv
  <2>6. FormInv' BY <2>1 DEF UploadInv, FormInv
  <2>7. ShownInv' BY <2>1 DEF UploadInv, ShownInv, Known
  <2>8. ReleaseInv' BY <2>1, ReleaseKept DEF UploadInv
  <2>. QED BY <2>2, <2>3, <2>4, <2>5, <2>6, <2>7, <2>8 DEF UploadInv
<1>2. CASE /\ Upload!StatusResponse(run.session).status \in {"failed", "aborted", "expired"}
           /\ row' = [row EXCEPT ![run.session] = Upload!StatusResponse(run.session).status]
           /\ Upload!Fails("terminal") /\ UNCHANGED <<due, keyOf, fileOf, againOf, stored, Upload!bounds>>
  <2>. DEFINE x == Upload!StatusResponse(run.session).status
  <2>1. x = IF Upload!Expired(run.session) THEN "expired" ELSE row[run.session]
    BY DEF Upload!StatusResponse
  <2>2. keys' = keys /\ canceled' = canceled /\ UNCHANGED <<keyOf, fileOf, stored>>
    BY <1>2 DEF Upload!bounds, Upload!Fails
  <2>3. x \in {"failed", "aborted", "expired"} /\ (x = "aborted" => row[run.session] = "aborted")
    BY <1>2, <2>1
  <2>4. row' = [row EXCEPT ![run.session] = x] BY <1>2
  <2>. HIDE DEF x
  <2>5. row' \in [Sessions -> Statuses] BY <1>0, <2>3, <2>4 DEF Statuses
  <2>6. RowsInv' /\ RowsMove /\ RowNames' = RowNames
    BY <1>0, <2>2, <2>3, <2>4, <2>5, StatusMoves DEF UploadInv, Known, Upload!Active
  <2>. QED BY <1>2, <2>2, <2>6, FailsKeeps
<1>. QED BY <1>1, <1>2, LossKeeps DEF Upload!Wait

-----------------------------------------------------------------------------
(* uploadParts: each worker takes the next part that was not received.      *)

Works == [Workers -> [part : 0 .. PartCount, attempt : Nat, step : {"idle", "url", "put", "done"}]]

LEMMA Attempts ==
    ASSUME workers \in Works, NEW w \in Workers, NEW p \in 1 .. PartCount, NEW n \in Nat, Upload!Attempt(w, p, n)
    PROVE  /\ workers' \in Works /\ workers'[w].part = p /\ Sending(w)'
           /\ \A v \in Workers : v # w => workers'[v] = workers[v]
<1>1. PICK step \in {"url", "put"} :
         workers' = [workers EXCEPT ![w] = [part |-> p, attempt |-> n, step |-> step]]
  BY DEF Upload!Attempt
<1>2. p \in 0 .. PartCount BY UploadGiven
<1>3. [part |-> p, attempt |-> n, step |-> step]
         \in [part : 0 .. PartCount, attempt : Nat, step : {"idle", "url", "put", "done"}]
  BY <1>2
<1>4. workers' \in Works BY <1>1, <1>3 DEF Works
<1>5. workers'[w] = [part |-> p, attempt |-> n, step |-> step] BY <1>1 DEF Works
<1>6. \A v \in Workers : v # w => workers'[v] = workers[v] BY <1>1 DEF Works
<1>. QED BY <1>4, <1>5, <1>6 DEF Sending

LEMMA Worked ==
    ASSUME workers \in Works, NEW w \in Workers, NEW step \in {"idle", "url", "put", "done"},
           Upload!Worker(w, step)
    PROVE  /\ workers' \in Works /\ workers'[w].part = workers[w].part /\ workers'[w].step = step
           /\ \A v \in Workers : v # w => workers'[v] = workers[v]
<1>1. workers' = [workers EXCEPT ![w].step = step] BY DEF Upload!Worker
<1>. QED BY <1>1 DEF Works

LEMMA Below == ASSUME NEW m \in Nat, NEW n \in Nat, m <= n, NEW q \in 1 .. m - 1 PROVE q \in 1 .. n - 1
OBVIOUS

\* A step of one worker that receives nothing: the part it sends, if any, is
\* nobody else's.
LEMMA WorkerMoves ==
    ASSUME TransferInv, RunInv, RowsMove, run.step = "transfer", run' = run, NEW w \in Workers,
           workers' \in Works, \A v \in Workers : v # w => workers'[v] = workers[v],
           Sending(w)' => /\ workers'[w].part \in 1 .. next' - 1
                          /\ workers'[w].part \notin Upload!Held(got)
                          /\ \A v \in Workers : v # w /\ Sending(v) => workers[v].part # workers'[w].part,
           next' \in next .. PartCount + 1, urls' \subseteq 1 .. PartCount, got' = got, skip' = skip
    PROVE  RunInv' /\ TransferInv' /\ RunNames' = RunNames
<1>1. RunInv' /\ RunNames' = RunNames BY RunKept DEF RunNames
<1>2. next \in 1 .. PartCount + 1 /\ next' \in 1 .. PartCount + 1 /\ PartCount \in Nat
  BY UploadGiven DEF TransferInv
<1>3. ASSUME NEW q \in 1 .. next - 1 PROVE q \in 1 .. next' - 1
  <2>1. next <= next' /\ next \in Nat /\ next' \in Nat BY <1>2
  <2>. QED BY <2>1, Below
<1>4. Upload!Held(got)' = Upload!Held(got) /\ Upload!Held(got') = Upload!Held(got)
  BY DEF Upload!Held
<1>5. \A v \in Workers : v # w => (Sending(v)' <=> Sending(v)) BY DEF Sending
<1>6. \A v \in Workers : Sending(v)' =>
         workers'[v].part \in 1 .. next' - 1 /\ workers'[v].part \notin Upload!Held(got)
  BY <1>3, <1>5 DEF TransferInv
<1>7. \A u, v \in Workers : Sending(u)' /\ Sending(v)' /\ u # v => workers'[u].part # workers'[v].part
  BY <1>5 DEF TransferInv
<1>8. Upload!Held(got) \subseteq skip \union (1 .. next' - 1) BY <1>3 DEF TransferInv
<1>9. run'.session # 0 /\ row'[run'.session] \in Upload!Active =>
         \A p \in Upload!Held(got') : stored'[run'.session][p] = got'[p]
  BY ReceiptsKept
<1>. QED BY <1>1, <1>2, <1>4, <1>6, <1>7, <1>8, <1>9 DEF TransferInv, Works, Upload!Active

LEMMA Unmoved ==
    ASSUME RowsInv, UNCHANGED <<Upload!server, canceled>>
    PROVE  RowsInv' /\ RowsMove /\ RowNames' = RowNames /\ UNCHANGED <<row, keyOf, fileOf, stored>>
<1>1. UNCHANGED <<row, keyOf, fileOf, stored>> BY DEF Upload!server
<1>. QED BY <1>1, NothingMoves

LEMMA LocalKept ==
    ASSUME UNCHANGED Upload!Local
    PROVE  UNCHANGED <<late, view, checking, file, key, session, listed, shown, release, canceled, keys>>
BY DEF Upload!Local, Upload!page, Upload!dropzone, Upload!bounds

LEMMA TakeKeeps == ASSUME UploadInv, NEW w \in Workers, Upload!Take(w) PROVE UploadInv'
<1>1. /\ run.step = "transfer" /\ workers[w].step = "idle" /\ run' = run
      /\ UNCHANGED <<Upload!server, urls, got, skip>>
      /\ UNCHANGED <<late, view, checking, file, key, session, listed, shown, release, canceled, keys>>
  BY LocalKept DEF Upload!Take
<1>2. RowsInv' /\ RowsMove /\ RowNames' = RowNames BY <1>1, Unmoved DEF UploadInv
<1>3. /\ workers \in Works /\ next \in 1 .. PartCount + 1 /\ PartCount \in Nat /\ urls' \subseteq 1 .. PartCount
      /\ Upload!Held(got) \subseteq skip \union (1 .. next - 1)
      /\ \A v \in Workers : Sending(v) => workers[v].part \in 1 .. next - 1
  BY <1>1, UploadGiven DEF UploadInv, TransferInv, Works
<1>4. RunInv' /\ TransferInv' /\ RunNames' = RunNames
  <2>1. CASE Upload!Ahead = {}
    <3>1. Upload!Worker(w, "done") /\ next' = PartCount + 1 BY <2>1 DEF Upload!Take
    <3>2. next' \in next .. PartCount + 1 BY <1>3, <3>1
    <3>3. /\ workers' \in Works /\ workers'[w].step = "done"
          /\ \A v \in Workers : v # w => workers'[v] = workers[v]
      BY <1>3, <3>1, Worked
    <3>4. ~Sending(w)' BY <3>3 DEF Sending
    <3>. QED BY <1>1, <1>2, <1>3, <3>2, <3>3, <3>4, WorkerMoves DEF UploadInv
  <2>2. CASE Upload!Ahead # {}
    <3>. DEFINE p == Upload!Min(Upload!Ahead)
    <3>1. Upload!Attempt(w, p, 1) /\ next' = p + 1 BY <2>2 DEF Upload!Take
    <3>2. p \in Upload!Ahead
      <4>1. Upload!Ahead \in SUBSET Nat /\ IsFiniteSet(Upload!Ahead)
        <5>1. Upload!Ahead \subseteq 1 .. PartCount BY UploadGiven DEF Upload!Ahead
        <5>2. IsFiniteSet(1 .. PartCount) BY <1>3, FS_Interval
        <5>3. Upload!Ahead \in SUBSET (1 .. PartCount) BY <5>1
        <5>4. Upload!Ahead \in SUBSET Nat BY <5>1
        <5>. QED BY <5>2, <5>3, <5>4, FS_Subset
      <4>2. \E q \in Upload!Ahead : \A r \in Upload!Ahead : q <= r BY <2>2, <4>1, ExtremesExist
      <4>. QED BY <4>2 DEF Upload!Min
    <3>3. p \in 1 .. PartCount /\ p >= next /\ p \notin skip BY <3>2, UploadGiven DEF Upload!Ahead
    <3>. HIDE DEF p
    <3>4. /\ workers' \in Works /\ workers'[w].part = p
          /\ \A v \in Workers : v # w => workers'[v] = workers[v]
      BY <1>3, <3>1, <3>3, Attempts
    <3>5. next' \in next .. PartCount + 1 /\ p \in 1 .. next' - 1 /\ p \notin 1 .. next - 1
      BY <1>3, <3>1, <3>3
    <3>6. p \notin Upload!Held(got) BY <1>3, <3>3, <3>5
    <3>7. \A v \in Workers : v # w /\ Sending(v) => workers[v].part # p BY <1>3, <3>5
    <3>. QED BY <1>1, <1>2, <1>3, <3>4, <3>5, <3>6, <3>7, WorkerMoves DEF UploadInv
  <2>. QED BY <2>1, <2>2
<1>. QED BY <1>1, <1>2, <1>4, PageKept DEF UploadInv

\* Another attempt sends the same part.
LEMMA AgainKeeps ==
    ASSUME UploadInv, RowsInv', RowsMove, RowNames' = RowNames, keys' = keys, run.step = "transfer",
           NEW w \in Workers, Sending(w), Upload!Again(w),
           \A r \in late' \ late : Servable(r) /\ r.op # "initiate"
    PROVE  UploadInv'
<1>1. /\ Upload!Attempt(w, workers[w].part, workers[w].attempt + 1)
      /\ UNCHANGED <<run, next, urls, got, skip, release, canceled>>
      /\ UNCHANGED <<view, checking, file, key, session, listed, shown>>
  BY DEF Upload!Again, Upload!page, Upload!dropzone
<1>2. /\ workers \in Works /\ next \in 1 .. PartCount + 1 /\ PartCount \in Nat /\ urls' \subseteq 1 .. PartCount
      /\ workers[w].part \in 1 .. next - 1 /\ workers[w].part \notin Upload!Held(got)
      /\ \A v \in Workers : v # w /\ Sending(v) => workers[v].part # workers[w].part
  BY <1>1, UploadGiven DEF UploadInv, TransferInv, Works
<1>3. workers[w].part \in 1 .. PartCount /\ workers[w].attempt + 1 \in Nat /\ next' \in next .. PartCount + 1
  BY <1>1, <1>2 DEF Works
<1>4. /\ workers' \in Works /\ workers'[w].part = workers[w].part
      /\ \A v \in Workers : v # w => workers'[v] = workers[v]
  BY <1>1, <1>2, <1>3, Attempts
<1>5. RunInv' /\ TransferInv' /\ RunNames' = RunNames
  BY <1>1, <1>2, <1>3, <1>4, WorkerMoves DEF UploadInv
<1>. QED BY <1>1, <1>5, PageKept DEF UploadInv

LEMMA RefusedKeeps ==
    ASSUME UploadInv, RowsInv', RowsMove, RowNames' = RowNames, keys' = keys, run.step = "transfer",
           NEW w \in Workers, Sending(w), NEW kind, Upload!Refused(w, kind)
    PROVE  UploadInv'
<1>1. CASE Upload!Again(w) /\ UNCHANGED late BY <1>1, AgainKeeps
<1>2. CASE Upload!Fails(kind) BY <1>2, FailsKeeps
<1>. QED BY <1>1, <1>2 DEF Upload!Refused

LEMMA Uncanceled ==
    ASSUME NEW w, NEW kind, Upload!Again(w) \/ Upload!Refused(w, kind) \/ Upload!Fails(kind)
    PROVE  canceled' = canceled
BY DEF Upload!Again, Upload!Refused, Upload!Fails

\* An attempt that fails is made again, or fails the transfer.
LEMMA FaultKeeps ==
    ASSUME UploadInv, NEW w \in Workers, Sending(w), run.step = "transfer", Upload!Fault, NEW kind, NEW other,
           Upload!Refused(w, kind) \/ Upload!Fails(other)
    PROVE  UploadInv'
<1>1. UNCHANGED <<Upload!server, keys, canceled>> BY Uncanceled DEF Upload!Fault
<1>2. RowsInv' /\ RowsMove /\ RowNames' = RowNames BY <1>1, Unmoved DEF UploadInv
<1>. QED BY <1>1, <1>2, RefusedKeeps, FailsKeeps

LEMMA RefreshPartUrlKeeps == ASSUME UploadInv, NEW w \in Workers, Upload!RefreshPartUrl(w) PROVE UploadInv'
<1>0. run.step = "transfer" /\ workers[w].step = "url" /\ Sending(w)
  BY DEF Upload!RefreshPartUrl, Sending
<1>1. CASE /\ Upload!SignAt(run.session)
           /\ urls' = urls \union {workers[w].part} /\ Upload!Worker(w, "put")
           /\ UNCHANGED <<run, next, got, skip, Upload!Local>>
  <2>1. UNCHANGED <<late, view, checking, file, key, session, listed, shown, release, canceled, keys>>
    BY <1>1, LocalKept
  <2>2. RowsInv' /\ RowsMove /\ RowNames' = RowNames BY <1>1, <2>1, SignMoves DEF UploadInv
  <2>3. /\ workers \in Works /\ next \in 1 .. PartCount + 1 /\ PartCount \in Nat /\ urls \subseteq 1 .. PartCount
        /\ workers[w].part \in 1 .. next - 1 /\ workers[w].part \notin Upload!Held(got)
        /\ \A v \in Workers : v # w /\ Sending(v) => workers[v].part # workers[w].part
    BY <1>0, UploadGiven DEF UploadInv, TransferInv, Works
  <2>4. workers[w].part \in 1 .. PartCount /\ next \in next .. PartCount + 1 BY <2>3
  <2>5. /\ workers' \in Works /\ workers'[w].part = workers[w].part
        /\ \A v \in Workers : v # w => workers'[v] = workers[v]
    BY <1>1, <2>3, Worked
  <2>6. next' = next /\ run' = run /\ got' = got /\ skip' = skip /\ urls' \subseteq 1 .. PartCount
    BY <1>1, <2>3, <2>4
  <2>7. RunInv' /\ TransferInv' /\ RunNames' = RunNames
    BY <1>0, <2>2, <2>3, <2>4, <2>5, <2>6, WorkerMoves DEF UploadInv
  <2>. QED BY <2>1, <2>2, <2>7, PageKept DEF UploadInv
<1>2. CASE Upload!SignAt(run.session) /\ Upload!Refused(w, "conflict") /\ UNCHANGED Upload!bounds
  <2>1. canceled' = canceled /\ keys' = keys BY <1>2, Uncanceled DEF Upload!bounds
  <2>2. RowsInv' /\ RowsMove /\ RowNames' = RowNames BY <1>2, <2>1, SignMoves DEF UploadInv
  <2>. QED BY <1>0, <1>2, <2>1, <2>2, RefusedKeeps
<1>3. CASE Upload!Fault /\ (Upload!Refused(w, "network") \/ Upload!Fails("unauthorized"))
  BY <1>0, <1>3, FaultKeeps
<1>. QED BY <1>1, <1>2, <1>3 DEF Upload!RefreshPartUrl

\* uploadPart: a receipt is of the part just stored, which nobody else sends.
LEMMA UploadPartKeeps == ASSUME UploadInv, NEW w \in Workers, Upload!UploadPart(w) PROVE UploadInv'
<1>. DEFINE s == run.session
            q == workers[w].part
<1>0. /\ run.step = "transfer" /\ Sending(w) /\ s # 0 /\ Known(s) /\ run.file = fileOf[s]
      /\ workers \in Works /\ PartCount \in Nat /\ next \in 1 .. PartCount + 1
      /\ q \in 1 .. next - 1 /\ q \notin Upload!Held(got)
      /\ \A v \in Workers : v # w /\ Sending(v) => workers[v].part # q
  BY UploadGiven DEF Upload!UploadPart, Sending, UploadInv, RunInv, TransferInv, Works
<1>1. CASE /\ row[s] \in Upload!Active /\ Upload!PutAt(s, q, run.file)
           /\ got' = [got EXCEPT ![q] = run.file] /\ Upload!Worker(w, "idle")
           /\ UNCHANGED <<run, next, urls, skip, Upload!Local>>
  <2>1. UNCHANGED <<late, view, checking, file, key, session, listed, shown, release, canceled, keys>>
    BY <1>1, LocalKept
  <2>2. RowsInv' /\ RowsMove /\ RowNames' = RowNames BY <1>0, <1>1, <2>1, PutMoves DEF UploadInv
  <2>3. /\ stored' = [stored EXCEPT ![s][q] = run.file] /\ row' = row
        /\ UNCHANGED <<run, next, urls, skip>>
    BY <1>1 DEF Upload!PutAt
  <2>4. q \in 1 .. PartCount BY <1>0
  <2>5. /\ got \in [1 .. PartCount -> Files \union {None}] /\ run.file \in Files \union {None}
        /\ stored \in [Sessions -> [1 .. PartCount -> Files \union {None}]] /\ s \in Sessions
    BY <1>0 DEF UploadInv, TransferInv, RunInv, RowsInv, Known
  <2>6. /\ got' \in [1 .. PartCount -> Files \union {None}]
        /\ \A p \in 1 .. PartCount : got'[p] = IF p = q THEN run.file ELSE got[p]
    BY <1>1, <2>4, <2>5
  <2>7. \A p \in 1 .. PartCount : stored'[s][p] = IF p = q THEN run.file ELSE stored[s][p]
    BY <2>3, <2>4, <2>5
  <2>8. /\ workers' \in Works /\ workers'[w].step = "idle"
        /\ \A v \in Workers : v # w => workers'[v] = workers[v]
    BY <1>0, <1>1, Worked
  <2>9. \A v \in Workers : Sending(v)' => v # w /\ Sending(v) /\ workers'[v] = workers[v]
    BY <2>8 DEF Sending
  <2>10. Upload!Held(got') \subseteq Upload!Held(got) \union {q}
    BY <2>6, UploadGiven DEF Upload!Held
  <2>11. \A p \in Upload!Held(got') : stored'[s][p] = got'[p]
    <3>1. \A p \in Upload!Held(got) : p \in 1 .. PartCount /\ stored[s][p] = got[p]
      BY <1>0, <1>1, UploadGiven DEF UploadInv, TransferInv, Upload!Held
    <3>. QED BY <2>4, <2>6, <2>7, <2>10, <3>1
  <2>12. Upload!Held(got)' = Upload!Held(got') BY DEF Upload!Held
  <2>13. Upload!Held(got') \subseteq skip \union (1 .. next - 1)
    BY <1>0, <2>10 DEF UploadInv, TransferInv
  <2>14. \A v \in Workers : Sending(v)' =>
            workers'[v].part \in 1 .. next - 1 /\ workers'[v].part \notin Upload!Held(got')
    BY <1>0, <2>9, <2>10 DEF UploadInv, TransferInv
  <2>15. \A u, v \in Workers : Sending(u)' /\ Sending(v)' /\ u # v => workers'[u].part # workers'[v].part
    BY <2>9 DEF UploadInv, TransferInv
  <2>16. TransferInv'
    BY <1>0, <2>3, <2>6, <2>8, <2>11, <2>12, <2>13, <2>14, <2>15 DEF UploadInv, TransferInv, Works
  <2>17. RunInv' /\ RunNames' = RunNames BY <2>2, <2>3, RunKept DEF UploadInv, RunNames
  <2>. QED BY <2>1, <2>2, <2>16, <2>17, PageKept DEF UploadInv
<1>2. CASE Upload!Refused(w, "refused") /\ UNCHANGED <<Upload!server, Upload!bounds>>
  <2>1. UNCHANGED <<Upload!server, canceled, keys>> BY <1>2, Uncanceled DEF Upload!bounds
  <2>2. RowsInv' /\ RowsMove /\ RowNames' = RowNames BY <2>1, Unmoved DEF UploadInv
  <2>. QED BY <1>0, <1>2, <2>1, <2>2, RefusedKeeps
<1>3. CASE Upload!Fault /\ Upload!Again(w) /\ late' = late \union {Upload!Put(w)}
  <2>1. UNCHANGED <<Upload!server, canceled, keys>> BY <1>3, Uncanceled DEF Upload!Fault
  <2>2. RowsInv' /\ RowsMove /\ RowNames' = RowNames BY <2>1, Unmoved DEF UploadInv
  <2>3. /\ Upload!Put(w).op = "put" /\ Upload!Put(w).session = s /\ Upload!Put(w).file = run.file
    BY DEF Upload!Put, Upload!Request
  <2>4. Servable(Upload!Put(w)) BY <1>0, <2>3 DEF Servable
  <2>5. \A r \in late' \ late : Servable(r) /\ r.op # "initiate" BY <1>3, <2>3, <2>4
  <2>. QED BY <1>0, <1>3, <2>1, <2>2, <2>5, AgainKeeps
<1>4. CASE Upload!Fault /\ Upload!Fails("network") BY <1>0, <1>4, FaultKeeps
<1>. QED BY <1>1, <1>2, <1>3, <1>4 DEF Upload!UploadPart

LEMMA TransferredKeeps == ASSUME UploadInv, Upload!Transferred PROVE UploadInv'
<1>1. /\ run.step = "transfer" /\ Upload!Continue("complete")
      /\ UNCHANGED <<Upload!server, workers, next, urls, got, skip>>
      /\ UNCHANGED <<late, view, checking, file, key, session, listed, shown, release, canceled, keys>>
      /\ \A w \in Workers : ~Sending(w)
  BY LocalKept DEF Upload!Transferred, Upload!transfer, Sending
<1>2. RowsInv' /\ RowsMove /\ RowNames' = RowNames BY <1>1, Unmoved DEF UploadInv
<1>3. run.session # 0 BY <1>1 DEF UploadInv, RunInv
<1>4. RunInv' /\ TransferInv' /\ RunNames' = RunNames BY <1>1, <1>2, <1>3, MovesOn DEF UploadInv
<1>. QED BY <1>1, <1>2, <1>4, PageKept DEF UploadInv

-----------------------------------------------------------------------------
(* The server.                                                              *)

LEMMA ServerKeeps ==
    ASSUME UploadInv, RowsInv', RowsMove, RowNames' \subseteq RowNames \union LateNames,
           late' \subseteq late, keys' = keys, UNCHANGED Upload!Client
    PROVE  UploadInv'
<1>1. UNCHANGED <<run, workers, next, urls, got, skip, view, checking, file, key, session, listed, shown,
                  release, canceled>>
  BY DEF Upload!Client, Upload!page, Upload!dropzone, Upload!transfer
<1>2. RunInv' /\ TransferInv' BY <1>1, RunKept, TransferKept DEF UploadInv
<1>3. RunNames' = RunNames BY <1>1 DEF RunNames
<1>4. \A r \in late' \ late : Servable(r) /\ r.op # "initiate" OBVIOUS
<1>5. RowNames' \subseteq RowNames \union RunNames \union LateNames OBVIOUS
<1>. QED BY <1>1, <1>2, <1>3, <1>4, <1>5, PageKept DEF UploadInv

LEMMA LapseKeeps ==
    ASSUME UploadInv, NEW s \in Sessions, Upload!Lapse(s) \/ Upload!Verified(s) \/ Upload!VerificationFails(s)
    PROVE  UploadInv'
<1>1. /\ UNCHANGED <<keyOf, fileOf, stored, late, keys, Upload!Client>>
      /\ \/ row' = row
         \/ row[s] = "finalizing" /\ \E x \in {"completed", "failed"} : row' = [row EXCEPT ![s] = x]
  <2>1. CASE Upload!Lapse(s)
    <3>1. UNCHANGED <<row, keyOf, fileOf, stored, late, keys, Upload!Client>> BY <2>1 DEF Upload!Lapse
    <3>. QED BY <3>1
  <2>2. CASE Upload!Verified(s)
    <3>1. row' = [row EXCEPT ![s] = "completed"] \/ row' = [row EXCEPT ![s] = "failed"]
      BY <2>2 DEF Upload!Verified
    <3>. QED BY <2>2, <3>1 DEF Upload!Verified, Upload!bounds
  <2>3. CASE Upload!VerificationFails(s) BY <2>3 DEF Upload!VerificationFails
  <2>. QED BY <2>1, <2>2, <2>3
<1>2. canceled' = canceled BY <1>1 DEF Upload!Client
<1>3. row \in [Sessions -> Statuses] BY DEF UploadInv, RowsInv
<1>4. RowsInv' /\ RowsMove /\ RowNames' = RowNames
  <2>1. CASE row' = row BY <1>1, <1>2, <2>1, NothingMoves DEF UploadInv
  <2>2. ASSUME NEW x \in {"completed", "failed"}, row[s] = "finalizing", row' = [row EXCEPT ![s] = x]
        PROVE  RowsInv' /\ RowsMove /\ RowNames' = RowNames
    <3>1. row' \in [Sessions -> Statuses] BY <1>3, <2>2 DEF Statuses
    <3>. QED BY <1>1, <1>2, <1>3, <2>2, <3>1, StatusMoves DEF UploadInv, Upload!Active
  <2>. QED BY <1>1, <2>1, <2>2
<1>. QED BY <1>1, <1>4, ServerKeeps

\* A request that nobody waits for is served.
LEMMA LandKeeps == ASSUME UploadInv, Upload!Land PROVE UploadInv'
<1>1. PICK r \in late :
         /\ late' = late \ {r} /\ UNCHANGED <<Upload!Client, Upload!bounds>>
         /\ \/ UNCHANGED Upload!server
            \/ r.op = "initiate" /\ \E s \in Sessions \union {0} : Upload!InitiateAt(r.key, r.file, r.again, s)
            \/ r.op = "put" /\ Upload!PutAt(r.session, r.part, r.file)
            \/ r.op = "complete" /\ Upload!CompleteAt(r.session, r.receipts)
            \/ r.op = "delete" /\ Upload!AbortAt(r.session)
  BY DEF Upload!Land
<1>2. canceled' = canceled /\ keys' = keys /\ late' \subseteq late /\ UNCHANGED Upload!Client
  BY <1>1 DEF Upload!Client, Upload!bounds
<1>3. Servable(r) BY DEF UploadInv, LateInv
<1>4. RowsInv' /\ RowsMove /\ RowNames' \subseteq RowNames \union LateNames
  <2>1. CASE UNCHANGED Upload!server BY <1>2, <2>1, Unmoved DEF UploadInv
  <2>2. ASSUME r.op = "initiate", NEW s \in Sessions \union {0}, Upload!InitiateAt(r.key, r.file, r.again, s)
        PROVE  RowsInv' /\ RowsMove /\ RowNames' \subseteq RowNames \union LateNames
    <3>1. <<r.key, r.file>> \in LateNames /\ <<r.key, r.file>> \in Named
      BY <2>2 DEF LateNames, Named
    <3>2. <<r.key, r.file>>[1] \in 1 .. keys /\ keys \in Nat BY <3>1 DEF UploadInv, KeysInv
    <3>3. r.key \in Nat \ {0} /\ r.file \in Files \union {None} BY <1>3, <2>2, <3>2 DEF Servable
    <3>4. RowsInv' /\ RowsMove /\ RowNames' \subseteq RowNames \union {<<r.key, r.file>>}
      BY <1>2, <2>2, <3>3, InitiateMoves DEF UploadInv
    <3>. QED BY <3>1, <3>4
  <2>3. CASE r.op = "put" /\ Upload!PutAt(r.session, r.part, r.file)
    BY <1>2, <1>3, <2>3, PutMoves DEF UploadInv, Servable
  <2>4. CASE r.op = "complete" /\ Upload!CompleteAt(r.session, r.receipts)
    BY <1>2, <2>4, CompleteMoves DEF UploadInv
  <2>5. CASE r.op = "delete" /\ Upload!AbortAt(r.session)
    <3>1. r.session \in canceled' BY <1>2, <1>3, <2>5 DEF Servable
    <3>. QED BY <1>2, <2>5, <3>1, AbortMoves DEF UploadInv
  <2>. QED BY <1>1, <2>1, <2>2, <2>3, <2>4, <2>5
<1>. QED BY <1>2, <1>4, ServerKeeps

-----------------------------------------------------------------------------
(* The page.  A run belongs to the view that started it.                    *)

PlaceInv ==
    /\ run.from = "none" => run.step = "idle"
    /\ run.from # "none" => view = run.from

LEMMA Placed ==
    ASSUME PlaceInv, \/ run' = Upload!NoRun
                     \/ run'.from = run.from /\ run.from # "none" /\ view' = view
                     \/ run' = run /\ (view' = view \/ run.from = "none")
                     \/ run'.from # "none" /\ view' = run'.from
    PROVE  PlaceInv'
BY DEF PlaceInv, Upload!NoRun

LEMMA Continued ==
    ASSUME RunInv, PlaceInv, NEW step \in Steps, run.step # "idle", Upload!Continue(step), view' = view
    PROVE  PlaceInv'
<1>1. run'.from = run.from BY Continues
<1>. QED BY <1>1, Placed DEF PlaceInv

\* Where nothing runs, nothing is received or sent.
LEMMA NothingRuns ==
    ASSUME UploadInv, run.step = "idle"
    PROVE  /\ got = NoneStored /\ \A w \in Workers : ~Sending(w)
           /\ Upload!Held(got) = {}
<1>1. got = NoneStored /\ \A w \in Workers : ~Sending(w) BY DEF UploadInv, TransferInv
<1>. QED BY <1>1, UploadGiven DEF Upload!Held, NoneStored

\* Names that are already known, or one of a fresh key.
LEMMA NamesKept ==
    ASSUME UploadInv, RowNames' \subseteq RowNames, LateNames' \subseteq LateNames \union RunNames,
           \/ /\ keys' = keys
              /\ RunNames' \union FormNames' \subseteq RunNames \union FormNames
           \/ /\ keys' = keys + 1
              /\ \E f : RunNames' \union FormNames' \subseteq RunNames \union FormNames \union {<<keys + 1, f>>}
    PROVE  KeysInv'
<1>1. ASSUME keys' = keys, RunNames' \union FormNames' \subseteq RunNames \union FormNames PROVE KeysInv'
  <2>1. Named' \subseteq Named BY <1>1 DEF Named
  <2>. QED BY <1>1, <2>1, KeysKept DEF UploadInv
<1>2. ASSUME keys' = keys + 1, NEW f,
             RunNames' \union FormNames' \subseteq RunNames \union FormNames \union {<<keys + 1, f>>}
      PROVE  KeysInv'
  <2>1. Named' \subseteq Named \union {<<keys + 1, f>>} BY <1>2 DEF Named
  <2>. QED BY <1>2, <2>1, KeysFresh DEF UploadInv
<1>. QED BY <1>1, <1>2

LEMMA StayKeeps ==
    ASSUME UploadInv, UNCHANGED <<Upload!server, canceled, keys>>, Upload!Stay \/ Upload!Unmount
    PROVE  /\ RowsInv' /\ RowsMove /\ KeysInv' /\ LateInv' /\ FormInv' /\ ReleaseInv' /\ RunInv' /\ TransferInv'
           /\ Upload!Unmount => run' = Upload!NoRun
           /\ Upload!Stay => run' = run
<1>1. RowsInv' /\ RowsMove /\ RowNames' = RowNames /\ UNCHANGED <<row, keyOf, fileOf, stored>>
  BY Unmoved DEF UploadInv
<1>2. CASE Upload!Stay
  <2>1. /\ UNCHANGED <<file, key, session, late, run, workers, next, urls, got, skip, release>>
        /\ checking' = FALSE
    BY <1>2 DEF Upload!Stay, Upload!dropzone, Upload!transfer
  <2>2. RunInv' /\ TransferInv' BY <1>1, <2>1, RunKept, TransferKept DEF UploadInv
  <2>3. LateInv' BY <1>1, <2>1, LateKept DEF UploadInv
  <2>4. FormInv' /\ ReleaseInv' BY <2>1, ReleaseKept DEF UploadInv, FormInv
  <2>5. KeysInv'
    <3>1. RunNames' = RunNames /\ FormNames' = FormNames /\ LateNames' = LateNames
      BY <2>1 DEF RunNames, FormNames, LateNames
    <3>. QED BY <1>1, <3>1, NamesKept
  <2>6. Upload!Unmount => run' = Upload!NoRun BY DEF Upload!Unmount, Upload!Stops
  <2>. QED BY <1>1, <2>1, <2>2, <2>3, <2>4, <2>5, <2>6
<1>3. CASE Upload!Unmount
  <2>1. /\ Upload!Stops /\ run' = Upload!NoRun /\ file' = None /\ key' = 0 /\ session' = 0
        /\ checking' = (Upload!Pending /\ session # 0 /\ ~Upload!Releasing)
    BY <1>3 DEF Upload!Unmount, Upload!Forget, Upload!Stops
  <2>2. /\ RunInv' /\ TransferInv' /\ RunNames' = {}
        /\ \A r \in late' : r \in late \/ Servable(r)
        /\ LateNames' \subseteq LateNames \union RunNames
    BY <2>1, StopsSafe DEF UploadInv
  <2>3. LateInv' BY <1>1, <2>2, LateKept DEF UploadInv
  <2>4. FormInv' BY <2>1 DEF FormInv
  <2>5. KeysInv'
    <3>1. FormNames' = {} BY <2>1 DEF FormNames
    <3>. QED BY <1>1, <2>2, <3>1, NamesKept
  <2>6. ReleaseInv'
    <3>1. \/ release' = Upload!NoRelease \/ release' = release
          \/ release.then \in {"choose", "reset"} /\ release' = [release EXCEPT !.then = "nothing"]
      BY <1>3 DEF Upload!Unmount
    <3>2. CASE release' = Upload!NoRelease BY <3>2 DEF ReleaseInv, Thens, Upload!NoRelease
    <3>3. CASE release' = release BY <3>3, ReleaseKept DEF UploadInv
    <3>4. CASE release.then \in {"choose", "reset"} /\ release' = [release EXCEPT !.then = "nothing"]
      <4>1. release # Upload!NoRelease BY <3>4 DEF Upload!NoRelease
      <4>2. release \in [session : Sessions \union {0}, then : Thens, file : Files \union {None}]
            /\ release.session \in canceled
        BY <4>1 DEF UploadInv, ReleaseInv
      <4>3. release'.session = release.session BY <3>4, <4>2
      <4>4. release' \in [session : Sessions \union {0}, then : Thens, file : Files \union {None}]
        BY <3>4, <4>2 DEF Thens
      <4>. QED BY <4>2, <4>3, <4>4 DEF ReleaseInv
    <3>. QED BY <3>1, <3>2, <3>3, <3>4
  <2>7. ~Upload!Stay \/ run' = run BY DEF Upload!Stay
  <2>. QED BY <1>1, <2>1, <2>2, <2>3, <2>4, <2>5, <2>6, <2>7
<1>. QED BY <1>2, <1>3

\* discoverUploads: the page shows a session there is.
LEMMA DiscoverKeeps == ASSUME UploadInv, PlaceInv, Upload!Discover PROVE UploadInv' /\ PlaceInv'
<1>1. UNCHANGED <<Upload!server, canceled, keys>> /\ UNCHANGED row
  BY DEF Upload!Discover, Upload!server
<1>2. Upload!Stay \/ Upload!Unmount BY DEF Upload!Discover
<1>3. /\ RowsInv' /\ RowsMove /\ KeysInv' /\ LateInv' /\ FormInv' /\ ReleaseInv' /\ RunInv' /\ TransferInv'
      /\ Upload!Unmount => run' = Upload!NoRun
      /\ Upload!Stay => run' = run
  BY <1>1, <1>2, StayKeeps
<1>4. CASE /\ Upload!Discovered # {} /\ view' = "recovered" /\ listed' = Upload!Min(Upload!Discovered)
           /\ IF view = "recovered" /\ shown.s = listed' THEN Upload!Stay /\ UNCHANGED shown
              ELSE Upload!Unmount /\ shown' = Upload!Snapshot(listed')
  <2>1. listed' \in Upload!Discovered
    <3>1. Upload!Discovered \in SUBSET Nat /\ IsFiniteSet(Upload!Discovered)
      <4>1. Upload!Discovered \in SUBSET Sessions BY DEF Upload!Discovered
      <4>2. Upload!Discovered \in SUBSET Nat BY <4>1, UploadGiven
      <4>. QED BY <4>1, <4>2, UploadGiven, FS_Subset
    <3>2. \E q \in Upload!Discovered : \A r \in Upload!Discovered : q <= r BY <1>4, <3>1, ExtremesExist
    <3>. QED BY <1>4, <3>2 DEF Upload!Min
  <2>2. Known(listed)' BY <1>1, <2>1 DEF Upload!Discovered, Known, Upload!Active
  <2>3. shown'.s = listed' BY <1>4 DEF Upload!Snapshot
  <2>4. ShownInv' BY <1>4, <2>2, <2>3 DEF ShownInv, Known
  <2>5. PlaceInv' BY <1>3, <1>4, Placed
  <2>. QED BY <1>3, <2>4, <2>5 DEF UploadInv
<1>5. CASE /\ view' = "dropzone" /\ listed' = 0 /\ shown' = Upload!Nobody
           /\ IF view = "dropzone" THEN Upload!Stay ELSE Upload!Unmount
  <2>1. ShownInv' BY <1>5 DEF ShownInv, Upload!Nobody
  <2>2. PlaceInv' BY <1>3, <1>5, Placed
  <2>. QED BY <1>3, <2>1, <2>2 DEF UploadInv
<1>6. CASE view' = "failed" /\ shown' = Upload!Nobody /\ UNCHANGED listed /\ Upload!Unmount
  <2>1. ShownInv' BY <1>1, <1>6 DEF UploadInv, ShownInv, Upload!Nobody, Known
  <2>2. PlaceInv' BY <1>3, <1>6, Placed
  <2>. QED BY <1>3, <2>1, <2>2 DEF UploadInv
<1>. QED BY <1>4, <1>5, <1>6 DEF Upload!Discover

LEMMA CheckAgainKeeps == ASSUME UploadInv, PlaceInv, Upload!CheckAgain PROVE UploadInv' /\ PlaceInv'
<1>1. /\ view = "failed" /\ checking' = TRUE
      /\ shown' = IF listed \in Sessions THEN Upload!Snapshot(listed) ELSE Upload!Nobody
      /\ view' = CASE listed = None -> "checking" [] listed = 0 -> "dropzone" [] OTHER -> "recovered"
      /\ UNCHANGED <<Upload!server, late, file, key, session, listed, run, workers, next, urls, got, skip,
                     release, canceled, keys>>
  BY DEF Upload!CheckAgain, Upload!dropzone, Upload!transfer, Upload!bounds
<1>2. RowsInv' /\ RowsMove /\ RowNames' = RowNames BY <1>1, Unmoved DEF UploadInv
<1>3. RunInv' /\ TransferInv' BY <1>1, <1>2, RunKept, TransferKept DEF UploadInv
<1>4. LateInv' BY <1>1, <1>2, LateKept DEF UploadInv
<1>5. FormInv' /\ ReleaseInv' BY <1>1, ReleaseKept DEF UploadInv, FormInv
<1>6. KeysInv'
  <2>1. RunNames' = RunNames /\ FormNames' = FormNames /\ LateNames' = LateNames
    BY <1>1 DEF RunNames, FormNames, LateNames
  <2>. QED BY <1>1, <1>2, <2>1, NamesKept
<1>7. ShownInv'
  <2>1. /\ listed \in Sessions \union {0, None} /\ (listed \notin {0, None} => Known(listed))
    BY DEF UploadInv, ShownInv
  <2>2. view' \in {"checking", "dropzone", "recovered"} /\ (view' = "recovered" => listed \notin {0, None})
    <3>1. CASE listed = None /\ listed = 0 BY <1>1, <3>1
    <3>2. CASE listed = None /\ listed # 0 BY <1>1, <3>2
    <3>3. CASE listed # None /\ listed = 0 BY <1>1, <3>3
    <3>4. CASE listed # None /\ listed # 0 BY <1>1, <3>4
    <3>. QED BY <3>1, <3>2, <3>3, <3>4
  <2>3. shown'.s \in Sessions \union {0} /\ (listed \in Sessions => shown'.s = listed)
    BY <1>1 DEF Upload!Snapshot, Upload!Nobody
  <2>4. listed \notin {0, None} => Known(listed)' /\ shown'.s = listed
    BY <1>1, <1>2, <2>1, <2>3 DEF RowsMove, Known
  <2>5. listed' = listed BY <1>1
  <2>. QED BY <2>1, <2>2, <2>3, <2>4, <2>5 DEF ShownInv, Known
<1>8. PlaceInv'
  <2>1. run.from = "none" \/ run.from = "failed" BY <1>1 DEF PlaceInv
  <2>2. run.from # "failed" BY DEF UploadInv, RunInv
  <2>. QED BY <1>1, <2>1, <2>2, Placed
<1>. QED BY <1>2, <1>3, <1>4, <1>5, <1>6, <1>7, <1>8 DEF UploadInv

LEMMA ReloadPageKeeps == ASSUME UploadInv, Upload!ReloadPage PROVE UploadInv' /\ PlaceInv'
<1>1. /\ UNCHANGED <<Upload!server, canceled, keys>>
      /\ view' = "checking" /\ checking' = TRUE /\ listed' = None /\ shown' = Upload!Nobody
      /\ file' = None /\ key' = 0 /\ session' = 0
      /\ run' = Upload!NoRun /\ Upload!NoTransfer /\ release' = Upload!NoRelease
      /\ late' = late \union Upload!InFlight
                      \union (IF release # Upload!NoRelease THEN {Upload!Delete(release.session)} ELSE {})
  BY DEF Upload!ReloadPage, Upload!Forget, Upload!Abandoned, Upload!Releasing
<1>2. RowsInv' /\ RowsMove /\ RowNames' = RowNames BY <1>1, Unmoved DEF UploadInv
<1>3. RunInv' /\ TransferInv' /\ RunNames' = {} BY <1>1, IdleRun
<1>4. \A s : Upload!Delete(s).op = "delete" /\ Upload!Delete(s).session = s
  BY DEF Upload!Delete, Upload!Request
<1>5. \A r \in late' : \/ r \in late \union Upload!InFlight
                       \/ r.op = "delete" /\ r.session \in canceled
  BY <1>1, <1>4 DEF UploadInv, ReleaseInv
<1>6. LateInv'
  <2>1. \A r \in late' : r \in late \/ Servable(r)
    <3>1. \A r \in Upload!InFlight : Servable(r) BY InFlightServable DEF UploadInv
    <3>. QED BY <1>5, <3>1 DEF Servable
  <2>. QED BY <1>1, <1>2, <2>1, LateKept DEF UploadInv
<1>7. KeysInv'
  <2>1. LateNames' \subseteq LateNames \union RunNames
    BY <1>5, InFlightServable DEF UploadInv, LateNames, RunNames
  <2>2. FormNames' = {} BY <1>1 DEF FormNames
  <2>. QED BY <1>1, <1>2, <1>3, <2>1, <2>2, NamesKept
<1>8. FormInv' BY <1>1 DEF FormInv
<1>9. ShownInv' BY <1>1 DEF ShownInv, Upload!Nobody
<1>10. ReleaseInv' BY <1>1 DEF ReleaseInv, Thens, Upload!NoRelease
<1>11. PlaceInv' BY <1>1 DEF PlaceInv, Upload!NoRun
<1>. QED BY <1>2, <1>3, <1>6, <1>7, <1>8, <1>9, <1>10, <1>11 DEF UploadInv

\* What the user does while the run, if any, goes on.
LEMMA RunGoesOn ==
    ASSUME UploadInv, PlaceInv, RowsInv', RowsMove, RowNames' = RowNames, KeysInv', FormInv', ReleaseInv',
           canceled \subseteq canceled', \A r \in late' : r \in late \/ Servable(r),
           UNCHANGED <<view, listed, shown, run, workers, next, urls, got, skip>>
    PROVE  UploadInv' /\ PlaceInv'
<1>1. RunInv' /\ TransferInv' /\ LateInv' /\ ShownInv'
  BY RunKept, TransferKept, LateKept, ShownKept DEF UploadInv
<1>2. PlaceInv' BY Placed
<1>. QED BY <1>1, <1>2 DEF UploadInv

\* releasePreviousUpload, cancel(): only what the user asked to be deleted.
LEMMA ReleasedKeeps == ASSUME UploadInv, PlaceInv, Upload!Released PROVE UploadInv' /\ PlaceInv'
<1>1. /\ release # Upload!NoRelease /\ canceled' = canceled
      /\ UNCHANGED <<view, listed, shown, run, workers, next, urls, got, skip>>
  BY DEF Upload!Released, Upload!Releasing, Upload!transfer
<1>2. /\ release \in [session : Sessions \union {0}, then : Thens, file : Files \union {None}]
      /\ release.session \in canceled
  BY <1>1 DEF UploadInv, ReleaseInv
<1>3. ASSUME release' = Upload!NoRelease PROVE ReleaseInv'
  BY <1>3 DEF ReleaseInv, Thens, Upload!NoRelease
<1>4. CASE /\ Upload!AbortAt(release.session)
           /\ IF release.then = "cancel" THEN UNCHANGED <<session, file, key, duplicate, keys>>
              ELSE /\ session' = 0
                   /\ CASE release.then = "choose" -> Upload!Chosen(release.file)
                        [] release.then = "reset" -> Upload!Cleared /\ UNCHANGED keys
                        [] OTHER -> key' = 0 /\ UNCHANGED <<file, duplicate, keys>>
           /\ checking' = (checking \/ release.then \in {"cancel", "interrupted"})
           /\ release' = IF release.then = "cancel" /\ view = "recovered" /\ shown.s = release.session
                         THEN [release EXCEPT !.then = "reload"] ELSE Upload!NoRelease
           /\ UNCHANGED <<late, faults>>
  <2>1. RowsInv' /\ RowsMove /\ RowNames' = RowNames BY <1>1, <1>2, <1>4, AbortMoves DEF UploadInv
  <2>2. ReleaseInv'
    <3>1. CASE release' = [release EXCEPT !.then = "reload"]
      <4>1. release'.session = release.session BY <1>2, <3>1
      <4>2. release' \in [session : Sessions \union {0}, then : Thens, file : Files \union {None}]
        BY <1>2, <3>1 DEF Thens
      <4>. QED BY <1>1, <1>2, <4>1, <4>2 DEF ReleaseInv
    <3>. QED BY <1>3, <1>4, <3>1
  <2>3. checking' \in BOOLEAN BY <1>4 DEF UploadInv, FormInv
  <2>4. \/ UNCHANGED <<session, file, key, keys>>
        \/ session' = 0 /\ file' = release.file /\ key' = keys + 1 /\ keys' = keys + 1
        \/ session' = 0 /\ file' \in {file, None} /\ key' = 0 /\ keys' = keys
    <3>1. CASE release.then = "cancel" BY <1>4, <3>1
    <3>2. CASE release.then = "choose"
      BY <1>4, <3>2 DEF Upload!Chosen, Upload!NewKey, Upload!Fresh
    <3>3. CASE release.then = "reset" BY <1>4, <3>3 DEF Upload!Cleared
    <3>4. CASE release.then \notin {"cancel", "choose", "reset"} BY <1>4, <3>4
    <3>. QED BY <3>1, <3>2, <3>3, <3>4
  <2>5. FormInv' BY <1>2, <2>3, <2>4 DEF UploadInv, FormInv, KeysInv
  <2>6. KeysInv'
    <3>1. RunNames' = RunNames /\ LateNames' = LateNames BY <1>1, <1>4 DEF RunNames, LateNames
    <3>2. CASE UNCHANGED <<session, file, key, keys>>
      <4>1. FormNames' = FormNames BY <3>2 DEF FormNames
      <4>. QED BY <2>1, <3>1, <3>2, <4>1, NamesKept
    <3>3. CASE file' = release.file /\ key' = keys + 1 /\ keys' = keys + 1
      <4>1. FormNames' \subseteq {<<keys + 1, release.file>>} BY <3>3 DEF FormNames
      <4>. QED BY <2>1, <3>1, <3>3, <4>1, NamesKept
    <3>4. CASE key' = 0 /\ keys' = keys
      <4>1. FormNames' = {} BY <3>4 DEF FormNames
      <4>. QED BY <2>1, <3>1, <3>4, <4>1, NamesKept
    <3>. QED BY <2>4, <3>2, <3>3, <3>4
  <2>. QED BY <1>1, <1>4, <2>1, <2>2, <2>5, <2>6, RunGoesOn
<1>5. ASSUME UNCHANGED <<Upload!server, Upload!dropzone, keys>>, release' = Upload!NoRelease,
             checking' = (checking \/ release.then = "interrupted"),
             \A r \in late' \ late : r = Upload!Delete(release.session)
      PROVE  UploadInv' /\ PlaceInv'
  <2>1. RowsInv' /\ RowsMove /\ RowNames' = RowNames BY <1>1, <1>5, Unmoved DEF UploadInv
  <2>2. file' = file /\ key' = key /\ session' = session BY <1>5 DEF Upload!dropzone
  <2>3. FormInv' BY <1>5, <2>2 DEF UploadInv, FormInv
  <2>4. \A r \in late' \ late : r.op = "delete" /\ r.session \in canceled
    BY <1>2, <1>5 DEF Upload!Delete, Upload!Request
  <2>5. \A r \in late' : r \in late \/ Servable(r) BY <2>4 DEF Servable
  <2>6. KeysInv'
    <3>1. LateNames' \subseteq LateNames BY <2>4 DEF LateNames
    <3>2. FormNames' = FormNames /\ RunNames' = RunNames BY <1>1, <2>2 DEF FormNames, RunNames
    <3>. QED BY <1>5, <2>1, <3>1, <3>2, NamesKept
  <2>. QED BY <1>1, <1>3, <1>5, <2>1, <2>3, <2>5, <2>6, RunGoesOn
<1>6. CASE /\ UNCHANGED <<Upload!server, late, Upload!dropzone, keys, faults>> /\ release' = Upload!NoRelease
           /\ checking' = (checking \/ release.then = "interrupted")
  BY <1>5, <1>6
<1>7. CASE /\ late' = late \union {Upload!Delete(release.session)} /\ release' = Upload!NoRelease
           /\ checking' = (checking \/ release.then = "interrupted")
           /\ UNCHANGED <<Upload!server, Upload!dropzone, keys>>
  BY <1>5, <1>7
<1>. QED BY <1>4, <1>6, <1>7 DEF Upload!Released

LEMMA ReleaseAsked ==
    ASSUME NEW s \in Sessions \union {0}, NEW then \in Thens, NEW f \in Files \union {None},
           Upload!Release(s, then, f)
    PROVE  ReleaseInv' /\ canceled \subseteq canceled'
<1>1. release' = [session |-> s, then |-> then, file |-> f] /\ canceled' = canceled \union {s}
  BY DEF Upload!Release
<1>2. release'.session \in canceled' /\ canceled \subseteq canceled' BY <1>1
<1>3. release' \in [session : Sessions \union {0}, then : Thens, file : Files \union {None}] BY <1>1
<1>. QED BY <1>2, <1>3 DEF ReleaseInv

LEMMA ReleaseNotAsked ==
    ASSUME UploadInv, Upload!NoneReleased PROVE ReleaseInv' /\ canceled \subseteq canceled'
BY ReleaseKept DEF UploadInv, Upload!NoneReleased

\* The form: unchanged, cleared, or with a fresh key.
FormMoves ==
    \/ UNCHANGED <<file, key, keys>>
    \/ key' = 0 /\ keys' = keys /\ file' = None
    \/ key' = keys + 1 /\ keys' = keys + 1 /\ file' \in Files \union {None}

LEMMA FormKeeps ==
    ASSUME UploadInv, RowNames' = RowNames, LateNames' = LateNames, RunNames' = RunNames, FormMoves,
           checking' = checking, session' = session
    PROVE  KeysInv' /\ FormInv'
<1>1. KeysInv'
  <2>1. CASE UNCHANGED <<file, key, keys>>
    <3>1. FormNames' = FormNames BY <2>1 DEF FormNames
    <3>. QED BY <2>1, <3>1, NamesKept
  <2>2. CASE key' = 0 /\ keys' = keys /\ file' = None
    <3>1. FormNames' = {} BY <2>2 DEF FormNames
    <3>. QED BY <2>2, <3>1, NamesKept
  <2>3. CASE key' = keys + 1 /\ keys' = keys + 1 /\ file' \in Files \union {None}
    <3>1. FormNames' \subseteq {<<keys + 1, file'>>} BY <2>3 DEF FormNames
    <3>. QED BY <2>3, <3>1, NamesKept
  <2>. QED BY <2>1, <2>2, <2>3 DEF FormMoves
<1>2. FormInv' BY DEF FormMoves, UploadInv, FormInv, KeysInv
<1>. QED BY <1>1, <1>2

LEMMA StillKept ==
    ASSUME UploadInv, UNCHANGED Upload!Still, canceled \subseteq canceled'
    PROVE  /\ RowsInv' /\ RowsMove /\ RowNames' = RowNames /\ LateNames' = LateNames
           /\ UNCHANGED <<late, view, listed, shown, workers, next, urls, got, skip, row, keyOf, fileOf, stored>>
<1>1. UNCHANGED <<row, keyOf, fileOf, stored, late, view, listed, shown, workers, next, urls, got, skip>>
  BY DEF Upload!Still, Upload!server, Upload!transfer
<1>2. RowsInv' /\ RowsMove /\ RowNames' = RowNames BY <1>1, NothingMoves DEF UploadInv
<1>. QED BY <1>1, <1>2 DEF LateNames

\* chooseFile, a new sport, and the notice of a duplicate.
LEMMA FormActions ==
    ASSUME UploadInv, PlaceInv,
           \/ \E f \in Files : Upload!ChooseFile(f)
           \/ Upload!ChooseSport \/ Upload!DismissDuplicate
    PROVE  UploadInv' /\ PlaceInv'
<1>1. UNCHANGED <<Upload!Still, run, checking, session>>
      /\ FormMoves /\ ReleaseInv' /\ canceled \subseteq canceled'
  <2>1. ASSUME NEW f \in Files, Upload!ChooseFile(f)
        PROVE  UNCHANGED <<Upload!Still, run, checking, session>>
               /\ FormMoves /\ ReleaseInv' /\ canceled \subseteq canceled'
    <3>1. UNCHANGED <<Upload!Still, run, checking>> BY <2>1 DEF Upload!ChooseFile
    <3>2. CASE session = 0
      <4>1. Upload!Chosen(f) /\ UNCHANGED session /\ Upload!NoneReleased
        BY <2>1, <3>2 DEF Upload!ChooseFile
      <4>2. FormMoves BY <4>1 DEF FormMoves, Upload!Chosen, Upload!NewKey, Upload!Fresh
      <4>. QED BY <3>1, <4>1, <4>2, ReleaseNotAsked
    <3>3. CASE session # 0
      <4>1. Upload!Release(session, "choose", f) /\ UNCHANGED <<Upload!dropzone, keys>>
        BY <2>1, <3>3 DEF Upload!ChooseFile
      <4>2. FormMoves /\ UNCHANGED session BY <4>1 DEF FormMoves, Upload!dropzone
      <4>3. session \in Sessions \union {0} BY DEF UploadInv, FormInv
      <4>4. ReleaseInv' /\ canceled \subseteq canceled' BY <4>1, <4>3, ReleaseAsked DEF Thens
      <4>. QED BY <3>1, <4>2, <4>4
    <3>. QED BY <3>2, <3>3
  <2>2. CASE Upload!ChooseSport
    <3>1. FormMoves
      BY <2>2 DEF Upload!ChooseSport, Upload!NewKey, Upload!Fresh, FormMoves, UploadInv, FormInv
    <3>. QED BY <2>2, <3>1, ReleaseNotAsked DEF Upload!ChooseSport
  <2>3. CASE Upload!DismissDuplicate
    <3>1. FormMoves BY <2>3 DEF Upload!DismissDuplicate, FormMoves
    <3>. QED BY <2>3, <3>1, ReleaseNotAsked DEF Upload!DismissDuplicate
  <2>. QED BY <2>1, <2>2, <2>3
<1>2. /\ RowsInv' /\ RowsMove /\ RowNames' = RowNames /\ LateNames' = LateNames
      /\ UNCHANGED <<late, view, listed, shown, workers, next, urls, got, skip>>
  BY <1>1, StillKept
<1>3. RunNames' = RunNames BY <1>1 DEF RunNames
<1>4. KeysInv' /\ FormInv' BY <1>1, <1>2, <1>3, FormKeeps
<1>. QED BY <1>1, <1>2, <1>4, RunGoesOn

\* A run begins where none is under way.
LEMMA Begins ==
    ASSUME UploadInv, RowsInv', RowsMove, run.step = "idle", UNCHANGED <<late, workers, next, urls, got, skip>>,
           NEW k \in Nat, NEW f \in Files \union {None}, NEW again \in BOOLEAN, NEW s \in Sessions \union {0},
           \/ Upload!Started("dropzone", "identity", s, k, f, again) /\ s = 0
           \/ Upload!Started("recovered", "check", s, k, f, again) /\ Known(s) /\ s # 0
    PROVE  /\ RunInv' /\ TransferInv'
           /\ run'.from \in {"dropzone", "recovered"}
           /\ RunNames' = IF run'.from = "dropzone" THEN {<<k, f>>} ELSE {}
<1>1. PICK from \in {"dropzone", "recovered"}, step \in {"identity", "check"} :
         /\ run' = [step |-> step, from |-> from, session |-> s, key |-> k, file |-> f, again |-> again]
         /\ from = "dropzone" => s = 0
         /\ from = "recovered" => step = "check" /\ Known(s) /\ s # 0
         /\ step = "check" => s # 0
  BY DEF Upload!Started
<1>2. /\ run' \in [step : Steps, from : {"none", "dropzone", "recovered"}, session : Sessions \union {0},
                   key : Nat, file : Files \union {None}, again : BOOLEAN]
      /\ run'.step = step /\ run'.from = from /\ run'.session = s /\ run'.key = k /\ run'.file = f
  BY <1>1 DEF Steps
<1>3. s # 0 => row'[s] # "absent" /\ s \in Sessions BY <1>1 DEF RowsMove, Known
<1>4. RunInv'
  <2>1. run'.session # 0 => Known(run.session)' BY <1>2, <1>3 DEF Known
  <2>2. Upload!RunsOwnSession' BY <1>1, <1>2 DEF Upload!RunsOwnSession
  <2>. QED BY <1>1, <1>2, <2>1, <2>2 DEF RunInv, Steps
<1>5. TransferInv'
  <2>1. got' = NoneStored /\ \A w \in Workers : ~Sending(w)' BY NothingRuns DEF Sending
  <2>2. Upload!Held(got)' = {} BY <2>1, UploadGiven DEF Upload!Held, NoneStored
  <2>. QED BY <1>2, <2>1, <2>2 DEF UploadInv, TransferInv
<1>. QED BY <1>2, <1>4, <1>5 DEF RunNames

LEMMA Idle ==
    ASSUME UploadInv, PlaceInv, Upload!InDropzone, ~Upload!Pending
    PROVE  run.step = "idle" /\ view = "dropzone" /\ RunNames = {}
<1>1. run.from \in {"none", "dropzone", "recovered"} /\ view = "dropzone" /\ run.from # "dropzone"
  BY DEF UploadInv, RunInv, Upload!InDropzone, Upload!Pending
<1>. QED BY <1>1 DEF PlaceInv, RunNames

\* submit and Analyze again: a key of the form, or a fresh one.
LEMMA SubmitKeeps ==
    ASSUME UploadInv, PlaceInv, Upload!Submit \/ Upload!AnalyzeAgain
    PROVE  UploadInv' /\ PlaceInv'
<1>1. /\ run.step = "idle" /\ view = "dropzone" /\ RunNames = {}
      /\ keys \in Nat /\ key \in Nat /\ file \in Files \union {None}
  BY Idle DEF Upload!Submit, Upload!AnalyzeAgain, UploadInv, KeysInv, FormInv
<1>2. /\ UNCHANGED <<Upload!Still, checking, file, session>> /\ Upload!NoneReleased
      /\ \E k \in Nat, again \in BOOLEAN :
            /\ Upload!Started("dropzone", "identity", 0, k, file, again)
            /\ \/ k = key /\ key # 0 /\ key' = key /\ keys' = keys
               \/ k = keys + 1 /\ key' \in {key, k} /\ keys' = keys + 1
  <2>1. CASE Upload!Submit
    <3>1. UNCHANGED <<Upload!Still, checking, file, session>> /\ Upload!NoneReleased BY <2>1 DEF Upload!Submit
    <3>2. Upload!Started("dropzone", "identity", 0, key', file, FALSE) BY <2>1 DEF Upload!Submit
    <3>3. \/ key # 0 /\ key' = key /\ keys' = keys
          \/ key' = keys + 1 /\ keys' = keys + 1
      BY <2>1 DEF Upload!Submit, Upload!NewKey, Upload!Fresh
    <3>4. key' \in Nat BY <1>1, <3>3
    <3>. QED BY <3>1, <3>2, <3>3, <3>4
  <2>2. CASE Upload!AnalyzeAgain
    <3>1. UNCHANGED <<Upload!Still, checking, file, session, key>> /\ Upload!NoneReleased
      BY <2>2 DEF Upload!AnalyzeAgain, Upload!dropzone
    <3>2. keys' = keys + 1 /\ keys + 1 \in Nat
      BY <1>1, <2>2 DEF Upload!AnalyzeAgain, Upload!NewKey, Upload!Fresh
    <3>3. Upload!Started("dropzone", "identity", 0, keys + 1, file, TRUE)
      BY <2>2 DEF Upload!AnalyzeAgain, Upload!Fresh
    <3>. QED BY <3>1, <3>2, <3>3
  <2>. QED BY <2>1, <2>2
<1>3. PICK k \in Nat, again \in BOOLEAN :
         /\ Upload!Started("dropzone", "identity", 0, k, file, again)
         /\ \/ k = key /\ key # 0 /\ key' = key /\ keys' = keys
            \/ k = keys + 1 /\ key' \in {key, k} /\ keys' = keys + 1
  BY <1>2
<1>4. ReleaseInv' /\ canceled \subseteq canceled' BY <1>2, ReleaseNotAsked
<1>5. /\ RowsInv' /\ RowsMove /\ RowNames' = RowNames /\ LateNames' = LateNames
      /\ UNCHANGED <<late, view, listed, shown, workers, next, urls, got, skip>>
  BY <1>2, <1>4, StillKept
<1>6. run'.from = "dropzone" BY <1>3 DEF Upload!Started
<1>7. RunInv' /\ TransferInv' /\ RunNames' = {<<k, file>>} BY <1>1, <1>3, <1>5, <1>6, Begins
<1>8. FormInv' BY <1>1, <1>2, <1>3 DEF UploadInv, FormInv
<1>9. KeysInv'
  <2>1. CASE k = key /\ key # 0 /\ key' = key /\ keys' = keys
    <3>1. FormNames' = {<<key, file>>} /\ FormNames = {<<key, file>>} BY <1>2, <2>1 DEF FormNames
    <3>. QED BY <1>5, <1>7, <2>1, <3>1, NamesKept
  <2>2. CASE k = keys + 1 /\ key' \in {key, k} /\ keys' = keys + 1
    <3>1. FormNames' \subseteq FormNames \union {<<keys + 1, file>>} BY <1>2, <2>2 DEF FormNames
    <3>. QED BY <1>5, <1>7, <2>2, <3>1, NamesKept
  <2>. QED BY <1>3, <2>1, <2>2
<1>10. LateInv' /\ ShownInv' BY <1>4, <1>5, LateKept, ShownKept DEF UploadInv
<1>11. PlaceInv' BY <1>1, <1>5, <1>6, Placed
<1>. QED BY <1>4, <1>5, <1>7, <1>8, <1>9, <1>10, <1>11 DEF UploadInv

\* Resume of the recovery page: on the session it shows.
LEMMA ResumeUploadKeeps ==
    ASSUME UploadInv, PlaceInv, NEW f \in Files \union {None}, Upload!ResumeUpload(f)
    PROVE  UploadInv' /\ PlaceInv'
<1>1. /\ view = "recovered" /\ run = Upload!NoRun /\ Upload!NoneReleased
      /\ Upload!Started("recovered", "check", shown.s, 0, f, FALSE)
      /\ UNCHANGED <<Upload!Still, checking, file, key, session, keys>>
  BY DEF Upload!ResumeUpload, Upload!Recovered, Upload!dropzone
<1>2. run.step = "idle" BY <1>1 DEF Upload!NoRun
<1>3. Known(shown.s) /\ shown.s \in Sessions \union {0} /\ shown.s # 0
  BY <1>1, UploadGiven DEF UploadInv, ShownInv, Known
<1>4. ReleaseInv' /\ canceled \subseteq canceled' BY <1>1, ReleaseNotAsked
<1>5. /\ RowsInv' /\ RowsMove /\ RowNames' = RowNames /\ LateNames' = LateNames
      /\ UNCHANGED <<late, view, listed, shown, workers, next, urls, got, skip>>
  BY <1>1, <1>4, StillKept
<1>6. run'.from = "recovered" BY <1>1 DEF Upload!Started
<1>7. RunInv' /\ TransferInv' /\ RunNames' = {} BY <1>1, <1>2, <1>3, <1>5, <1>6, Begins
<1>8. FormInv' BY <1>1, FormKept DEF UploadInv
<1>9. KeysInv'
  <2>1. FormNames' = FormNames BY <1>1 DEF FormNames
  <2>. QED BY <1>1, <1>5, <1>7, <2>1, NamesKept
<1>10. LateInv' /\ ShownInv' BY <1>4, <1>5, LateKept, ShownKept DEF UploadInv
<1>11. PlaceInv' BY <1>1, <1>5, <1>6, Placed
<1>. QED BY <1>4, <1>5, <1>7, <1>8, <1>9, <1>10, <1>11 DEF UploadInv

\* Whatever is under way stops, and its session is released.
LEMMA StopsAsked ==
    ASSUME UploadInv, Upload!Stops, UNCHANGED <<Upload!server, view, listed, shown, file, key, session, keys>>,
           checking' \in BOOLEAN, ReleaseInv', canceled \subseteq canceled'
    PROVE  UploadInv' /\ PlaceInv'
<1>1. UNCHANGED <<row, keyOf, fileOf, stored>> BY DEF Upload!server
<1>2. RowsInv' /\ RowsMove /\ RowNames' = RowNames BY <1>1, NothingMoves DEF UploadInv
<1>3. /\ RunInv' /\ TransferInv' /\ RunNames' = {}
      /\ \A r \in late' : r \in late \/ Servable(r)
      /\ LateNames' \subseteq LateNames \union RunNames
  BY StopsSafe DEF UploadInv
<1>4. LateInv' /\ ShownInv' BY <1>2, <1>3, LateKept, ShownKept DEF UploadInv
<1>5. FormInv' BY DEF UploadInv, FormInv
<1>6. KeysInv'
  <2>1. FormNames' = FormNames BY DEF FormNames
  <2>. QED BY <1>2, <1>3, <2>1, NamesKept
<1>7. PlaceInv' BY DEF Upload!Stops, Upload!NoRun, PlaceInv
<1>. QED BY <1>2, <1>3, <1>4, <1>5, <1>6, <1>7 DEF UploadInv

LEMMA CancelUploadKeeps == ASSUME UploadInv, Upload!CancelUpload PROVE UploadInv' /\ PlaceInv'
<1>1. /\ Upload!Stops /\ Upload!Release(shown.s, "cancel", None)
      /\ UNCHANGED <<Upload!server, view, checking, listed, shown, file, key, session, keys>>
  BY DEF Upload!CancelUpload, Upload!page, Upload!dropzone, Upload!bounds
<1>2. shown.s \in Sessions \union {0} BY DEF UploadInv, ShownInv
<1>3. ReleaseInv' /\ canceled \subseteq canceled' BY <1>1, <1>2, ReleaseAsked DEF Thens
<1>. QED BY <1>1, <1>3, StopsAsked DEF UploadInv, FormInv

\* reset: a run is stopped; otherwise the form is cleared, or its session
\* released first.
LEMMA ResetKeeps == ASSUME UploadInv, PlaceInv, Upload!Reset PROVE UploadInv' /\ PlaceInv'
<1>1. UNCHANGED <<Upload!server, view, listed, shown, keys>> BY DEF Upload!Reset, Upload!bounds
<1>2. session \in Sessions \union {0} /\ checking \in BOOLEAN BY DEF UploadInv, FormInv
<1>3. CASE Upload!Pending
  <2>1. /\ Upload!Stops /\ UNCHANGED Upload!dropzone
        /\ IF session = 0 THEN checking' = TRUE /\ Upload!NoneReleased
           ELSE Upload!Release(session, "interrupted", None) /\ UNCHANGED checking
    BY <1>3 DEF Upload!Reset
  <2>2. UNCHANGED <<file, key, session>> BY <2>1 DEF Upload!dropzone
  <2>3. CASE session = 0
    <3>1. ReleaseInv' /\ canceled \subseteq canceled' BY <2>1, <2>3, ReleaseNotAsked
    <3>. QED BY <1>1, <2>1, <2>2, <2>3, <3>1, StopsAsked
  <2>4. CASE session # 0
    <3>1. ReleaseInv' /\ canceled \subseteq canceled' BY <1>2, <2>1, <2>4, ReleaseAsked DEF Thens
    <3>2. checking' \in BOOLEAN BY <1>2, <2>1, <2>4
    <3>. QED BY <1>1, <2>1, <2>2, <3>1, <3>2, StopsAsked
  <2>. QED BY <2>3, <2>4
<1>4. CASE ~Upload!Pending
  <2>1. /\ UNCHANGED <<late, run, Upload!transfer, checking, session>>
        /\ IF session = 0 THEN Upload!Cleared /\ Upload!NoneReleased
           ELSE Upload!Release(session, "reset", None) /\ UNCHANGED <<file, key, duplicate>>
    BY <1>4 DEF Upload!Reset
  <2>2. FormMoves BY <1>1, <2>1 DEF FormMoves, Upload!Cleared
  <2>3. ReleaseInv' /\ canceled \subseteq canceled'
    <3>1. CASE session = 0 BY <2>1, <3>1, ReleaseNotAsked
    <3>2. CASE session # 0 BY <1>2, <2>1, <3>2, ReleaseAsked DEF Thens
    <3>. QED BY <3>1, <3>2
  <2>4. UNCHANGED <<row, keyOf, fileOf, stored, workers, next, urls, got, skip>>
    BY <1>1, <2>1 DEF Upload!server, Upload!transfer
  <2>5. RowsInv' /\ RowsMove /\ RowNames' = RowNames BY <2>3, <2>4, NothingMoves DEF UploadInv
  <2>6. RunNames' = RunNames /\ LateNames' = LateNames BY <2>1 DEF RunNames, LateNames
  <2>7. KeysInv' /\ FormInv' BY <2>1, <2>2, <2>5, <2>6, FormKeeps
  <2>. QED BY <1>1, <2>1, <2>3, <2>4, <2>5, <2>7, RunGoesOn
<1>. QED BY <1>3, <1>4

-----------------------------------------------------------------------------
(* The steps together.                                                      *)

LEMMA UploadInit == ASSUME Upload!Init PROVE UploadInv /\ PlaceInv
<1>1. /\ row = [s \in Sessions |-> "absent"] /\ keyOf = [s \in Sessions |-> 0]
      /\ fileOf = [s \in Sessions |-> None] /\ stored = [s \in Sessions |-> NoneStored]
      /\ late = {} /\ view = "checking" /\ checking = TRUE /\ file = None /\ key = 0 /\ session = 0
      /\ listed = None /\ shown.s = 0 /\ release = Upload!NoRelease /\ keys = 0
      /\ run = [step |-> "idle", from |-> "none", session |-> 0, key |-> 0, file |-> None, again |-> FALSE]
      /\ workers = [w \in Workers |-> [part |-> 0, attempt |-> 0, step |-> "idle"]]
      /\ next = 1 /\ urls = {} /\ got = NoneStored /\ skip = {}
  BY UploadGiven DEF Upload!Init, Upload!Nobody, Upload!NoRun, Upload!Asleep
<1>2. NoneStored \in [1 .. PartCount -> Files \union {None}] /\ Upload!Held(NoneStored) = {}
  BY UploadGiven DEF NoneStored, Upload!Held
<1>3. RowsInv
  <2>1. Upload!FinalizedIsOneFile /\ Upload!OnlyUserDestroys
    BY <1>1 DEF Upload!FinalizedIsOneFile, Upload!OnlyUserDestroys
  <2>2. \A s \in Sessions : \A p \in 1 .. PartCount : stored[s][p] \in {None, fileOf[s]}
    BY <1>1 DEF NoneStored
  <2>. QED BY <1>1, <1>2, <2>1, <2>2 DEF RowsInv, Statuses
<1>4. KeysInv
  <2>1. Named = {} BY <1>1 DEF Named, RowNames, LateNames, RunNames, FormNames
  <2>. QED BY <1>1, <2>1 DEF KeysInv
<1>5. LateInv /\ FormInv /\ ShownInv BY <1>1 DEF LateInv, FormInv, ShownInv
<1>6. ReleaseInv BY <1>1 DEF ReleaseInv, Thens, Upload!NoRelease
<1>7. RunInv BY <1>1 DEF RunInv, Upload!RunsOwnSession
<1>8. TransferInv
  <2>1. \A w \in Workers : ~Sending(w) BY <1>1 DEF Sending
  <2>2. workers \in Works BY <1>1, UploadGiven DEF Works
  <2>. QED BY <1>1, <1>2, <2>1, <2>2, UploadGiven DEF TransferInv, Works
<1>9. PlaceInv BY <1>1 DEF PlaceInv
<1>. QED BY <1>3, <1>4, <1>5, <1>6, <1>7, <1>8, <1>9 DEF UploadInv

\* A run that goes on stays where it is; one that ends is none.
LEMMA FailsPlaced == ASSUME PlaceInv, NEW kind, Upload!Fails(kind) PROVE PlaceInv'
BY Placed DEF Upload!Fails, Upload!Stops

LEMMA ResumePlaced ==
    ASSUME RunInv, PlaceInv, run.step # "idle", NEW snapshot, Upload!Resume(snapshot), UNCHANGED Upload!Local
    PROVE  PlaceInv'
<1>1. PICK step \in Steps : Upload!Continue(step) BY DEF Upload!Resume, Steps
<1>. QED BY <1>1, Continued, LocalKept

LEMMA RunPlaced ==
    ASSUME UploadInv, PlaceInv,
           \/ Upload!Identify \/ Upload!Initiate \/ Upload!Recover \/ Upload!ResumeSession \/ Upload!Check
           \/ Upload!Complete \/ Upload!Wait \/ Upload!Transferred
    PROVE  PlaceInv'
<1>0. RunInv BY DEF UploadInv
<1>1. CASE Upload!Loss BY <1>1, FailsPlaced DEF Upload!Loss
<1>2. CASE Upload!Identify
  <2>1. PICK step \in Steps : Upload!Continue(step) BY <1>2 DEF Upload!Identify, Steps
  <2>2. run.step # "idle" /\ view' = view BY <1>2, LocalKept DEF Upload!Identify
  <2>. QED BY <1>0, <2>1, <2>2, Continued
<1>3. CASE Upload!Initiate /\ ~Upload!Loss
  <2>1. CASE Upload!Fails("capacity") BY <2>1, FailsPlaced
  <2>2. ASSUME NEW s \in Sessions, NEW step \in {"recover", "transfer"},
               run' = [run EXCEPT !.session = s, !.step = step], view' = view
        PROVE  PlaceInv'
    <3>1. run'.from = run.from /\ run.from # "none" BY <1>0, <1>3, <2>2 DEF RunInv, PlaceInv, Upload!Initiate
    <3>. QED BY <2>2, <3>1, Placed
  <2>. QED BY <1>3, <2>1, <2>2 DEF Upload!Initiate
<1>4. CASE Upload!Recover /\ ~Upload!Loss
  BY <1>0, <1>4, ResumePlaced DEF Upload!Recover
<1>5. CASE Upload!ResumeSession /\ ~Upload!Loss
  BY <1>0, <1>5, ResumePlaced, FailsPlaced DEF Upload!ResumeSession
<1>6. CASE Upload!Check /\ ~Upload!Loss
  <2>1. CASE Upload!Fails("reselect") BY <2>1, FailsPlaced
  <2>2. CASE ~Upload!Fails("reselect")
    <3>1. PICK step \in Steps : Upload!Continue(step) /\ view' = view /\ run.step # "idle"
      BY <1>6, <2>2 DEF Upload!Check, Steps
    <3>. QED BY <1>0, <3>1, Continued
  <2>. QED BY <2>1, <2>2
<1>7. CASE Upload!Complete /\ ~Upload!Loss
  <2>1. CASE Upload!Fails("conflict") BY <2>1, FailsPlaced
  <2>2. CASE ~Upload!Fails("conflict")
    <3>1. Upload!Continue("wait") /\ view' = view /\ run.step # "idle"
      BY <1>7, <2>2 DEF Upload!Complete, Upload!page
    <3>. QED BY <1>0, <3>1, Continued DEF Steps
  <2>. QED BY <2>1, <2>2
<1>8. CASE Upload!Wait /\ ~Upload!Loss
  <2>1. CASE Upload!Fails("terminal") BY <2>1, FailsPlaced
  <2>2. CASE ~Upload!Fails("terminal")
    <3>1. run' = Upload!NoRun BY <1>8, <2>2 DEF Upload!Wait, Upload!Succeeds
    <3>. QED BY <3>1, Placed
  <2>. QED BY <2>1, <2>2
<1>9. CASE Upload!Transferred
  <2>1. Upload!Continue("complete") /\ run.step # "idle" /\ view' = view
    BY <1>9, LocalKept DEF Upload!Transferred
  <2>. QED BY <1>0, <2>1, Continued DEF Steps
<1>. QED BY <1>1, <1>2, <1>3, <1>4, <1>5, <1>6, <1>7, <1>8, <1>9

LEMMA WorkersPlaced ==
    ASSUME PlaceInv, NEW w, Upload!Take(w) \/ Upload!RefreshPartUrl(w) \/ Upload!UploadPart(w)
    PROVE  PlaceInv'
<1>1. CASE \E kind \in {"conflict", "network", "unauthorized", "refused"} : Upload!Fails(kind)
  BY <1>1, FailsPlaced
<1>2. CASE ~\E kind \in {"conflict", "network", "unauthorized", "refused"} : Upload!Fails(kind)
  <2>1. CASE Upload!Again(w) BY <2>1, Placed DEF Upload!Again, Upload!page
  <2>2. CASE run' = run /\ UNCHANGED Upload!Local BY <2>2, LocalKept, Placed
  <2>3. Upload!Again(w) \/ (run' = run /\ UNCHANGED Upload!Local)
    BY <1>2 DEF Upload!Take, Upload!RefreshPartUrl, Upload!UploadPart, Upload!Refused
  <2>. QED BY <2>1, <2>2, <2>3
<1>. QED BY <1>1, <1>2

LEMMA UploadStep == ASSUME UploadInv, PlaceInv, [Upload!Next]_uploadVars PROVE UploadInv' /\ PlaceInv'
<1>1. CASE UNCHANGED uploadVars
  <2>1. UNCHANGED <<row, keyOf, fileOf, stored, late, view, checking, file, key, session, listed, shown, run,
                    workers, next, urls, got, skip, release, canceled, keys>>
    BY <1>1 DEF uploadVars
  <2>2. RowsInv' /\ RowsMove /\ RowNames' = RowNames BY <2>1, NothingMoves DEF UploadInv
  <2>3. RunNames' = RunNames /\ LateNames' = LateNames /\ FormNames' = FormNames
    BY <2>1 DEF RunNames, LateNames, FormNames
  <2>4. KeysInv' /\ FormInv' /\ ReleaseInv' BY <2>1, <2>2, <2>3, NamesKept, FormKept, ReleaseKept DEF UploadInv
  <2>. QED BY <2>1, <2>2, <2>4, RunGoesOn
<1>2. ASSUME NEW s \in Sessions, Upload!Lapse(s) \/ Upload!Verified(s) \/ Upload!VerificationFails(s)
      PROVE  UploadInv' /\ PlaceInv'
  <2>1. run' = run /\ view' = view
    BY <1>2 DEF Upload!Lapse, Upload!Verified, Upload!VerificationFails, Upload!Client, Upload!page
  <2>. QED BY <1>2, <2>1, LapseKeeps, Placed
<1>3. CASE Upload!Land
  <2>1. run' = run /\ view' = view BY <1>3 DEF Upload!Land, Upload!Client, Upload!page
  <2>. QED BY <1>3, <2>1, LandKeeps, Placed
<1>4. CASE \/ Upload!Identify \/ Upload!Initiate \/ Upload!Recover \/ Upload!ResumeSession \/ Upload!Check
           \/ Upload!Complete \/ Upload!Wait \/ Upload!Transferred
  <2>1. UploadInv'
    BY <1>4, IdentifyKeeps, InitiateKeeps, RecoverKeeps, ResumeSessionKeeps, CheckKeeps, CompleteKeeps,
       WaitKeeps, TransferredKeeps
  <2>. QED BY <1>4, <2>1, RunPlaced
<1>5. ASSUME NEW w \in Workers, Upload!Take(w) \/ Upload!RefreshPartUrl(w) \/ Upload!UploadPart(w)
      PROVE  UploadInv' /\ PlaceInv'
  BY <1>5, TakeKeeps, RefreshPartUrlKeeps, UploadPartKeeps, WorkersPlaced
<1>6. CASE Upload!Discover BY <1>6, DiscoverKeeps
<1>7. CASE Upload!CheckAgain BY <1>7, CheckAgainKeeps
<1>8. CASE Upload!ReloadPage BY <1>8, ReloadPageKeeps
<1>9. CASE Upload!Released BY <1>9, ReleasedKeeps
<1>10. CASE (\E f \in Files : Upload!ChooseFile(f)) \/ Upload!ChooseSport \/ Upload!DismissDuplicate
  BY <1>10, FormActions
<1>11. ASSUME NEW f \in Files \union {None}, Upload!ResumeUpload(f) PROVE UploadInv' /\ PlaceInv'
  BY <1>11, ResumeUploadKeeps
<1>12. CASE Upload!Submit \/ Upload!AnalyzeAgain BY <1>12, SubmitKeeps
<1>13. CASE Upload!Reset BY <1>13, ResetKeeps
<1>14. CASE Upload!CancelUpload BY <1>14, CancelUploadKeeps
<1>. QED BY <1>1, <1>2, <1>3, <1>4, <1>5, <1>6, <1>7, <1>8, <1>9, <1>10, <1>11, <1>12, <1>13, <1>14
     DEF Upload!Next

LEMMA UploadHonest == ASSUME UploadInv PROVE Upload!UploadPageHonest
<1>1. Upload!TypeOK
  BY UploadGiven
  DEF UploadInv, RowsInv, FormInv, ShownInv, RunInv, TransferInv, Statuses, Upload!TypeOK
<1>2. Upload!ReceiptsAreBacked BY DEF UploadInv, TransferInv, Sending, Upload!ReceiptsAreBacked
<1>. QED BY <1>1, <1>2 DEF UploadInv, RowsInv, RunInv, Upload!UploadPageHonest

\* For any sessions, parts, files and workers: whatever is lost, retried,
\* reloaded or canceled in whatever order, and whenever an abandoned request is
\* served, one whole file goes to verification, receipts are of stored parts,
\* only the user destroys a session and a run stays with its own
\* (analyses.ts, upload-dropzone.tsx, upload-recovery-workspace.tsx).
THEOREM UploadPageTheorem == Spec => []UploadPageHonest
<1>. DEFINE Inv == UploadInv /\ PlaceInv
<1>1. Init => Inv BY UploadInit DEF Init
<1>2. Inv /\ [Next]_vars => Inv'
  <2>. SUFFICES ASSUME Inv, [Next]_vars PROVE Inv' OBVIOUS
  <2>1. [Upload!Next]_uploadVars BY DEF Next, vars
  <2>. QED BY <2>1, UploadStep
<1>3. Inv => UploadPageHonest BY UploadHonest DEF UploadPageHonest
<1>. QED BY <1>1, <1>2, <1>3, PTL DEF Spec
=============================================================================
