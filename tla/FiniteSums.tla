------------------------------ MODULE FiniteSums ------------------------------
(***************************************************************************)
(* What the proofs of several components need of finite sets: counting     *)
(* their parts, their least, greatest and n-th elements, and sums of       *)
(* values over them.                                                       *)
(***************************************************************************)
EXTENDS Integers, FiniteSets, FiniteSetTheorems, FunctionTheorems, TLAPS

-----------------------------------------------------------------------------
(* Counting.                                                                *)

\* Two parts of a finite set that have nothing in common add up.
LEMMA PartsAddUp ==
    ASSUME NEW S, NEW T, NEW U, IsFiniteSet(U), S \union T = U, S \intersect T = {}
    PROVE  /\ Cardinality(S) + Cardinality(T) = Cardinality(U)
           /\ IsFiniteSet(S) /\ IsFiniteSet(T)
           /\ Cardinality(S) \in Nat /\ Cardinality(T) \in Nat /\ Cardinality(U) \in Nat
<1>1. IsFiniteSet(S) /\ IsFiniteSet(T) BY FS_Subset
<1>2. Cardinality(S \intersect T) = 0 BY FS_EmptySet
<1>3. Cardinality(S) \in Nat /\ Cardinality(T) \in Nat /\ Cardinality(U) \in Nat
  BY <1>1, FS_CardinalityType
<1>. QED BY <1>1, <1>2, <1>3, FS_Union

LEMMA ApartAddUp ==
    ASSUME NEW S, NEW T, IsFiniteSet(S \union T), S \intersect T = {}
    PROVE  /\ Cardinality(S \union T) = Cardinality(S) + Cardinality(T)
           /\ IsFiniteSet(S) /\ IsFiniteSet(T)
           /\ Cardinality(S) \in Nat /\ Cardinality(T) \in Nat /\ Cardinality(S \union T) \in Nat
BY PartsAddUp

LEMMA PartIsSmaller ==
    ASSUME NEW U, IsFiniteSet(U), NEW S \in SUBSET U
    PROVE  Cardinality(S) <= Cardinality(U) /\ Cardinality(S) \in Nat /\ Cardinality(U) \in Nat
BY FS_Subset, FS_CardinalityType

LEMMA ProperPart ==
    ASSUME NEW U, IsFiniteSet(U), NEW S \in SUBSET U, S # U
    PROVE  Cardinality(S) < Cardinality(U)
<1>1. PICK x \in U : x \notin S OBVIOUS
<1>2. IsFiniteSet(U \ {x}) /\ Cardinality(U \ {x}) = Cardinality(U) - 1 BY FS_RemoveElement
<1>3. S \in SUBSET (U \ {x}) BY <1>1
<1>4. Cardinality(S) <= Cardinality(U \ {x}) /\ IsFiniteSet(S) BY <1>2, <1>3, FS_Subset
<1>5. Cardinality(S) \in Nat /\ Cardinality(U) \in Nat BY <1>4, FS_CardinalityType
<1>. QED BY <1>2, <1>4, <1>5

LEMMA TogetherAtMost ==
    ASSUME NEW S, NEW T, IsFiniteSet(S), IsFiniteSet(T)
    PROVE  IsFiniteSet(S \union T) /\ Cardinality(S \union T) <= Cardinality(S) + Cardinality(T)
<1>1. IsFiniteSet(S \intersect T) BY FS_Subset
<1>2. /\ Cardinality(S) \in Nat /\ Cardinality(T) \in Nat /\ Cardinality(S \intersect T) \in Nat
  BY <1>1, FS_CardinalityType
<1>3. /\ IsFiniteSet(S \union T)
      /\ Cardinality(S \union T) = Cardinality(S) + Cardinality(T) - Cardinality(S \intersect T)
  BY FS_Union
<1>. QED BY <1>2, <1>3

LEMMA UpTo == ASSUME NEW n \in Nat PROVE IsFiniteSet(1 .. n) /\ Cardinality(1 .. n) = n
<1>1. IsFiniteSet(1 .. n) /\ Cardinality(1 .. n) = IF 1 > n THEN 0 ELSE n - 1 + 1 BY FS_Interval
<1>. QED BY <1>1

\* A nonempty finite set of numbers has a least and a greatest member.
LEMMA ExtremesExist ==
    ASSUME NEW S \in SUBSET Nat, IsFiniteSet(S), S # {}
    PROVE  (\E x \in S : \A y \in S : x <= y) /\ (\E x \in S : \A y \in S : y <= x)
<1>. DEFINE Bounded(U) == (\E x \in U : \A y \in U : x <= y) /\ (\E x \in U : \A y \in U : y <= x)
            Unbounded == {U \in SUBSET S : U # {} /\ ~Bounded(U)}
<1>. SUFFICES ASSUME Unbounded # {} PROVE FALSE OBVIOUS
<1>1. PICK U \in Unbounded : \A V \in Unbounded : <<V, U>> \notin StrictSubsetOrdering(S)
  <2>1. IsWellFoundedOn(StrictSubsetOrdering(S), SUBSET S)
    BY FS_StrictSubsetOrderingWellFounded, FS_FiniteSubsetsOfFinite
  <2>2. Unbounded \subseteq SUBSET S OBVIOUS
  <2>. HIDE DEF Unbounded
  <2>. QED BY <2>1, <2>2, WFMin
<1>2. PICK x \in U : TRUE OBVIOUS
<1>3. U \ {x} # {} BY <1>2
<1>4. <<U \ {x}, U>> \in StrictSubsetOrdering(S) BY <1>2 DEF StrictSubsetOrdering
<1>5. Bounded(U \ {x}) BY <1>1, <1>3, <1>4
<1>6. x \in Nat /\ U \subseteq Nat BY <1>2
<1>7. \E m \in U : \A y \in U : m <= y
  <2>1. PICK m \in U \ {x} : \A y \in U \ {x} : m <= y BY <1>5
  <2>2. CASE m <= x BY <1>6, <2>1, <2>2
  <2>3. CASE ~(m <= x)
    <3>1. \A y \in U : x <= y BY <1>6, <2>1, <2>3
    <3>. QED BY <1>2, <3>1
  <2>. QED BY <2>2, <2>3
<1>8. \E m \in U : \A y \in U : y <= m
  <2>1. PICK m \in U \ {x} : \A y \in U \ {x} : y <= m BY <1>5
  <2>2. CASE x <= m BY <1>6, <2>1, <2>2
  <2>3. CASE ~(x <= m)
    <3>1. \A y \in U : y <= x BY <1>6, <2>1, <2>3
    <3>. QED BY <1>2, <3>1
  <2>. QED BY <2>2, <2>3
<1>. QED BY <1>7, <1>8

\* What holds at 0 and is kept by one more holds up to a bound.
LEMMA CountingUp ==
    ASSUME NEW n \in Nat, NEW S \in SUBSET (0 .. n), 0 \in S,
           \A k \in 1 .. n : k - 1 \in S => k \in S
    PROVE  S = 0 .. n
<1>. DEFINE Rest == (0 .. n) \ S
<1>. SUFFICES ASSUME Rest # {} PROVE FALSE OBVIOUS
<1>1. IsFiniteSet(Rest)
  <2>1. IsFiniteSet(0 .. n) BY FS_Interval
  <2>2. Rest \in SUBSET (0 .. n) OBVIOUS
  <2>. QED BY <2>1, <2>2, FS_Subset
<1>2. Rest \in SUBSET Nat OBVIOUS
<1>3. PICK k \in Rest : \A m \in Rest : k <= m BY <1>1, <1>2, ExtremesExist
<1>4. k \in 1 .. n /\ k - 1 \in 0 .. n OBVIOUS
<1>5. k - 1 \notin Rest BY <1>3, <1>4
<1>. QED BY <1>4, <1>5

-----------------------------------------------------------------------------
(* Sums.  MapThenSumSet adds one element after the other; what it returns is *)
(* the number of the units its values consist of, whatever the order.       *)

\* The units of the values that w has on S, and their number.
Units(w, S) == UNION {{x} \X (1 .. w[x]) : x \in S}
Total(w, S) == Cardinality(Units(w, S))

\* A unit is an element with the number of one of its units.
LEMMA UnitsAre ==
    ASSUME NEW w, NEW S, NEW u
    PROVE  u \in Units(w, S) <=> \E x \in S : \E k \in 1 .. w[x] : u = <<x, k>>
BY DEF Units

\* The sum of natural numbers over a finite set is a natural number.
LEMMA TotalFinite ==
    ASSUME NEW S, IsFiniteSet(S), NEW w, \A x \in S : w[x] \in Nat
    PROVE  IsFiniteSet(Units(w, S)) /\ Total(w, S) \in Nat
<1>. DEFINE rows == {{x} \X (1 .. w[x]) : x \in S}
<1>1. ASSUME NEW x \in S PROVE IsFiniteSet({x} \X (1 .. w[x]))
  <2>1. IsFiniteSet({x}) BY FS_Singleton
  <2>2. IsFiniteSet(1 .. w[x]) BY FS_Interval
  <2>. QED BY <2>1, <2>2, FS_Product
<1>2. IsFiniteSet(rows)
  <2>. DEFINE unitsOf == [x \in S |-> {x} \X (1 .. w[x])]
  <2>1. unitsOf \in Surjection(S, rows) BY DEF Surjection
  <2>. HIDE DEF unitsOf, rows
  <2>. QED BY <2>1, FS_Surjection
<1>3. \A r \in rows : IsFiniteSet(r) BY <1>1
<1>4. IsFiniteSet(UNION rows)
  <2>. HIDE DEF rows
  <2>. QED BY <1>2, <1>3, FS_UNION
<1>5. IsFiniteSet(Units(w, S)) BY <1>4 DEF Units
<1>. QED BY <1>5, FS_CardinalityType DEF Total

\* Nothing sums to nothing, one element to its value.
LEMMA TotalEmpty == ASSUME NEW w PROVE Total(w, {}) = 0
<1>1. Units(w, {}) = {} BY DEF Units
<1>. QED BY <1>1, FS_EmptySet DEF Total

LEMMA TotalOne ==
    ASSUME NEW x, NEW w, w[x] \in Nat
    PROVE  Total(w, {x}) = w[x]
<1>1. Units(w, {x}) = {x} \X (1 .. w[x]) BY DEF Units
<1>2. IsFiniteSet({x}) /\ Cardinality({x}) = 1 BY FS_Singleton
<1>3. IsFiniteSet(1 .. w[x]) /\ Cardinality(1 .. w[x]) = w[x] BY FS_Interval
<1>4. Cardinality({x} \X (1 .. w[x])) = 1 * w[x]
  <2>. DEFINE T == 1 .. w[x]
  <2>1. IsFiniteSet(T) /\ Cardinality(T) = w[x] BY <1>3
  <2>. HIDE DEF T
  <2>2. Cardinality({x} \X T) = Cardinality({x}) * Cardinality(T) BY <1>2, <2>1, FS_Product
  <2>3. Cardinality({x} \X T) = 1 * w[x] BY <1>2, <2>1, <2>2
  <2>. QED BY <2>3 DEF T
<1>5. 1 * w[x] = w[x] OBVIOUS
<1>. QED BY <1>1, <1>4, <1>5 DEF Total

\* A sum over two parts that have nothing in common.
LEMMA TotalSplit ==
    ASSUME NEW S, NEW T, IsFiniteSet(S), IsFiniteSet(T), S \intersect T = {},
           NEW w, \A x \in S \union T : w[x] \in Nat
    PROVE  /\ Total(w, S \union T) = Total(w, S) + Total(w, T)
           /\ Total(w, S) \in Nat /\ Total(w, T) \in Nat /\ Total(w, S \union T) \in Nat
<1>1. Units(w, S \union T) = Units(w, S) \union Units(w, T)
  <2>1. ASSUME NEW u PROVE u \in Units(w, S \union T) <=> u \in Units(w, S) \union Units(w, T)
    BY UnitsAre
  <2>. QED BY <2>1
<1>2. Units(w, S) \intersect Units(w, T) = {} BY UnitsAre
<1>3. /\ IsFiniteSet(Units(w, S)) /\ IsFiniteSet(Units(w, T))
      /\ Total(w, S) \in Nat /\ Total(w, T) \in Nat
  BY TotalFinite
<1>4. Cardinality(Units(w, S) \intersect Units(w, T)) = 0 BY <1>2, FS_EmptySet
<1>5. Cardinality(Units(w, S) \union Units(w, T)) = Cardinality(Units(w, S)) + Cardinality(Units(w, T)) - 0
  BY <1>3, <1>4, FS_Union
<1>6. Total(w, S \union T) = Total(w, S) + Total(w, T) - 0 BY <1>1, <1>5 DEF Total
<1>. QED BY <1>3, <1>6

\* The sum of a part and of the rest.
LEMMA TotalPart ==
    ASSUME NEW S, IsFiniteSet(S), NEW T \in SUBSET S, NEW w, \A x \in S : w[x] \in Nat
    PROVE  /\ Total(w, S) = Total(w, T) + Total(w, S \ T)
           /\ Total(w, T) \in Nat /\ Total(w, S \ T) \in Nat /\ Total(w, S) \in Nat
           /\ Total(w, T) <= Total(w, S)
<1>1. IsFiniteSet(T) /\ IsFiniteSet(S \ T) BY FS_Subset
<1>2. T \union (S \ T) = S /\ T \intersect (S \ T) = {} OBVIOUS
<1>3. /\ Total(w, T \union (S \ T)) = Total(w, T) + Total(w, S \ T)
      /\ Total(w, T) \in Nat /\ Total(w, S \ T) \in Nat
  BY <1>1, <1>2, TotalSplit
<1>4. Total(w, S) = Total(w, T) + Total(w, S \ T) BY <1>2, <1>3
<1>. QED BY <1>3, <1>4

\* The sum with one element taken out.
LEMMA TotalStep ==
    ASSUME NEW S, IsFiniteSet(S), NEW x \in S, NEW w, \A y \in S : w[y] \in Nat
    PROVE  Total(w, S) = w[x] + Total(w, S \ {x})
<1>1. Total(w, {x}) = w[x] BY TotalOne
<1>2. {x} \in SUBSET S OBVIOUS
<1>3. Total(w, S) = Total(w, {x}) + Total(w, S \ {x}) BY <1>2, TotalPart
<1>. QED BY <1>1, <1>3

\* No value is more than the sum.
LEMMA TotalMember ==
    ASSUME NEW S, IsFiniteSet(S), NEW x \in S, NEW w, \A y \in S : w[y] \in Nat
    PROVE  w[x] <= Total(w, S) /\ Total(w, S) \in Nat
<1>1. Total(w, {x}) = w[x] BY TotalOne
<1>2. {x} \in SUBSET S OBVIOUS
<1>3. Total(w, {x}) <= Total(w, S) /\ Total(w, S) \in Nat BY <1>2, TotalPart
<1>. QED BY <1>1, <1>3

\* No more than the number of elements times a bound of their values.
LEMMA TotalBound ==
    ASSUME NEW S, IsFiniteSet(S), NEW m \in Nat, NEW w, \A x \in S : w[x] \in 0 .. m
    PROVE  Total(w, S) <= Cardinality(S) * m /\ Cardinality(S) \in Nat /\ Total(w, S) \in Nat
<1>1. IsFiniteSet(1 .. m) /\ Cardinality(1 .. m) = m BY FS_Interval
<1>2. IsFiniteSet(S \X (1 .. m)) /\ Cardinality(S \X (1 .. m)) = Cardinality(S) * m
  BY <1>1, FS_Product
<1>3. Units(w, S) \in SUBSET (S \X (1 .. m))
  <2>1. ASSUME NEW u \in Units(w, S) PROVE u \in S \X (1 .. m)
    <3>0. PICK x \in S : \E k \in 1 .. w[x] : u = <<x, k>> BY UnitsAre
    <3>1. PICK k \in 1 .. w[x] : u = <<x, k>> BY <3>0
    <3>2. w[x] \in 0 .. m OBVIOUS
    <3>3. k \in 1 .. m BY <3>2
    <3>. QED BY <3>1, <3>3
  <2>. QED BY <2>1
<1>4. Total(w, S) \in Nat BY TotalFinite
<1>5. Cardinality(S) \in Nat BY FS_CardinalityType
<1>. QED BY <1>2, <1>3, <1>4, <1>5, FS_Subset DEF Total

\* The sum is of the values on the set alone.
LEMMA TotalsAgree ==
    ASSUME NEW S, NEW v, NEW w, \A x \in S : v[x] = w[x]
    PROVE  Total(v, S) = Total(w, S)
<1>1. \A u : u \in Units(v, S) <=> u \in Units(w, S) BY UnitsAre
<1>. QED BY <1>1 DEF Total

\* Values that are nowhere greater have no greater sum.
LEMMA TotalMonotone ==
    ASSUME NEW S, IsFiniteSet(S), NEW v, NEW w,
           \A x \in S : v[x] \in Nat /\ w[x] \in Nat /\ v[x] <= w[x]
    PROVE  Total(v, S) <= Total(w, S)
<1>1. Units(v, S) \in SUBSET Units(w, S)
  <2>1. ASSUME NEW u \in Units(v, S) PROVE u \in Units(w, S)
    <3>0. PICK x \in S : \E k \in 1 .. v[x] : u = <<x, k>> BY UnitsAre
    <3>1. PICK k \in 1 .. v[x] : u = <<x, k>> BY <3>0
    <3>2. k \in 1 .. w[x] OBVIOUS
    <3>. QED BY <3>1, <3>2, UnitsAre
  <2>. QED BY <2>1
<1>2. IsFiniteSet(Units(w, S)) BY TotalFinite
<1>. QED BY <1>1, <1>2, FS_Subset DEF Total

\* The sum of the values of w on S, one element after the other.
SumOf(w, S) ==
    LET sum[T \in SUBSET S] ==
            IF T = {} THEN 0 ELSE LET x == CHOOSE y \in T : TRUE IN w[x] + sum[T \ {x}]
    IN  sum[S]

\* v is zero for nothing, and every element adds its value.
Adds(v, w, S) == v[{}] = 0 /\ \A T \in SUBSET S : \A x \in T : v[T] = w[x] + v[T \ {x}]

\* Added one after the other, the values make what v says.
LEMMA SumIs ==
    ASSUME NEW S, IsFiniteSet(S), NEW w, NEW v, Adds(v, w, S)
    PROVE  SumOf(w, S) = v[S]
<1>. USE DEF Adds
<1>. DEFINE Summed(f) == [T \in SUBSET S |->
                IF T = {} THEN 0 ELSE LET x == CHOOSE y \in T : TRUE IN w[x] + f[T \ {x}]]
            sum == CHOOSE f : f = Summed(f)
            total == [T \in SUBSET S |-> v[T]]
            Other == {T \in SUBSET S : sum[T] # v[T]}
<1>1. SumOf(w, S) = sum[S] BY DEF SumOf
<1>2. ASSUME NEW T \in SUBSET S, T # {}
      PROVE  LET x == CHOOSE y \in T : TRUE IN v[T] = w[x] + v[T \ {x}]
  <2>. DEFINE x == CHOOSE y \in T : TRUE
  <2>1. x \in T BY <1>2
  <2>. HIDE DEF x
  <2>2. v[T] = w[x] + v[T \ {x}] BY <2>1
  <2>. QED BY <2>2 DEF x
<1>3. total = Summed(total)
  <2>2. \A T \in SUBSET S : total[T] = Summed(total)[T]
    <3>1. \A T \in SUBSET S : \A x : T \ {x} \in SUBSET S OBVIOUS
    <3>. QED BY <1>2, <3>1
  <2>3. DOMAIN Summed(total) = SUBSET S /\ Summed(total) = [T \in SUBSET S |-> Summed(total)[T]] OBVIOUS
  <2>4. total = [T \in SUBSET S |-> total[T]] OBVIOUS
  <2>. HIDE DEF total, Summed
  <2>. QED BY <2>2, <2>3, <2>4
<1>4. sum = Summed(sum)
  <2>. HIDE DEF total, Summed
  <2>. QED BY <1>3
<1>5. ASSUME NEW T \in SUBSET S
      PROVE  sum[T] = IF T = {} THEN 0 ELSE LET x == CHOOSE y \in T : TRUE IN w[x] + sum[T \ {x}]
  <2>. DEFINE r == IF T = {} THEN 0 ELSE LET x == CHOOSE y \in T : TRUE IN w[x] + sum[T \ {x}]
  <2>1. Summed(sum)[T] = r
    <3>. HIDE DEF sum
    <3>. QED OBVIOUS
  <2>2. sum[T] = r
    <3>. HIDE DEF sum, Summed, r
    <3>. QED BY <1>4, <2>1
  <2>. QED BY <2>2
<1>. HIDE DEF sum
<1>6. Other = {}
  <2>. SUFFICES ASSUME Other # {} PROVE FALSE OBVIOUS
  <2>1. PICK T \in Other : \A U \in Other : <<U, T>> \notin StrictSubsetOrdering(S)
    <3>1. IsWellFoundedOn(StrictSubsetOrdering(S), SUBSET S)
      BY FS_StrictSubsetOrderingWellFounded, FS_FiniteSubsetsOfFinite
    <3>2. Other \subseteq SUBSET S OBVIOUS
    <3>. HIDE DEF Other
    <3>. QED BY <3>1, <3>2, WFMin
  <2>2. T \in SUBSET S /\ T # {} BY <1>5
  <2>. DEFINE x == CHOOSE y \in T : TRUE
  <2>3. x \in T BY <2>2
  <2>4. sum[T] = w[x] + sum[T \ {x}] BY <1>5, <2>2
  <2>5. v[T] = w[x] + v[T \ {x}] BY <1>2, <2>2
  <2>. HIDE DEF x
  <2>6. <<T \ {x}, T>> \in StrictSubsetOrdering(S) BY <2>2, <2>3 DEF StrictSubsetOrdering
  <2>7. sum[T \ {x}] = v[T \ {x}] BY <2>1, <2>2, <2>6
  <2>. QED BY <2>1, <2>4, <2>5, <2>7
<1>7. sum[S] = v[S] BY <1>6
<1>. QED BY <1>1, <1>7

\* Natural numbers added one after the other make their total.
LEMMA SumIsTotal ==
    ASSUME NEW S, IsFiniteSet(S), NEW w, \A x \in S : w[x] \in Nat
    PROVE  SumOf(w, S) = Total(w, S)
<1>. DEFINE v == [T \in SUBSET S |-> Total(w, T)]
<1>1. v[{}] = 0 BY TotalEmpty
<1>2. ASSUME NEW T \in SUBSET S, NEW x \in T PROVE v[T] = w[x] + v[T \ {x}]
  <2>1. IsFiniteSet(T) /\ \A y \in T : w[y] \in Nat BY FS_Subset
  <2>2. Total(w, T) = w[x] + Total(w, T \ {x}) BY <2>1, TotalStep
  <2>. QED BY <2>2
<1>3. v[S] = Total(w, S) OBVIOUS
<1>. HIDE DEF v
<1>4. \A T \in SUBSET S : \A x \in T : v[T] = w[x] + v[T \ {x}] BY <1>2
<1>5. SumOf(w, S) = v[S]
  <2>1. Adds(v, w, S) BY <1>1, <1>4 DEF Adds
  <2>. QED BY <2>1, SumIs
<1>. QED BY <1>3, <1>5

\* A sum of integers is what its positive values exceed its negative ones by.
LEMMA SumIsInt ==
    ASSUME NEW S, IsFiniteSet(S), NEW w, \A x \in S : w[x] \in Int
    PROVE  SumOf(w, S) \in Int
<1>. DEFINE up == [x \in S |-> IF w[x] >= 0 THEN w[x] ELSE 0]
            down == [x \in S |-> IF w[x] >= 0 THEN 0 ELSE -w[x]]
            v == [T \in SUBSET S |-> Total(up, T) - Total(down, T)]
<1>1. \A x \in S : up[x] \in Nat /\ down[x] \in Nat /\ w[x] = up[x] - down[x] OBVIOUS
<1>. HIDE DEF up, down
<1>2. v[{}] = 0 BY TotalEmpty
<1>3. ASSUME NEW T \in SUBSET S, NEW x \in T PROVE v[T] = w[x] + v[T \ {x}]
  <2>1. IsFiniteSet(T) /\ IsFiniteSet(T \ {x}) /\ \A y \in T : up[y] \in Nat /\ down[y] \in Nat
    BY <1>1, FS_Subset
  <2>2. Total(up, T) = up[x] + Total(up, T \ {x}) BY <2>1, TotalStep
  <2>3. Total(down, T) = down[x] + Total(down, T \ {x}) BY <2>1, TotalStep
  <2>4. Total(up, T \ {x}) \in Nat /\ Total(down, T \ {x}) \in Nat BY <2>1, TotalFinite
  <2>5. v[T] = Total(up, T) - Total(down, T) /\ v[T \ {x}] = Total(up, T \ {x}) - Total(down, T \ {x})
    OBVIOUS
  <2>6. up[x] \in Nat /\ down[x] \in Nat /\ w[x] = up[x] - down[x] BY <1>1
  <2>. HIDE DEF v
  <2>. QED BY <2>2, <2>3, <2>4, <2>5, <2>6
<1>4. v[S] \in Int BY <1>1, TotalFinite
<1>. HIDE DEF v
<1>5. \A T \in SUBSET S : \A x \in T : v[T] = w[x] + v[T \ {x}] BY <1>3
<1>6. SumOf(w, S) = v[S]
  <2>1. Adds(v, w, S) BY <1>2, <1>5 DEF Adds
  <2>. QED BY <2>1, SumIs
<1>. QED BY <1>4, <1>6

\* One value, as often as there are elements.
LEMMA SumOfOne ==
    ASSUME NEW S, IsFiniteSet(S), NEW w, NEW c \in Int, \A x \in S : w[x] = c
    PROVE  SumOf(w, S) = c * Cardinality(S)
<1>. DEFINE v == [T \in SUBSET S |-> c * Cardinality(T)]
<1>1. v[{}] = 0
  <2>1. Cardinality({}) = 0 BY FS_EmptySet
  <2>. QED BY <2>1
<1>2. ASSUME NEW T \in SUBSET S, NEW x \in T PROVE v[T] = w[x] + v[T \ {x}]
  <2>1. IsFiniteSet(T) BY FS_Subset
  <2>2. Cardinality(T \ {x}) = Cardinality(T) - 1 /\ Cardinality(T) \in Nat
    BY <2>1, FS_RemoveElement, FS_CardinalityType
  <2>3. v[T] = c * Cardinality(T) /\ v[T \ {x}] = c * Cardinality(T \ {x}) /\ w[x] = c OBVIOUS
  <2>. HIDE DEF v
  <2>4. c * Cardinality(T) = c + c * (Cardinality(T) - 1) BY <2>2
  <2>. QED BY <2>2, <2>3, <2>4
<1>3. v[S] = c * Cardinality(S) OBVIOUS
<1>. HIDE DEF v
<1>4. \A T \in SUBSET S : \A x \in T : v[T] = w[x] + v[T \ {x}] BY <1>2
<1>5. SumOf(w, S) = v[S]
  <2>1. Adds(v, w, S) BY <1>1, <1>4 DEF Adds
  <2>. QED BY <2>1, SumIs
<1>. QED BY <1>3, <1>5

\* A constant multiple and a sum of values, element by element.
LEMMA TotalScale ==
    ASSUME NEW S, IsFiniteSet(S), NEW c \in Nat, NEW v, NEW w,
           \A x \in S : v[x] = c * w[x] /\ w[x] \in Nat
    PROVE  Total(v, S) = c * Total(w, S) /\ Total(v, S) \in Nat /\ Total(w, S) \in Nat
<1>. DEFINE scaled == [T \in SUBSET S |-> c * Total(w, T)]
<1>1. scaled[{}] = 0 BY TotalEmpty
<1>2. ASSUME NEW T \in SUBSET S, NEW x \in T PROVE scaled[T] = v[x] + scaled[T \ {x}]
  <2>1. IsFiniteSet(T) /\ IsFiniteSet(T \ {x}) /\ \A y \in T : w[y] \in Nat BY FS_Subset
  <2>2. Total(w, T) = w[x] + Total(w, T \ {x}) BY <2>1, TotalStep
  <2>3. Total(w, T \ {x}) \in Nat /\ w[x] \in Nat BY <2>1, TotalFinite
  <2>4. c * (w[x] + Total(w, T \ {x})) = c * w[x] + c * Total(w, T \ {x}) BY <2>3
  <2>. QED BY <2>2, <2>4
<1>3. scaled[S] = c * Total(w, S) OBVIOUS
<1>. HIDE DEF scaled
<1>4. Adds(scaled, v, S)
  <2>1. \A T \in SUBSET S : \A x \in T : scaled[T] = v[x] + scaled[T \ {x}] BY <1>2
  <2>. QED BY <1>1, <2>1 DEF Adds
<1>5. SumOf(v, S) = scaled[S] BY <1>4, SumIs
<1>6. \A x \in S : v[x] \in Nat
  <2>1. ASSUME NEW x \in S PROVE v[x] \in Nat
    <3>1. v[x] = c * w[x] /\ w[x] \in Nat OBVIOUS
    <3>2. c * w[x] \in Nat BY <3>1
    <3>. QED BY <3>1, <3>2
  <2>. QED BY <2>1
<1>7. SumOf(v, S) = Total(v, S) BY <1>6, SumIsTotal
<1>. QED BY <1>3, <1>5, <1>6, <1>7, TotalFinite

LEMMA TotalAdd ==
    ASSUME NEW S, IsFiniteSet(S), NEW u, NEW v, NEW w,
           \A x \in S : u[x] = v[x] + w[x] /\ v[x] \in Nat /\ w[x] \in Nat
    PROVE  /\ Total(u, S) = Total(v, S) + Total(w, S)
           /\ Total(u, S) \in Nat /\ Total(v, S) \in Nat /\ Total(w, S) \in Nat
<1>. DEFINE both == [T \in SUBSET S |-> Total(v, T) + Total(w, T)]
<1>1. both[{}] = 0 BY TotalEmpty
<1>2. ASSUME NEW T \in SUBSET S, NEW x \in T PROVE both[T] = u[x] + both[T \ {x}]
  <2>1. IsFiniteSet(T) /\ IsFiniteSet(T \ {x}) /\ \A y \in T : v[y] \in Nat /\ w[y] \in Nat BY FS_Subset
  <2>2. Total(v, T) = v[x] + Total(v, T \ {x}) /\ Total(w, T) = w[x] + Total(w, T \ {x})
    BY <2>1, TotalStep
  <2>3. Total(v, T \ {x}) \in Nat /\ Total(w, T \ {x}) \in Nat /\ v[x] \in Nat /\ w[x] \in Nat
    BY <2>1, TotalFinite
  <2>. QED BY <2>2, <2>3
<1>3. both[S] = Total(v, S) + Total(w, S) OBVIOUS
<1>. HIDE DEF both
<1>4. Adds(both, u, S)
  <2>1. \A T \in SUBSET S : \A x \in T : both[T] = u[x] + both[T \ {x}] BY <1>2
  <2>. QED BY <1>1, <2>1 DEF Adds
<1>5. SumOf(u, S) = both[S] BY <1>4, SumIs
<1>6. \A x \in S : u[x] \in Nat OBVIOUS
<1>7. SumOf(u, S) = Total(u, S) BY <1>6, SumIsTotal
<1>. QED BY <1>3, <1>5, <1>6, <1>7, TotalFinite

\* Values that are smaller everywhere have a smaller sum.
LEMMA TotalStrict ==
    ASSUME NEW S, IsFiniteSet(S), S # {}, NEW v, NEW w,
           \A x \in S : v[x] \in Nat /\ w[x] \in Nat /\ v[x] < w[x]
    PROVE  Total(v, S) < Total(w, S)
<1>. DEFINE d == [x \in S |-> w[x] - v[x]]
<1>1. \A x \in S : d[x] \in Nat /\ d[x] > 0 /\ w[x] = v[x] + d[x] OBVIOUS
<1>. HIDE DEF d
<1>2. PICK x \in S : TRUE OBVIOUS
<1>3. Total(w, S) = Total(v, S) + Total(d, S) /\ Total(v, S) \in Nat /\ Total(d, S) \in Nat
  BY <1>1, TotalAdd
<1>4. d[x] <= Total(d, S) BY <1>1, TotalMember
<1>5. d[x] \in Nat /\ d[x] > 0 BY <1>1
<1>. QED BY <1>3, <1>4, <1>5

\* If q is nowhere on R more, per unit of t, than anywhere on S, neither is its sum.
LEMMA TotalRates ==
    ASSUME NEW S, IsFiniteSet(S), NEW R, IsFiniteSet(R), NEW q, NEW t,
           \A x \in S \union R : q[x] \in Nat /\ t[x] \in Nat,
           \A a \in S, b \in R : q[b] * t[a] <= q[a] * t[b]
    PROVE  Total(q, R) * Total(t, S) <= Total(q, S) * Total(t, R)
<1>. DEFINE qS == Total(q, S)
            tS == Total(t, S)
            qR == Total(q, R)
            tR == Total(t, R)
<1>1. qS \in Nat /\ tS \in Nat /\ qR \in Nat /\ tR \in Nat BY TotalFinite
<1>2. ASSUME NEW b \in R PROVE tS * q[b] <= qS * t[b] /\ tS * q[b] \in Nat /\ qS * t[b] \in Nat
  <2>. DEFINE c == q[b]
              d == t[b]
              l == [a \in S |-> c * t[a]]
              m == [a \in S |-> d * q[a]]
  <2>1. c \in Nat /\ d \in Nat OBVIOUS
  <2>2. \A a \in S : t[a] \in Nat /\ q[a] \in Nat /\ c * t[a] <= q[a] * d OBVIOUS
  <2>. HIDE DEF c, d
  <2>3. \A a \in S : c * t[a] \in Nat /\ d * q[a] \in Nat /\ c * t[a] <= d * q[a] BY <2>1, <2>2
  <2>4. \A a \in S : /\ l[a] = c * t[a] /\ t[a] \in Nat /\ m[a] = d * q[a] /\ q[a] \in Nat
                     /\ l[a] \in Nat /\ m[a] \in Nat /\ l[a] <= m[a]
    BY <2>2, <2>3
  <2>. HIDE DEF l, m
  <2>5. /\ Total(l, S) = c * Total(t, S)
        /\ Total(m, S) = d * Total(q, S)
    <3>1. \A a \in S : l[a] = c * t[a] /\ t[a] \in Nat BY <2>4
    <3>2. Total(l, S) = c * Total(t, S) BY <2>1, <3>1, TotalScale
    <3>3. \A a \in S : m[a] = d * q[a] /\ q[a] \in Nat BY <2>4
    <3>4. Total(m, S) = d * Total(q, S) BY <2>1, <3>3, TotalScale
    <3>. QED BY <3>2, <3>4
  <2>6. Total(l, S) <= Total(m, S) BY <2>4, TotalMonotone
  <2>. HIDE DEF qS, tS
  <2>7. c * tS = tS * c /\ d * qS = qS * d /\ tS * c \in Nat /\ qS * d \in Nat BY <1>1, <2>1
  <2>8. Total(l, S) = c * tS /\ Total(m, S) = d * qS BY <2>5 DEF qS, tS
  <2>. QED BY <2>6, <2>7, <2>8 DEF c, d
<1>. DEFINE l == [b \in R |-> tS * q[b]]
            m == [b \in R |-> qS * t[b]]
<1>. HIDE DEF tS, qS
<1>3. \A b \in R : /\ l[b] = tS * q[b] /\ q[b] \in Nat /\ m[b] = qS * t[b] /\ t[b] \in Nat
                   /\ l[b] \in Nat /\ m[b] \in Nat /\ l[b] <= m[b]
  BY <1>2
<1>. HIDE DEF l, m
<1>4. Total(l, R) = tS * qR /\ Total(m, R) = qS * tR
  <2>1. \A b \in R : l[b] = tS * q[b] /\ q[b] \in Nat BY <1>3
  <2>2. Total(l, R) = tS * Total(q, R) BY <1>1, <2>1, TotalScale
  <2>3. \A b \in R : m[b] = qS * t[b] /\ t[b] \in Nat BY <1>3
  <2>4. Total(m, R) = qS * Total(t, R) BY <1>1, <2>3, TotalScale
  <2>. QED BY <2>2, <2>4
<1>5. Total(l, R) <= Total(m, R) BY <1>3, TotalMonotone
<1>6. tS * qR = qR * tS BY <1>1
<1>. HIDE DEF qR, tR
<1>7. qR * tS <= qS * tR BY <1>4, <1>5, <1>6 DEF qR, tR
<1>. QED BY <1>7 DEF qS, tS, qR, tR

-----------------------------------------------------------------------------
(* The first elements of an order.                                          *)

\* R puts the elements of S in an order.
Orders(R, S) == /\ \A a \in S : <<a, a>> \notin R
                /\ \A a, b, c \in S : <<a, b>> \in R /\ <<b, c>> \in R => <<a, c>> \in R
                /\ \A a, b \in S : a = b \/ <<a, b>> \in R \/ <<b, a>> \in R
Preceding(R, S, a) == {b \in S : <<b, a>> \in R}
Firsts(R, S, n) == {a \in S : Cardinality(Preceding(R, S, a)) < n}

\* The first n of S come before the others, and are n unless S has fewer: places
\* in the order are different, and below the number of elements.
LEMMA FirstsAre ==
    ASSUME NEW S, IsFiniteSet(S), NEW R, Orders(R, S), NEW n \in Nat
    PROVE  /\ Cardinality(S) \in Nat /\ IsFiniteSet(Firsts(R, S, n))
           /\ Cardinality(Firsts(R, S, n)) = IF n <= Cardinality(S) THEN n ELSE Cardinality(S)
           /\ \A a \in Firsts(R, S, n) : \A b \in S \ Firsts(R, S, n) : <<a, b>> \in R
<1>. USE DEF Orders, Preceding
<1>. DEFINE place == [a \in S |-> Cardinality(Preceding(R, S, a))]
            m == Cardinality(S)
            F == Firsts(R, S, n)
            Rest == S \ F
<1>1. m \in Nat BY FS_CardinalityType
<1>2. ASSUME NEW a \in S
      PROVE  IsFiniteSet(Preceding(R, S, a)) /\ place[a] \in 0 .. (m - 1)
  <2>1. Preceding(R, S, a) \in SUBSET (S \ {a}) OBVIOUS
  <2>2. IsFiniteSet(S \ {a}) /\ Cardinality(S \ {a}) = m - 1 BY FS_RemoveElement
  <2>. HIDE DEF Preceding
  <2>4. IsFiniteSet(Preceding(R, S, a)) /\ Cardinality(Preceding(R, S, a)) <= Cardinality(S \ {a})
    BY <2>1, <2>2, FS_Subset
  <2>5. Cardinality(Preceding(R, S, a)) \in Nat BY <2>4, FS_CardinalityType
  <2>3. /\ IsFiniteSet(Preceding(R, S, a))
        /\ Cardinality(Preceding(R, S, a)) <= m - 1 /\ Cardinality(Preceding(R, S, a)) \in Nat
    BY <2>2, <2>4, <2>5
  <2>. QED BY <1>1, <2>3
<1>3. ASSUME NEW a \in S, NEW b \in S, <<a, b>> \in R PROVE place[a] < place[b]
  <2>1. Preceding(R, S, a) \in SUBSET Preceding(R, S, b) BY <1>3
  <2>2. a \in Preceding(R, S, b) /\ a \notin Preceding(R, S, a) BY <1>3
  <2>3. Preceding(R, S, a) # Preceding(R, S, b) BY <2>2
  <2>. HIDE DEF Preceding
  <2>5. IsFiniteSet(Preceding(R, S, b)) BY <1>2
  <2>4. Cardinality(Preceding(R, S, a)) < Cardinality(Preceding(R, S, b)) BY <2>1, <2>3, <2>5, ProperPart
  <2>. QED BY <2>4
<1>4. \A a \in S : place[a] \in 0 .. (m - 1) BY <1>2
<1>5. F = {a \in S : place[a] < n} BY DEF Firsts
<1>. HIDE DEF place, F, m
<1>6. ASSUME NEW a \in F, NEW b \in Rest PROVE <<a, b>> \in R
  <2>1. a \in S /\ b \in S /\ place[a] < n /\ ~(place[b] < n) BY <1>5
  <2>2. place[a] \in Int /\ place[b] \in Int BY <1>1, <1>4, <2>1
  <2>3. ~(place[b] < place[a]) /\ a # b BY <2>1, <2>2
  <2>. QED BY <1>3, <2>1, <2>3
<1>7. ASSUME NEW a \in S, NEW b \in S, place[a] = place[b] PROVE a = b
  <2>1. place[a] \in Int /\ place[b] \in Int BY <1>1, <1>4
  <2>2. ~(place[a] < place[b]) /\ ~(place[b] < place[a]) BY <1>7, <2>1
  <2>. QED BY <1>3, <2>2
<1>8. ASSUME NEW T \in SUBSET S, NEW i \in Int, NEW j \in Int, \A a \in T : place[a] \in i .. j
      PROVE  /\ IsFiniteSet(T) /\ Cardinality(T) \in Nat
             /\ Cardinality(T) <= IF i > j THEN 0 ELSE j - i + 1
  <2>. DEFINE f == [a \in T |-> place[a]]
  <2>1. f \in [T -> i .. j] BY <1>8
  <2>2. \A a \in T : \A b \in T : f[a] = f[b] => a = b BY <1>7
  <2>. HIDE DEF f
  <2>3. f \in Injection(T, i .. j) BY <2>1, <2>2, Fun_IsInj
  <2>4. IsFiniteSet(i .. j) /\ Cardinality(i .. j) = IF i > j THEN 0 ELSE j - i + 1 BY FS_Interval
  <2>5. IsFiniteSet(T) /\ Cardinality(T) <= Cardinality(i .. j) BY <2>3, <2>4, FS_Injection
  <2>. QED BY <2>4, <2>5, FS_CardinalityType
<1>9. F \in SUBSET S /\ Rest \in SUBSET S /\ Rest \union F = S /\ Rest \intersect F = {} BY <1>5
<1>10. \A a \in F : place[a] \in 0 .. (n - 1) BY <1>1, <1>4, <1>5
<1>11. \A a \in Rest : place[a] \in n .. (m - 1) BY <1>1, <1>4, <1>5
<1>12. IsFiniteSet(F) /\ Cardinality(F) \in Nat /\ Cardinality(F) <= n BY <1>8, <1>9, <1>10
<1>13. Cardinality(Rest) \in Nat /\ Cardinality(Rest) <= IF n > m - 1 THEN 0 ELSE m - 1 - n + 1
    <2>1. n \in Int /\ m - 1 \in Int BY <1>1
  <2>. QED BY <1>8, <1>9, <1>11, <2>1
<1>14. Cardinality(Rest) + Cardinality(F) = m BY <1>9, PartsAddUp DEF m
<1>15. Cardinality(F) = IF n <= m THEN n ELSE m BY <1>1, <1>12, <1>13, <1>14
<1>. QED BY <1>1, <1>6, <1>12, <1>15 DEF F, m
===============================================================================
