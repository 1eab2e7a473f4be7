---- MODULE SumsProofs ----
(***************************************************************************)
(* Facts about totals.  The units of one summand form a copy of an         *)
(* interval, and changing one summand replaces that copy and leaves the    *)
(* units of the others alone.                                              *)
(***************************************************************************)
EXTENDS Sums, FiniteSetTheorems, TLAPS

\* The units of a single summand n are finite, and there are n of them.
LEMMA UnitsOfOne ==
  ASSUME NEW x, NEW n \in Nat
  PROVE  /\ IsFiniteSet({x} \X (1..n))
         /\ Cardinality({x} \X (1..n)) = n
<1>1. IsFiniteSet({x}) /\ Cardinality({x}) = 1
  BY FS_Singleton
<1>2. IsFiniteSet(1..n) /\ Cardinality(1..n) = n
  BY FS_Interval
<1>3. /\ IsFiniteSet({x} \X (1..n))
      /\ Cardinality({x} \X (1..n)) = Cardinality({x}) * Cardinality(1..n)
  BY <1>1, <1>2, FS_Product
<1> QED
  BY <1>1, <1>2, <1>3

\* Totals of natural numbers over a finite set count a finite set of units.
LEMMA UnitsFinite ==
  ASSUME NEW S, IsFiniteSet(S), NEW f, \A x \in S : f[x] \in Nat
  PROVE  IsFiniteSet(Units(S, f))
<1> DEFINE Parts == {{x} \X (1..f[x]) : x \in S}
           part == [x \in S |-> {x} \X (1..f[x])]
<1>1. IsFiniteSet(Parts)
  <2>1. part \in Surjection(S, Parts)
    BY DEF Surjection
  <2> QED
    BY <2>1, FS_Surjection
<1>2. ASSUME NEW T \in Parts PROVE IsFiniteSet(T)
  <2>1. PICK x \in S : T = {x} \X (1..f[x])
    OBVIOUS
  <2>2. f[x] \in Nat
    OBVIOUS
  <2> QED
    BY <2>1, <2>2, UnitsOfOne
<1> QED
  BY <1>1, <1>2, FS_UNION DEF Units

\* A total is a natural number.
LEMMA SumType ==
  ASSUME NEW S, IsFiniteSet(S), NEW f, \A x \in S : f[x] \in Nat
  PROVE  SumOver(S, f) \in Nat
BY UnitsFinite, FS_CardinalityType DEF SumOver

\* A total is one summand and the total of the others.
LEMMA SumSplit ==
  ASSUME NEW S, IsFiniteSet(S), NEW f, \A x \in S : f[x] \in Nat, NEW y \in S
  PROVE  SumOver(S, f) = f[y] + SumOver(S \ {y}, f)
<1> DEFINE One == {y} \X (1..f[y])
           Rest == Units(S \ {y}, f)
<1>1. Units(S, f) = One \cup Rest
  BY DEF Units
<1>2. One \cap Rest = {}
  BY DEF Units
<1>3. IsFiniteSet(One) /\ Cardinality(One) = f[y]
  BY UnitsOfOne
<1>4. IsFiniteSet(S \ {y})
  BY FS_RemoveElement
<1>5. IsFiniteSet(Rest) /\ Cardinality(Rest) \in Nat
  BY <1>4, UnitsFinite, FS_CardinalityType
<1>6. Cardinality(One \cup Rest) = Cardinality(One) + Cardinality(Rest) - Cardinality({})
  <2>1. Cardinality(One \cup Rest) = Cardinality(One) + Cardinality(Rest) - Cardinality(One \cap Rest)
    <3> HIDE DEF One, Rest
    <3> QED
      BY <1>3, <1>5, FS_Union
  <2> QED
    BY <1>2, <2>1
<1>7. Cardinality({}) = 0
  BY FS_EmptySet
<1> QED
  BY <1>1, <1>3, <1>5, <1>6, <1>7 DEF SumOver

\* Totals of functions that agree on S are equal.
LEMMA SumCongruence ==
  ASSUME NEW S, NEW f, NEW g, \A x \in S : f[x] = g[x]
  PROVE  SumOver(S, f) = SumOver(S, g)
<1>1. Units(S, f) = Units(S, g)
  BY DEF Units
<1> QED
  BY <1>1 DEF SumOver

\* Changing the summand of y changes the total by the same amount.
LEMMA SumUpdate ==
  ASSUME NEW S, IsFiniteSet(S), NEW y \in S, NEW f, NEW g,
         \A x \in S : f[x] \in Nat /\ g[x] \in Nat,
         \A x \in S \ {y} : f[x] = g[x]
  PROVE  SumOver(S, g) = SumOver(S, f) - f[y] + g[y]
<1>1. SumOver(S, f) = f[y] + SumOver(S \ {y}, f)
  BY SumSplit
<1>2. SumOver(S, g) = g[y] + SumOver(S \ {y}, g)
  BY SumSplit
<1>3. SumOver(S \ {y}, f) = SumOver(S \ {y}, g)
  BY SumCongruence
<1>4. IsFiniteSet(S \ {y})
  BY FS_RemoveElement
<1>5. SumOver(S \ {y}, f) \in Nat
  BY <1>4, SumType
<1> QED
  BY <1>1, <1>2, <1>3, <1>5

\* No summand exceeds the total.
LEMMA SumMember ==
  ASSUME NEW S, IsFiniteSet(S), NEW f, \A x \in S : f[x] \in Nat, NEW y \in S
  PROVE  f[y] <= SumOver(S, f)
<1>1. SumOver(S, f) = f[y] + SumOver(S \ {y}, f)
  BY SumSplit
<1>2. IsFiniteSet(S \ {y})
  BY FS_RemoveElement
<1>3. SumOver(S \ {y}, f) \in Nat
  BY <1>2, SumType
<1> QED
  BY <1>1, <1>3

\* Smaller summands make a smaller total.
LEMMA SumMonotone ==
  ASSUME NEW S, IsFiniteSet(S), NEW f, NEW g,
         \A x \in S : f[x] \in Nat /\ g[x] \in Nat /\ f[x] <= g[x]
  PROVE  SumOver(S, f) <= SumOver(S, g)
<1>1. \A x \in S : 1..f[x] \subseteq 1..g[x]
  OBVIOUS
<1>2. Units(S, f) \subseteq Units(S, g)
  BY <1>1 DEF Units
<1>3. IsFiniteSet(Units(S, g))
  BY UnitsFinite
<1> QED
  BY <1>2, <1>3, FS_Subset DEF SumOver

\* Clearing the summands of a set of equal ones takes them all off the total.
LEMMA SumCleared ==
  ASSUME NEW S, IsFiniteSet(S), NEW T \in SUBSET S, NEW n \in Nat, NEW f, NEW g,
         \A x \in S : f[x] \in Nat /\ g[x] \in Nat,
         \A x \in T : f[x] = n /\ g[x] = 0,
         \A x \in S \ T : f[x] = g[x]
  PROVE  SumOver(S, f) = SumOver(S, g) + n * Cardinality(T)
<1> DEFINE Cleared == T \X (1..n)
           Rest == Units(S, g)
<1>1. Units(S, f) = Cleared \cup Rest
  <2>1. ASSUME NEW u \in Units(S, f) PROVE u \in Cleared \cup Rest
    <3>1. PICK x \in S : u \in {x} \X (1..f[x])
      BY DEF Units
    <3>2. CASE x \in T
      BY <3>1, <3>2
    <3>3. CASE x \notin T
      BY <3>1, <3>3 DEF Units
    <3> QED BY <3>2, <3>3
  <2>2. ASSUME NEW u \in Cleared PROVE u \in Units(S, f)
    <3>1. PICK x \in T : u \in {x} \X (1..f[x])
      OBVIOUS
    <3> QED BY <3>1 DEF Units
  <2>3. ASSUME NEW u \in Rest PROVE u \in Units(S, f)
    <3>1. PICK x \in S : u \in {x} \X (1..g[x])
      BY DEF Units
    <3>2. x \notin T
      <4>1. SUFFICES ASSUME x \in T PROVE FALSE
        OBVIOUS
      <4>2. u[2] \in 1..0
        BY <3>1, <4>1
      <4> QED BY <4>2
    <3> QED BY <3>1, <3>2 DEF Units
  <2> QED BY <2>1, <2>2, <2>3
<1>2. Cleared \cap Rest = {}
  <2>1. SUFFICES ASSUME NEW u \in Cleared, u \in Rest PROVE FALSE
    OBVIOUS
  <2>2. PICK x \in S : u \in {x} \X (1..g[x])
    BY <2>1 DEF Units
  <2>3. x \in T
    BY <2>1, <2>2
  <2>4. u[2] \in 1..0
    BY <2>2, <2>3
  <2> QED BY <2>4
<1>3. IsFiniteSet(Cleared) /\ Cardinality(Cleared) = n * Cardinality(T) /\ Cardinality(T) \in Nat
  <2>1. IsFiniteSet(T) /\ Cardinality(T) \in Nat
    BY FS_Subset, FS_CardinalityType
  <2>2. IsFiniteSet(1..n) /\ Cardinality(1..n) = n
    BY FS_Interval
  <2>3. IsFiniteSet(Cleared) /\ Cardinality(Cleared) = Cardinality(T) * Cardinality(1..n)
    BY <2>1, <2>2, FS_Product
  <2> QED BY <2>1, <2>2, <2>3
<1>4. IsFiniteSet(Rest) /\ Cardinality(Rest) \in Nat
  BY UnitsFinite, FS_CardinalityType
<1>5. Cardinality(Cleared \cup Rest)
        = Cardinality(Cleared) + Cardinality(Rest) - Cardinality(Cleared \cap Rest)
  <2> HIDE DEF Cleared, Rest
  <2> QED BY <1>3, <1>4, FS_Union
<1>6. Cardinality(Cleared \cap Rest) = 0
  BY <1>2, FS_EmptySet
<1> HIDE DEF Cleared, Rest
<1>7. Cardinality(Cleared) \in Nat
  BY <1>3, FS_CardinalityType
<1>8. Cardinality(Units(S, f)) = Cardinality(Rest) + Cardinality(Cleared)
  BY <1>1, <1>4, <1>5, <1>6, <1>7
<1> QED BY <1>3, <1>8 DEF SumOver, Rest

\* A total of zeros is zero.
LEMMA SumZero ==
  ASSUME NEW S, NEW f, \A x \in S : f[x] = 0
  PROVE  SumOver(S, f) = 0
<1>1. Units(S, f) = {}
  BY DEF Units
<1> QED
  BY <1>1, FS_EmptySet DEF SumOver

====
