----------------------------- MODULE SumsTheorems -----------------------------
(* Facts about sums over finite sets, and the least of a set of numbers.   *)
EXTENDS Sums, FiniteSetTheorems, WellFoundedInduction, TLAPS

\* Induction over numbers, in the form the provers can use.
LEMMA LeastElement ==
    ASSUME NEW T \in SUBSET Nat, T # {}
    PROVE  \E m \in T : \A k \in T : m <= k
<1> DEFINE R == OpToRel(<, Nat)
<1>1. IsWellFoundedOn(R, Nat)
  BY NatLessThanWellFounded
<1>2. \A k, m \in Nat : k < m => <<k, m>> \in R
  BY DEF OpToRel
<1> HIDE DEF R
<1>3. PICK m \in T : \A k \in T : ~(<<k, m>> \in R)
  BY <1>1, WFMin
<1>4. \A k \in T : ~(k < m)
  BY <1>2, <1>3
<1>5. QED
  BY <1>4

\* Natural numbers have a natural sum.
LEMMA TotalType ==
    ASSUME NEW S, IsFiniteSet(S), NEW f, \A x \in S : f[x] \in Nat
    PROVE  IsFiniteSet(Units(S, f)) /\ Total(S, f) \in Nat
<1>1. ASSUME NEW x \in S PROVE IsFiniteSet({x} \X (1..f[x]))
  <2>1. IsFiniteSet({x})
    BY FS_Singleton
  <2>2. IsFiniteSet(1..f[x])
    BY FS_Interval
  <2>3. QED
    BY <2>1, <2>2, FS_Product
<1> DEFINE Pairs == {{x} \X (1..f[x]) : x \in S}
<1>2. IsFiniteSet(Pairs)
  <2> DEFINE F == [x \in S |-> {x} \X (1..f[x])]
  <2>1. F \in Surjection(S, Pairs)
    BY DEF Surjection
  <2>2. QED
    BY <2>1, FS_Surjection DEF ExistsSurjection
<1>3. IsFiniteSet(UNION Pairs)
  BY <1>1, <1>2, FS_UNION
<1>4. QED
  BY <1>3, FS_CardinalityType DEF Units, Total

\* The sum over no element is 0.
LEMMA TotalEmpty ==
    ASSUME NEW f
    PROVE  Total({}, f) = 0
BY FS_EmptySet DEF Total, Units

\* Only the values on the set matter.
LEMMA TotalSame ==
    ASSUME NEW S, NEW f, NEW g, \A x \in S : f[x] = g[x]
    PROVE  Total(S, f) = Total(S, g)
<1>1. Units(S, f) = Units(S, g)
  BY DEF Units
<1>2. QED
  BY <1>1 DEF Total

\* The sum over two disjoint sets.
LEMMA TotalDisjoint ==
    ASSUME NEW S, NEW T, IsFiniteSet(S), IsFiniteSet(T), S \cap T = {},
           NEW f, \A x \in S \cup T : f[x] \in Nat
    PROVE  Total(S \cup T, f) = Total(S, f) + Total(T, f)
<1>1. Units(S \cup T, f) = Units(S, f) \cup Units(T, f)
  BY DEF Units
<1>2. Units(S, f) \cap Units(T, f) = {}
  BY DEF Units
<1>3. /\ IsFiniteSet(Units(S, f)) /\ Total(S, f) \in Nat
      /\ IsFiniteSet(Units(T, f)) /\ Total(T, f) \in Nat
  BY TotalType
<1>4. Cardinality(Units(S, f) \cup Units(T, f)) =
        Cardinality(Units(S, f)) + Cardinality(Units(T, f)) - Cardinality({})
  BY <1>2, <1>3, FS_Union
<1>5. Cardinality({}) = 0
  BY FS_EmptySet
<1>6. Total(S \cup T, f) = Cardinality(Units(S, f) \cup Units(T, f))
  BY <1>1, Zenon DEF Total
<1>7. QED
  BY <1>3, <1>4, <1>5, <1>6 DEF Total

\* The sum over one element.
LEMMA TotalSingle ==
    ASSUME NEW x, NEW f, f[x] \in Nat
    PROVE  Total({x}, f) = f[x]
<1>1. Units({x}, f) = {x} \X (1..f[x])
  BY DEF Units
<1>2. IsFiniteSet({x}) /\ Cardinality({x}) = 1
  BY FS_Singleton
<1>3. IsFiniteSet(1..f[x]) /\ Cardinality(1..f[x]) = f[x]
  <2>1. /\ IsFiniteSet(1..f[x])
        /\ Cardinality(1..f[x]) = IF 1 > f[x] THEN 0 ELSE f[x] - 1 + 1
    BY FS_Interval, f[x] \in Int, 1 \in Int
  <2> QED
    BY <2>1
<1>4. Cardinality({x} \X (1..f[x])) = 1 * f[x]
  <2> DEFINE A == {x}
             B == 1..f[x]
  <2>1. IsFiniteSet(A) /\ IsFiniteSet(B)
    BY <1>2, <1>3
  <2> HIDE DEF A, B
  <2>2. Cardinality(A \X B) = Cardinality(A) * Cardinality(B)
    BY <2>1, FS_Product
  <2>3. Cardinality(A) = 1 /\ Cardinality(B) = f[x]
    BY <1>2, <1>3 DEF A, B
  <2> QED
    BY <2>2, <2>3 DEF A, B
<1>5. Total({x}, f) = 1 * f[x]
  BY <1>1, <1>4, Zenon DEF Total
<1>6. QED
  BY <1>5

\* One more element.
LEMMA TotalAdd ==
    ASSUME NEW S, IsFiniteSet(S), NEW x, x \notin S,
           NEW f, \A y \in S \cup {x} : f[y] \in Nat
    PROVE  Total(S \cup {x}, f) = Total(S, f) + f[x]
<1>1. IsFiniteSet({x})
  BY FS_Singleton
<1>2. Total(S \cup {x}, f) = Total(S, f) + Total({x}, f)
  BY <1>1, TotalDisjoint
<1>3. QED
  BY <1>2, TotalSingle

\* One value changes.
LEMMA TotalUpdate ==
    ASSUME NEW S, IsFiniteSet(S), NEW x \in S, NEW f, NEW g,
           \A y \in S : f[y] \in Nat /\ g[y] \in Nat,
           \A y \in S : y # x => g[y] = f[y]
    PROVE  Total(S, g) = Total(S, f) - f[x] + g[x]
<1> DEFINE R == S \ {x}
<1>1. IsFiniteSet(R) /\ x \notin R /\ R \cup {x} = S
  BY FS_RemoveElement
<1>2. Total(R, f) \in Nat /\ Total(R, g) = Total(R, f)
  <2>1. \A y \in R : f[y] \in Nat /\ g[y] = f[y]
    OBVIOUS
  <2>2. QED
    BY <1>1, <2>1, TotalType, TotalSame
<1>3. Total(R \cup {x}, f) = Total(R, f) + f[x]
  BY <1>1, TotalAdd
<1>4. Total(R \cup {x}, g) = Total(R, g) + g[x]
  BY <1>1, TotalAdd
<1>5. f[x] \in Nat /\ g[x] \in Nat
  OBVIOUS
<1>6. Total(R \cup {x}, f) = Total(S, f) /\ Total(R \cup {x}, g) = Total(S, g)
  BY <1>1, Zenon
<1> HIDE DEF R
<1>7. QED
  BY <1>2, <1>3, <1>4, <1>5, <1>6

\* A sum of zeros.
LEMMA TotalZero ==
    ASSUME NEW S, NEW f, \A x \in S : f[x] = 0
    PROVE  Total(S, f) = 0
<1>1. Units(S, f) = {}
  BY DEF Units
<1>2. QED
  BY <1>1, FS_EmptySet DEF Total

\* A part of the set has a part of the sum.
LEMMA TotalPart ==
    ASSUME NEW S, IsFiniteSet(S), NEW T \in SUBSET S,
           NEW f, \A x \in S : f[x] \in Nat
    PROVE  /\ Total(T, f) \in Nat
           /\ Total(S, f) \in Nat
           /\ Total(T, f) <= Total(S, f)
<1>1. IsFiniteSet(T)
  BY FS_Subset
<1>2. Units(T, f) \subseteq Units(S, f)
  BY DEF Units
<1>3. QED
  BY <1>1, <1>2, TotalType, FS_Subset DEF Total

\* One value is at most the sum.
LEMMA TotalAtLeast ==
    ASSUME NEW S, IsFiniteSet(S), NEW x \in S,
           NEW f, \A y \in S : f[y] \in Nat
    PROVE  f[x] <= Total(S, f)
<1>1. {x} \in SUBSET S
  OBVIOUS
<1>2. Total({x}, f) <= Total(S, f)
  BY <1>1, TotalPart
<1>3. QED
  BY <1>2, TotalSingle

\* The sum of a pointwise sum.
LEMMA TotalPlus ==
    ASSUME NEW S, IsFiniteSet(S), NEW f, NEW g, NEW h,
           \A x \in S : f[x] \in Nat /\ g[x] \in Nat /\ h[x] = f[x] + g[x]
    PROVE  Total(S, h) = Total(S, f) + Total(S, g)
<1> DEFINE Upper == {<<u[1], f[u[1]] + u[2]>> : u \in Units(S, g)}
<1>1. /\ IsFiniteSet(Units(S, f)) /\ Total(S, f) \in Nat
      /\ IsFiniteSet(Units(S, g)) /\ Total(S, g) \in Nat
  BY TotalType
<1>2. IsFiniteSet(Upper) /\ Cardinality(Upper) = Cardinality(Units(S, g))
  <2> DEFINE F == [u \in Units(S, g) |-> <<u[1], f[u[1]] + u[2]>>]
  <2>1. \A u \in Units(S, g) : u[1] \in S /\ u[2] \in Nat /\ u = <<u[1], u[2]>>
    BY DEF Units
  <2>2. F \in Bijection(Units(S, g), Upper)
    <3>1. F \in [Units(S, g) -> Upper]
      OBVIOUS
    <3>2. ASSUME NEW u \in Units(S, g), NEW v \in Units(S, g), F[u] = F[v]
          PROVE  u = v
      <4>1. u[1] = v[1] /\ f[u[1]] + u[2] = f[u[1]] + v[2]
        BY <3>2
      <4>2. u[2] = v[2]
        BY <4>1, <2>1
      <4>3. QED
        BY <4>1, <4>2, <2>1
    <3>3. \A y \in Upper : \E u \in Units(S, g) : F[u] = y
      OBVIOUS
    <3>4. QED
      BY <3>1, <3>2, <3>3 DEF Bijection, Injection, Surjection, IsInjective
  <2>3. ExistsBijection(Units(S, g), Upper)
    BY <2>2 DEF ExistsBijection
  <2>4. QED
    BY <1>1, <2>3, FS_Bijection
<1>3. Units(S, h) = Units(S, f) \cup Upper
  <2>1. ASSUME NEW p \in Units(S, h) PROVE p \in Units(S, f) \cup Upper
    <3>0. PICK x \in S : \E i \in 1..h[x] : p = <<x, i>>
      BY DEF Units
    <3>1. PICK i \in 1..h[x] : p = <<x, i>>
      BY <3>0
    <3>2. CASE i <= f[x]
      BY <3>1, <3>2 DEF Units
    <3>3. CASE i > f[x]
      <4>1. i - f[x] \in 1..g[x]
        BY <3>3
      <4>2. <<x, i - f[x]>> \in Units(S, g)
        BY <4>1 DEF Units
      <4>3. p = <<x, f[x] + (i - f[x])>>
        BY <3>1
      <4>4. QED
        BY <4>2, <4>3
    <3>4. QED
      BY <3>2, <3>3
  <2>2. ASSUME NEW p \in Units(S, f) PROVE p \in Units(S, h)
    <3>0. PICK x \in S : \E i \in 1..f[x] : p = <<x, i>>
      BY DEF Units
    <3>1. PICK i \in 1..f[x] : p = <<x, i>>
      BY <3>0
    <3>2. i \in 1..h[x]
      OBVIOUS
    <3>3. QED
      BY <3>1, <3>2 DEF Units
  <2>3. ASSUME NEW p \in Upper PROVE p \in Units(S, h)
    <3>0. PICK x \in S : \E i \in 1..g[x] : p = <<x, f[x] + i>>
      BY DEF Units
    <3>1. PICK i \in 1..g[x] : p = <<x, f[x] + i>>
      BY <3>0
    <3>2. f[x] + i \in 1..h[x]
      OBVIOUS
    <3>3. QED
      BY <3>1, <3>2 DEF Units
  <2>4. QED
    BY <2>1, <2>2, <2>3
<1>4. Units(S, f) \cap Upper = {}
  <2> SUFFICES ASSUME NEW p \in Units(S, f), p \in Upper
               PROVE  FALSE
    OBVIOUS
  <2>1. p[2] <= f[p[1]]
    BY DEF Units
  <2>2. PICK u \in Units(S, g) : p = <<u[1], f[u[1]] + u[2]>>
    OBVIOUS
  <2>3. u[1] \in S /\ u[2] \in Nat \ {0}
    BY DEF Units
  <2>4. QED
    BY <2>1, <2>2, <2>3
<1> HIDE DEF Upper
<1>5. Cardinality(Units(S, h)) =
        Cardinality(Units(S, f)) + Cardinality(Upper) - Cardinality({})
  BY <1>1, <1>2, <1>3, <1>4, FS_Union
<1>6. Cardinality({}) = 0
  BY FS_EmptySet
<1>7. QED
  BY <1>1, <1>2, <1>5, <1>6 DEF Total
=============================================================================
