---------------------------- MODULE Sums_proofs ----------------------------
(***************************************************************************)
(* What Sum computes, for every finite set.  The induction is over a set:  *)
(* the subsets (or naturals) for which a fact holds form a set, and        *)
(* module WellFoundedInduction gives what is outside of it a minimal       *)
(* element.  Module FiniteSetsExt defines the sum by a recursive function  *)
(* on the subsets of S that takes out a chosen element; the lemmas show    *)
(* that this function exists, is unique and does not depend on the choice. *)
(***************************************************************************)
EXTENDS Sums, FiniteSetTheorems, WellFoundedInduction, TLAPS

\* A set of naturals closed under successor holds them all.
LEMMA SetInduction ==
  ASSUME NEW P \in SUBSET Nat, 0 \in P, \A n \in P : n + 1 \in P
  PROVE  \A n \in Nat : n \in P
<1> SUFFICES ASSUME Nat \ P # {} PROVE FALSE
  OBVIOUS
<1> DEFINE R == OpToRel(<, Nat)
<1>1. PICK m \in Nat \ P : \A k \in Nat \ P : ~ (<<k, m>> \in R)
  <2>1. IsWellFoundedOn(R, Nat)
    BY NatLessThanWellFounded
  <2> HIDE DEF R
  <2> QED
    BY <2>1, WFMin
<1>2. m # 0 /\ m - 1 \in Nat
  OBVIOUS
<1>3. <<m - 1, m>> \in R
  BY <1>2 DEF OpToRel
<1>4. m - 1 \in P
  BY <1>1, <1>2, <1>3
<1> QED
  BY <1>2, <1>4

\* A set of subsets of a finite set that holds a set whenever it holds what is
\* left of it without any one element holds them all.
LEMMA SubsetInduction ==
  ASSUME NEW S, IsFiniteSet(S), NEW P \in SUBSET SUBSET S,
         \A s \in SUBSET S : (\A x \in s : s \ {x} \in P) => s \in P
  PROVE  \A s \in SUBSET S : s \in P
<1> SUFFICES ASSUME (SUBSET S) \ P # {} PROVE FALSE
  OBVIOUS
<1>1. PICK m \in (SUBSET S) \ P : \A k \in (SUBSET S) \ P : <<k, m>> \notin StrictSubsetOrdering(S)
  <2>1. IsWellFoundedOn(StrictSubsetOrdering(S), SUBSET S)
    <3>1. FiniteSubsetsOf(S) = SUBSET S
      BY FS_FiniteSubsetsOfFinite
    <3>2. IsWellFoundedOn(StrictSubsetOrdering(S), FiniteSubsetsOf(S))
      BY FS_StrictSubsetOrderingWellFounded
    <3> QED
      BY <3>1, <3>2, Zenon
  <2> QED
    BY <2>1, WFMin
<1>2. PICK x \in m : m \ {x} \notin P
  BY <1>1
<1>3. <<m \ {x}, m>> \in StrictSubsetOrdering(S)
  BY <1>2 DEF StrictSubsetOrdering
<1> QED
  BY <1>1, <1>2, <1>3

\* The element MapThenSumSet takes out first.
Pick(s) == CHOOSE x \in s : TRUE

\* g computes the sum of every subset of S.
IsSumFn(f, S, g) ==
  g = [s \in SUBSET S |-> IF s = {} THEN 0 ELSE f[Pick(s)] + g[s \ {Pick(s)}]]

\* The chosen element is one.
LEMMA PickIn == ASSUME NEW s, s # {} PROVE Pick(s) \in s
  BY DEF Pick

\* The function MapThenSumSet applies to S.
SumFn(f, S) == CHOOSE g : IsSumFn(f, S, g)

\* The sum is what that function gives for S.
LEMMA SumIsFn == ASSUME NEW f, NEW S PROVE Sum(f, S) = SumFn(f, S)[S]
  BY Zenon DEF Sum, MapThenSumSet, MapThenFoldSet, SumFn, IsSumFn, Pick

\* Some function computes the sums of all subsets.
LEMMA SumFnExists ==
  ASSUME NEW f, NEW S, IsFiniteSet(S), \A x \in S : f[x] \in Int
  PROVE  \E g \in [SUBSET S -> Int] : IsSumFn(f, S, g)
<1> DEFINE Step(g, s) == IF s = {} THEN 0 ELSE f[Pick(s)] + g[s \ {Pick(s)}]
           P == {n \in Nat : \E g \in [SUBSET S -> Int] :
                   \A s \in SUBSET S : Cardinality(s) <= n => g[s] = Step(g, s)}
<1>0. \A s \in SUBSET S : s # {} => /\ Pick(s) \in S /\ s \ {Pick(s)} \in SUBSET S
                          /\ f[Pick(s)] \in Int
  BY PickIn
<1>c. \A s \in SUBSET S : /\ Cardinality(s) \in Nat /\ Cardinality(s) <= Cardinality(S)
                          /\ Cardinality(s) <= 0 => s = {}
                          /\ s # {} => Cardinality(s \ {Pick(s)}) = Cardinality(s) - 1
  <2> TAKE s \in SUBSET S
  <2>1. IsFiniteSet(s) /\ Cardinality(s) <= Cardinality(S)
    BY FS_Subset
  <2>2. s # {} => Cardinality(s \ {Pick(s)}) = Cardinality(s) - 1
    BY <2>1, FS_RemoveElement, PickIn
  <2>3. Cardinality(s) \in Nat /\ (Cardinality(s) = 0 => s = {})
    BY <2>1, FS_CardinalityType, FS_EmptySet
  <2> HIDE DEF P, Step
  <2> QED
    BY <2>1, <2>2, <2>3
<1>1. 0 \in P
  <2>1. [s \in SUBSET S |-> 0] \in [SUBSET S -> Int]
    OBVIOUS
  <2> DEFINE z == [s \in SUBSET S |-> 0]
  <2>3. \A s \in SUBSET S : Cardinality(s) <= 0 => z[s] = Step(z, s)
    BY <1>c
  <2> HIDE DEF Step, z
  <2> QED
    BY <2>1, <2>3 DEF z
<1>2. \A n \in P : n + 1 \in P
  <2> TAKE n \in P
  <2>1. PICK g \in [SUBSET S -> Int] :
             \A s \in SUBSET S : Cardinality(s) <= n => g[s] = Step(g, s)
    OBVIOUS
  <2> DEFINE h == [s \in SUBSET S |-> Step(g, s)]
  <2>2. h \in [SUBSET S -> Int]
    BY <1>0
  <2>3. ASSUME NEW s \in SUBSET S, Cardinality(s) <= n + 1 PROVE h[s] = Step(h, s)
    <3>1. CASE s = {}
      BY <3>1
    <3>2. CASE s # {}
      <4>1. s \ {Pick(s)} \in SUBSET S /\ Cardinality(s \ {Pick(s)}) <= n
        BY <1>0, <1>c, <2>3, <3>2
      <4>2. h[s \ {Pick(s)}] = g[s \ {Pick(s)}]
        BY <4>1, <2>1
      <4> QED
        BY <3>2, <4>2
    <3> QED
      BY <3>1, <3>2
  <2>4. n + 1 \in Nat
    OBVIOUS
  <2> HIDE DEF h, Step
  <2> QED
    BY <2>2, <2>3, <2>4
<1>3. Cardinality(S) \in P
  <2>1. Cardinality(S) \in Nat
    BY FS_CardinalityType
  <2>2. P \in SUBSET Nat
    OBVIOUS
  <2> HIDE DEF P
  <2> QED
    BY <1>1, <1>2, <2>1, <2>2, SetInduction
<1>4. PICK g \in [SUBSET S -> Int] :
             \A s \in SUBSET S : Cardinality(s) <= Cardinality(S) => g[s] = Step(g, s)
  BY <1>3
<1>5. g = [s \in SUBSET S |-> Step(g, s)]
  <2>1. \A s \in SUBSET S : g[s] = Step(g, s)
    BY <1>4, <1>c
  <2> HIDE DEF Step
  <2> QED
    BY <2>1
<1> QED
  BY <1>5 DEF IsSumFn

\* Two such functions agree where both are defined.
LEMMA SumFnUnique ==
  ASSUME NEW f, NEW S, IsFiniteSet(S), NEW T, S \subseteq T,
         NEW g, IsSumFn(f, S, g), NEW h, IsSumFn(f, T, h)
  PROVE  \A s \in SUBSET S : g[s] = h[s]
<1> DEFINE P == {s \in SUBSET S : g[s] = h[s]}
<1>1. ASSUME NEW s \in SUBSET S, \A x \in s : s \ {x} \in P PROVE s \in P
  <2>1. CASE s = {}
    BY <2>1 DEF IsSumFn
  <2>2. CASE s # {}
    <3>1. Pick(s) \in s /\ s \in SUBSET T
      BY <2>2, PickIn
    <3>2. g[s \ {Pick(s)}] = h[s \ {Pick(s)}]
      BY <1>1, <3>1
    <3> QED
      BY <2>2, <3>1, <3>2 DEF IsSumFn
  <2> QED
    BY <2>1, <2>2
<1>2. P \in SUBSET SUBSET S
  OBVIOUS
<1>3. \A s \in SUBSET S : s \in P
  <2> HIDE DEF P
  <2> QED
    BY <1>1, <1>2, SubsetInduction
<1> QED
  BY <1>3

\* What MapThenSumSet computes: a sum is an integer, zero for the empty set,
\* and the summand of Pick(S) plus the sum of the others.
LEMMA SumUnfold ==
  ASSUME NEW f, NEW S, IsFiniteSet(S), \A x \in S : f[x] \in Int
  PROVE  /\ Sum(f, S) \in Int
         /\ S = {} => Sum(f, S) = 0
         /\ S # {} => Sum(f, S) = f[Pick(S)] + Sum(f, S \ {Pick(S)})
<1>1. \A T \in SUBSET S : IsSumFn(f, T, SumFn(f, T)) /\ Sum(f, T) \in Int
  <2> TAKE T \in SUBSET S
  <2>1. IsFiniteSet(T)
    BY FS_Subset
  <2>2. PICK g \in [SUBSET T -> Int] : IsSumFn(f, T, g)
    BY <2>1, SumFnExists
  <2>3. IsSumFn(f, T, SumFn(f, T))
    BY <2>2, Zenon DEF SumFn
  <2>4. g[T] = SumFn(f, T)[T]
    BY <2>1, <2>2, <2>3, SumFnUnique
  <2> QED
    BY <2>2, <2>3, <2>4, SumIsFn
<1>2. S = {} => Sum(f, S) = 0
  BY <1>1, SumIsFn DEF IsSumFn
<1>3. ASSUME S # {} PROVE Sum(f, S) = f[Pick(S)] + Sum(f, S \ {Pick(S)})
  <2> DEFINE T == S \ {Pick(S)}
  <2>1. T \in SUBSET S /\ IsFiniteSet(T)
    BY FS_Subset
  <2>2. SumFn(f, T)[T] = SumFn(f, S)[T]
    BY <1>1, <2>1, SumFnUnique
  <2>3. SumFn(f, S)[S] = f[Pick(S)] + SumFn(f, S)[T]
    BY <1>1, <1>3 DEF IsSumFn
  <2> QED
    BY <2>2, <2>3, SumIsFn
<1> QED
  BY <1>1, <1>2, <1>3

\* The empty sum is zero.
LEMMA SumEmpty == ASSUME NEW f PROVE Sum(f, {}) = 0
  BY SumUnfold, FS_EmptySet

\* A sum of integers is one.
LEMMA SumInt ==
  ASSUME NEW f, NEW S, IsFiniteSet(S), \A x \in S : f[x] \in Int
  PROVE  Sum(f, S) \in Int
  BY SumUnfold

\* Any element may be taken out first.
LEMMA SumRemove ==
  ASSUME NEW f, NEW S, IsFiniteSet(S), \A x \in S : f[x] \in Int, NEW y \in S
  PROVE  Sum(f, S) = f[y] + Sum(f, S \ {y})
<1> DEFINE P == {s \in SUBSET S : \A x \in s : Sum(f, s) = f[x] + Sum(f, s \ {x})}
<1>0. \A s \in SUBSET S : /\ IsFiniteSet(s) /\ Sum(f, s) \in Int
                          /\ s # {} => Pick(s) \in s
                          /\ s # {} => Sum(f, s) = f[Pick(s)] + Sum(f, s \ {Pick(s)})
  <2> TAKE s \in SUBSET S
  <2>1. IsFiniteSet(s) /\ \A x \in s : f[x] \in Int
    BY FS_Subset
  <2> QED
    BY <2>1, SumUnfold, PickIn
<1>1. ASSUME NEW s \in SUBSET S, \A x \in s : s \ {x} \in P PROVE s \in P
  <2> SUFFICES ASSUME NEW x \in s PROVE Sum(f, s) = f[x] + Sum(f, s \ {x})
    OBVIOUS
  <2> DEFINE p == Pick(s)
             t == s \ {x, p}
  <2>1. CASE x = p
    BY <1>0, <2>1
  <2>2. CASE x # p
    <3>1. p \in s /\ x \in s \ {p} /\ p \in s \ {x}
      BY <1>0, <2>2
    <3>2. t = (s \ {x}) \ {p} /\ t = (s \ {p}) \ {x}
      OBVIOUS
    <3>3. Sum(f, s \ {x}) = f[p] + Sum(f, t)
      BY <1>1, <3>1, <3>2
    <3>4. Sum(f, s \ {p}) = f[x] + Sum(f, t)
      BY <1>1, <3>1, <3>2
    <3>5. Sum(f, s) = f[p] + Sum(f, s \ {p})
      BY <1>0, <3>1
    <3>6. f[p] \in Int /\ f[x] \in Int /\ Sum(f, t) \in Int
      BY <1>0, <3>1
    <3> QED
      BY <3>3, <3>4, <3>5, <3>6
  <2> QED
    BY <2>1, <2>2
<1>2. \A s \in SUBSET S : s \in P
  <2>1. P \in SUBSET SUBSET S
    OBVIOUS
  <2> HIDE DEF P
  <2> QED
    BY <1>1, <2>1, SubsetInduction
<1> QED
  BY <1>2

\* Adding a new element adds its summand.
LEMMA SumAdd ==
  ASSUME NEW f, NEW S, IsFiniteSet(S), \A x \in S : f[x] \in Int,
         NEW y, y \notin S, f[y] \in Int
  PROVE  Sum(f, S \cup {y}) = f[y] + Sum(f, S)
<1>1. IsFiniteSet(S \cup {y})
  BY FS_AddElement
<1>2. (S \cup {y}) \ {y} = S
  OBVIOUS
<1> QED
  BY <1>1, <1>2, SumRemove

\* The sum over one element.
LEMMA SumSingleton ==
  ASSUME NEW f, NEW y, f[y] \in Int
  PROVE  Sum(f, {y}) = f[y]
<1>1. IsFiniteSet({y}) /\ {y} \ {y} = {}
  BY FS_Singleton
<1>2. Sum(f, {y}) = f[y] + Sum(f, {y} \ {y})
  BY <1>1, SumRemove
<1> QED
  BY <1>1, <1>2, SumEmpty

\* Only the values on the set matter.
LEMMA SumCongruence ==
  ASSUME NEW f, NEW g, NEW S, IsFiniteSet(S),
         \A x \in S : f[x] \in Int /\ f[x] = g[x]
  PROVE  Sum(f, S) = Sum(g, S)
<1> DEFINE P == {s \in SUBSET S : Sum(f, s) = Sum(g, s)}
<1>1. ASSUME NEW s \in SUBSET S, \A x \in s : s \ {x} \in P PROVE s \in P
  <2>1. IsFiniteSet(s)
    BY FS_Subset
  <2>2. CASE s = {}
    BY <2>2, SumEmpty
  <2>3. ASSUME NEW x \in s PROVE s \in P
    <3>1. Sum(f, s) = f[x] + Sum(f, s \ {x})
      BY <2>1, SumRemove
    <3>2. Sum(g, s) = g[x] + Sum(g, s \ {x})
      BY <2>1, SumRemove
    <3> QED
      BY <1>1, <3>1, <3>2
  <2> QED
    BY <2>2, <2>3
<1>2. \A s \in SUBSET S : s \in P
  <2>1. P \in SUBSET SUBSET S
    OBVIOUS
  <2> HIDE DEF P
  <2> QED
    BY <1>1, <2>1, SubsetInduction
<1> QED
  BY <1>2

\* A sum is ordered like its summands.
LEMMA SumOrder ==
  ASSUME NEW f, NEW g, NEW S, IsFiniteSet(S),
         \A x \in S : f[x] \in Int /\ g[x] \in Int /\ f[x] <= g[x]
  PROVE  Sum(f, S) <= Sum(g, S)
<1> DEFINE P == {s \in SUBSET S : Sum(f, s) <= Sum(g, s)}
<1>1. ASSUME NEW s \in SUBSET S, \A x \in s : s \ {x} \in P PROVE s \in P
  <2>1. IsFiniteSet(s)
    BY FS_Subset
  <2>2. CASE s = {}
    BY <2>2, SumEmpty
  <2>3. ASSUME NEW x \in s PROVE s \in P
    <3>1. Sum(f, s) = f[x] + Sum(f, s \ {x})
      BY <2>1, SumRemove
    <3>2. Sum(g, s) = g[x] + Sum(g, s \ {x})
      BY <2>1, SumRemove
    <3>3. IsFiniteSet(s \ {x})
      BY <2>1, FS_Subset
    <3>4. Sum(f, s \ {x}) \in Int /\ Sum(g, s \ {x}) \in Int
      BY <3>3, SumInt
    <3>5. Sum(f, s \ {x}) <= Sum(g, s \ {x})
      BY <1>1
    <3>6. Sum(f, s) <= Sum(g, s)
      BY <3>1, <3>2, <3>4, <3>5
    <3> QED
      BY <3>6
  <2> QED
    BY <2>2, <2>3
<1>2. \A s \in SUBSET S : s \in P
  <2>1. P \in SUBSET SUBSET S
    OBVIOUS
  <2> HIDE DEF P
  <2> QED
    BY <1>1, <2>1, SubsetInduction
<1> QED
  BY <1>2

\* A sum of naturals is a natural.
LEMMA SumNat ==
  ASSUME NEW f, NEW S, IsFiniteSet(S), \A x \in S : f[x] \in Nat
  PROVE  Sum(f, S) \in Nat
<1> DEFINE P == {s \in SUBSET S : Sum(f, s) \in Nat}
<1>1. ASSUME NEW s \in SUBSET S, \A x \in s : s \ {x} \in P PROVE s \in P
  <2>1. IsFiniteSet(s) /\ \A x \in s : f[x] \in Int
    BY FS_Subset
  <2>2. CASE s = {}
    BY <2>2, SumEmpty
  <2>3. ASSUME NEW x \in s PROVE s \in P
    <3>1. Sum(f, s) = f[x] + Sum(f, s \ {x})
      BY <2>1, SumRemove
    <3> QED
      BY <1>1, <3>1
  <2> QED
    BY <2>2, <2>3
<1>2. \A s \in SUBSET S : s \in P
  <2>1. P \in SUBSET SUBSET S
    OBVIOUS
  <2> HIDE DEF P
  <2> QED
    BY <1>1, <2>1, SubsetInduction
<1> QED
  BY <1>2

\* The sums of disjoint sets add up.
LEMMA SumUnion ==
  ASSUME NEW f, NEW S, IsFiniteSet(S), NEW T, IsFiniteSet(T), S \cap T = {},
         \A x \in S \cup T : f[x] \in Int
  PROVE  Sum(f, S \cup T) = Sum(f, S) + Sum(f, T)
<1> DEFINE P == {s \in SUBSET S : Sum(f, s \cup T) = Sum(f, s) + Sum(f, T)}
<1>0. Sum(f, T) \in Int
  BY SumInt
<1>1. ASSUME NEW s \in SUBSET S, \A x \in s : s \ {x} \in P PROVE s \in P
  <2>1. IsFiniteSet(s) /\ IsFiniteSet(s \cup T)
    BY FS_Subset, FS_Union
  <2>2. CASE s = {}
    <3>1. s \cup T = T
      BY <2>2
    <3> QED
      BY <1>0, <2>2, <3>1, SumEmpty
  <2>3. ASSUME NEW x \in s PROVE s \in P
    <3>1. Sum(f, s) = f[x] + Sum(f, s \ {x})
      BY <2>1, SumRemove
    <3>2. (s \cup T) \ {x} = (s \ {x}) \cup T
      OBVIOUS
    <3>3. Sum(f, s \cup T) = f[x] + Sum(f, (s \ {x}) \cup T)
      BY <2>1, <3>2, SumRemove
    <3>4. IsFiniteSet(s \ {x})
      BY <2>1, FS_Subset
    <3>5. Sum(f, s \ {x}) \in Int /\ f[x] \in Int
      BY <3>4, SumInt
    <3>6. Sum(f, (s \ {x}) \cup T) = Sum(f, s \ {x}) + Sum(f, T)
      BY <1>1
    <3>7. Sum(f, s \cup T) = Sum(f, s) + Sum(f, T)
      BY <1>0, <3>1, <3>3, <3>5, <3>6
    <3> QED
      BY <3>7
  <2> QED
    BY <2>2, <2>3
<1>2. \A s \in SUBSET S : s \in P
  <2>1. P \in SUBSET SUBSET S
    OBVIOUS
  <2> HIDE DEF P
  <2> QED
    BY <1>1, <2>1, SubsetInduction
<1> QED
  BY <1>2

\* A part of a sum of naturals is no more than the whole.
LEMMA SumSubset ==
  ASSUME NEW f, NEW S, IsFiniteSet(S), NEW T \in SUBSET S, \A x \in S : f[x] \in Nat
  PROVE  Sum(f, T) <= Sum(f, S)
<1>1. IsFiniteSet(T) /\ IsFiniteSet(S \ T)
  BY FS_Subset
<1>2. T \cup (S \ T) = S /\ T \cap (S \ T) = {}
  OBVIOUS
<1>3. Sum(f, T \cup (S \ T)) = Sum(f, T) + Sum(f, S \ T)
  BY <1>1, <1>2, SumUnion
<1>4. Sum(f, T) \in Nat /\ Sum(f, S \ T) \in Nat
  BY <1>1, SumNat
<1>5. Sum(f, S) = Sum(f, T) + Sum(f, S \ T)
  BY <1>2, <1>3
<1> QED
  BY <1>4, <1>5

\* A summand is no more than the sum of naturals.
LEMMA SumElement ==
  ASSUME NEW f, NEW S, IsFiniteSet(S), NEW y \in S, \A x \in S : f[x] \in Nat
  PROVE  f[y] <= Sum(f, S)
<1>1. Sum(f, S) = f[y] + Sum(f, S \ {y})
  BY SumRemove
<1>2. IsFiniteSet(S \ {y})
  BY FS_Subset
<1>3. Sum(f, S \ {y}) \in Nat
  BY <1>2, SumNat
<1> QED
  BY <1>1, <1>3

\* Adding an element adds at most its summand.
LEMMA SumAddBound ==
  ASSUME NEW f, NEW S, IsFiniteSet(S), NEW y, \A x \in S \cup {y} : f[x] \in Nat
  PROVE  Sum(f, S \cup {y}) <= Sum(f, S) + f[y]
<1>1. Sum(f, S) \in Nat /\ f[y] \in Nat
  BY SumNat
<1>2. CASE y \in S
  <2>1. S \cup {y} = S
    BY <1>2
  <2> QED
    BY <1>1, <2>1
<1>3. CASE y \notin S
  <2>1. Sum(f, S \cup {y}) = f[y] + Sum(f, S)
    BY <1>3, SumAdd
  <2> QED
    BY <1>1, <2>1
<1> QED
  BY <1>2, <1>3

\* The sum over a union is at most the two sums together.
LEMMA SumUnionBound ==
  ASSUME NEW f, NEW S, IsFiniteSet(S), NEW T, IsFiniteSet(T),
         \A x \in S \cup T : f[x] \in Nat
  PROVE  Sum(f, S \cup T) <= Sum(f, S) + Sum(f, T)
<1>1. IsFiniteSet(T \ S) /\ S \cap (T \ S) = {} /\ S \cup T = S \cup (T \ S)
  BY FS_Subset
<1>2. Sum(f, S \cup T) = Sum(f, S) + Sum(f, T \ S)
  <2>1. Sum(f, S \cup (T \ S)) = Sum(f, S) + Sum(f, T \ S)
    BY <1>1, SumUnion
  <2> QED
    BY <1>1, <2>1
<1>3. Sum(f, T \ S) <= Sum(f, T)
  BY SumSubset
<1>4. Sum(f, S) \in Nat /\ Sum(f, T) \in Nat /\ Sum(f, T \ S) \in Nat
  BY <1>1, SumNat
<1> QED
  BY <1>2, <1>3, <1>4

\* An injective renaming of the elements keeps the sum.
LEMMA SumImage ==
  ASSUME NEW f, NEW g, NEW h, NEW S, IsFiniteSet(S),
         \A x, y \in S : h[x] = h[y] => x = y,
         \A x \in S : f[x] \in Int /\ f[x] = g[h[x]]
  PROVE  Sum(f, S) = Sum(g, {h[x] : x \in S})
<1> DEFINE Im(s) == {h[x] : x \in s}
           P == {s \in SUBSET S : Sum(f, s) = Sum(g, Im(s))}
<1>1. ASSUME NEW s \in SUBSET S, \A x \in s : s \ {x} \in P PROVE s \in P
  <2>1. IsFiniteSet(s)
    BY FS_Subset
  <2>2. CASE s = {}
    <3>1. Im(s) = {}
      BY <2>2
    <3> QED
      BY <2>2, <3>1, SumEmpty
  <2>3. ASSUME NEW x \in s PROVE s \in P
    <3>1. Sum(f, s) = f[x] + Sum(f, s \ {x})
      BY <2>1, SumRemove
    <3>2. h[x] \in Im(s) /\ Im(s) \ {h[x]} = Im(s \ {x})
      OBVIOUS
    <3>3. IsFiniteSet(Im(s)) /\ \A y \in Im(s) : g[y] \in Int
      <4> DEFINE k == [y \in s |-> h[y]]
      <4>1. k \in Surjection(s, Im(s))
        BY DEF Surjection
      <4> HIDE DEF k
      <4>2. IsFiniteSet(Im(s))
        BY <2>1, <4>1, FS_Surjection
      <4> QED
        BY <4>2
    <3> HIDE DEF Im
    <3>4. Sum(g, Im(s)) = g[h[x]] + Sum(g, Im(s \ {x}))
      <4>1. Sum(g, Im(s)) = g[h[x]] + Sum(g, Im(s) \ {h[x]})
        BY <3>2, <3>3, SumRemove
      <4> QED
        BY <3>2, <4>1
    <3>5. Sum(f, s \ {x}) = Sum(g, Im(s \ {x}))
      BY <1>1
    <3> QED
      BY <3>1, <3>4, <3>5
  <2> QED
    BY <2>2, <2>3
<1>2. \A s \in SUBSET S : s \in P
  <2>1. P \in SUBSET SUBSET S
    OBVIOUS
  <2> HIDE DEF P
  <2> QED
    BY <1>1, <2>1, SubsetInduction
<1> QED
  BY <1>2

\* Sums add up summand by summand.
LEMMA SumPlus ==
  ASSUME NEW f, NEW g, NEW h, NEW S, IsFiniteSet(S),
         \A x \in S : f[x] \in Int /\ g[x] \in Int /\ h[x] = f[x] + g[x]
  PROVE  Sum(h, S) = Sum(f, S) + Sum(g, S)
<1> DEFINE P == {s \in SUBSET S : Sum(h, s) = Sum(f, s) + Sum(g, s)}
<1>1. ASSUME NEW s \in SUBSET S, \A x \in s : s \ {x} \in P PROVE s \in P
  <2>1. IsFiniteSet(s) /\ \A x \in s : f[x] \in Int /\ g[x] \in Int /\ h[x] \in Int
    BY FS_Subset
  <2>2. CASE s = {}
    BY <2>2, SumEmpty
  <2>3. ASSUME NEW x \in s PROVE s \in P
    <3>1. /\ Sum(f, s) = f[x] + Sum(f, s \ {x})
          /\ Sum(g, s) = g[x] + Sum(g, s \ {x})
          /\ Sum(h, s) = h[x] + Sum(h, s \ {x})
      BY <2>1, SumRemove
    <3>2. IsFiniteSet(s \ {x})
      BY <2>1, FS_RemoveElement
    <3>3. Sum(f, s \ {x}) \in Int /\ Sum(g, s \ {x}) \in Int
      BY <2>1, <3>2, SumInt
    <3>4. Sum(h, s \ {x}) = Sum(f, s \ {x}) + Sum(g, s \ {x})
      BY <1>1
    <3>5. f[x] \in Int /\ g[x] \in Int /\ h[x] = f[x] + g[x]
      OBVIOUS
    <3>6. Sum(h, s) = Sum(f, s) + Sum(g, s)
      BY <3>1, <3>3, <3>4, <3>5
    <3> QED
      BY <3>6
  <2> QED
    BY <2>2, <2>3
<1>2. \A s \in SUBSET S : s \in P
  <2>1. P \in SUBSET SUBSET S
    OBVIOUS
  <2> HIDE DEF P
  <2> QED
    BY <1>1, <2>1, SubsetInduction
<1> QED
  BY <1>2

\* A sum of ones counts the elements.
LEMMA SumOnes ==
  ASSUME NEW f, NEW S, IsFiniteSet(S), \A x \in S : f[x] = 1
  PROVE  Sum(f, S) = Cardinality(S)
<1> DEFINE P == {s \in SUBSET S : Sum(f, s) = Cardinality(s)}
<1>1. ASSUME NEW s \in SUBSET S, \A x \in s : s \ {x} \in P PROVE s \in P
  <2>1. IsFiniteSet(s) /\ \A x \in s : f[x] \in Int
    BY FS_Subset
  <2>2. CASE s = {}
    BY <2>2, SumEmpty, FS_EmptySet
  <2>3. ASSUME NEW x \in s PROVE s \in P
    <3>1. Sum(f, s) = f[x] + Sum(f, s \ {x})
      BY <2>1, SumRemove
    <3>2. Cardinality(s \ {x}) = Cardinality(s) - 1 /\ Cardinality(s) \in Nat
      BY <2>1, FS_RemoveElement, FS_CardinalityType
    <3>3. Sum(f, s \ {x}) = Cardinality(s \ {x}) /\ f[x] = 1
      BY <1>1
    <3>4. Sum(f, s) = Cardinality(s)
      BY <3>1, <3>2, <3>3
    <3> QED
      BY <3>4
  <2> QED
    BY <2>2, <2>3
<1>2. \A s \in SUBSET S : s \in P
  <2>1. P \in SUBSET SUBSET S
    OBVIOUS
  <2> HIDE DEF P
  <2> QED
    BY <1>1, <2>1, SubsetInduction
<1> QED
  BY <1>2

\* A sum of zeros is zero.
LEMMA SumZeros ==
  ASSUME NEW f, NEW S, IsFiniteSet(S), \A x \in S : f[x] = 0
  PROVE  Sum(f, S) = 0
<1>1. Sum(f, S) \in Int
  BY SumInt
<1>2. Sum(f, S) = Sum(f, S) + Sum(f, S)
  BY SumPlus
<1>3. \A n \in Int : n = n + n => n = 0
  OBVIOUS
<1> QED
  BY <1>1, <1>2, <1>3, Zenon

\* A sum over a part is the sum over the whole with zeros elsewhere.
LEMMA SumFilter ==
  ASSUME NEW f, NEW g, NEW S, IsFiniteSet(S), NEW T \in SUBSET S,
         \A x \in T : f[x] \in Int /\ g[x] = f[x],
         \A x \in S \ T : g[x] = 0
  PROVE  Sum(g, S) = Sum(f, T)
<1>1. IsFiniteSet(T) /\ IsFiniteSet(S \ T) /\ S = T \cup (S \ T) /\ T \cap (S \ T) = {}
  BY FS_Subset
<1>2. Sum(g, S) = Sum(g, T) + Sum(g, S \ T)
  <2> DEFINE R == S \ T
  <2>1. \A x \in T \cup R : g[x] \in Int
    OBVIOUS
  <2>2. IsFiniteSet(R) /\ T \cap R = {} /\ T \cup R = S
    BY <1>1
  <2> HIDE DEF R
  <2>3. Sum(g, T \cup R) = Sum(g, T) + Sum(g, R)
    BY <1>1, <2>1, <2>2, SumUnion
  <2> QED
    BY <2>2, <2>3 DEF R
<1>3. Sum(g, S \ T) = 0
  BY <1>1, SumZeros
<1>4. Sum(g, T) = Sum(f, T)
  BY <1>1, SumCongruence
<1>5. Sum(f, T) \in Int
  BY <1>1, SumInt
<1> QED
  BY <1>2, <1>3, <1>4, <1>5

\* A finite set of integers that is not empty has a largest element.
LEMMA MaxIsLargest ==
  ASSUME NEW S \in SUBSET Int, IsFiniteSet(S), S # {}
  PROVE  Max(S) \in S /\ \A y \in S : y <= Max(S)
<1> DEFINE P == {s \in SUBSET S : s # {} => \E x \in s : \A y \in s : x >= y}
<1>1. ASSUME NEW s \in SUBSET S, \A x \in s : s \ {x} \in P PROVE s \in P
  <2>1. CASE s = {}
    BY <2>1
  <2>2. ASSUME NEW x \in s PROVE s \in P
    <3>1. CASE s \ {x} = {}
      BY <3>1
    <3>2. CASE s \ {x} # {}
      <4>1. PICK z \in s \ {x} : \A y \in s \ {x} : z >= y
        BY <1>1, <3>2
      <4>2. x \in Int /\ z \in Int /\ s \subseteq Int
        OBVIOUS
      <4>3. CASE x >= z
        <5>1. \A y \in s : x >= y
          BY <4>1, <4>2, <4>3
        <5> QED
          BY <5>1
      <4>4. CASE z >= x
        <5>1. \A y \in s : z >= y
          BY <4>1, <4>2, <4>4
        <5> QED
          BY <5>1
      <4> QED
        BY <4>2, <4>3, <4>4
    <3> QED
      BY <3>1, <3>2
  <2> QED
    BY <2>1, <2>2
<1>2. \A s \in SUBSET S : s \in P
  <2>1. P \in SUBSET SUBSET S
    OBVIOUS
  <2> HIDE DEF P
  <2> QED
    BY <1>1, <2>1, SubsetInduction
<1>3. \E x \in S : \A y \in S : x >= y
  BY <1>2
<1> QED
  BY <1>3 DEF Max
=============================================================================
