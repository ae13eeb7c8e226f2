----------------------------- MODULE SumProofs -----------------------------
(***************************************************************************)
(* Sums over finite sets.  MapThenSumSet of the community modules folds    *)
(* over the subsets of a set in the order in which CHOOSE picks its        *)
(* elements; here it is shown that the order does not matter, that an      *)
(* element can be taken out or put in, and that a sum only depends on the  *)
(* weights of its elements.  Induction is over sets of naturals and sets   *)
(* of subsets, so that no theorem has to be instantiated with an operator. *)
(***************************************************************************)
EXTENDS Integers, FiniteSetsExt, FiniteSetTheorems, WellFoundedInduction, TLAPS

\* A set of naturals that is not empty has a least element.
LEMMA LeastNatural ==
  ASSUME NEW T, T \subseteq Nat, T # {}
  PROVE  \E x \in T : \A y \in T : x <= y
<1> DEFINE R == OpToRel(<, Nat)
<1>1. \A x, y \in Nat : y < x => <<y, x>> \in R
  BY DEF OpToRel
<1> HIDE DEF R
<1>2. PICK x \in T : \A y \in T : ~(<<y, x>> \in R)
  BY NatLessThanWellFounded, WFMin DEF R
<1>3. \A y \in T : ~(y < x)
  BY <1>1, <1>2
<1> QED
  BY <1>2, <1>3

\* Induction up to a bound, stated for a set.
LEMMA SetInduction ==
  ASSUME NEW N \in Nat, NEW S, 0 \in S,
         \A n \in 0..N : n \in S /\ n < N => n + 1 \in S
  PROVE  0..N \subseteq S
<1> DEFINE T == {n \in 0..N : n \notin S}
<1> SUFFICES ASSUME T # {} PROVE FALSE
  OBVIOUS
<1>0. T \subseteq Nat
  OBVIOUS
<1>1. PICK x \in T : \A y \in T : x <= y
  <2> HIDE DEF T
  <2> QED
    BY <1>0, LeastNatural
<1>2. x # 0 /\ x - 1 \in 0..N /\ x - 1 \notin T
  BY <1>1
<1> QED
  BY <1>1, <1>2

-----------------------------------------------------------------------------
(* Subsets of a finite set. *)

\* A subset of a finite set is finite, and smaller without an element of it.
LEMMA Smaller ==
  ASSUME NEW S, IsFiniteSet(S), NEW T \in SUBSET S
  PROVE  /\ IsFiniteSet(T) /\ Cardinality(T) \in Nat
         /\ Cardinality(T) <= Cardinality(S)
         /\ Cardinality(T) = 0 <=> T = {}
         /\ \A x \in T : T \ {x} \in SUBSET S /\ Cardinality(T \ {x}) = Cardinality(T) - 1
<1>1. IsFiniteSet(T) /\ Cardinality(T) <= Cardinality(S)
  BY FS_Subset
<1>2. Cardinality(T) \in Nat
  BY <1>1, FS_CardinalityType
<1>3. Cardinality(T) = 0 <=> T = {}
  BY <1>1, FS_EmptySet
<1>4. \A x \in T : Cardinality(T \ {x}) = Cardinality(T) - 1
  BY <1>1, FS_RemoveElement
<1> QED
  BY <1>1, <1>2, <1>3, <1>4

\* Induction over the subsets of a finite set: what holds of a set whenever it
\* holds of the set without any one of its elements holds of them all.
LEMMA SubsetInduction ==
  ASSUME NEW S, IsFiniteSet(S), NEW P,
         \A T \in SUBSET S : (\A x \in T : T \ {x} \in P) => T \in P
  PROVE  SUBSET S \subseteq P
<1> DEFINE Sizes == {n \in 0..Cardinality(S) :
                       \A T \in SUBSET S : Cardinality(T) <= n => T \in P}
<1>0. Cardinality(S) \in Nat
  BY FS_CardinalityType
<1>1. 0 \in Sizes
  <2> SUFFICES ASSUME NEW T \in SUBSET S, Cardinality(T) <= 0 PROVE T \in P
    BY <1>0
  <2>1. T = {}
    BY Smaller
  <2> QED
    BY <2>1
<1>2. ASSUME NEW n \in 0..Cardinality(S), n \in Sizes, n < Cardinality(S)
      PROVE  n + 1 \in Sizes
  <2> SUFFICES ASSUME NEW T \in SUBSET S, Cardinality(T) <= n + 1 PROVE T \in P
    BY <1>0, <1>2
  <2>1. ASSUME NEW x \in T PROVE T \ {x} \in P
    <3>1. T \ {x} \in SUBSET S /\ Cardinality(T \ {x}) = Cardinality(T) - 1
          /\ Cardinality(T) \in Nat
      BY Smaller
    <3>2. Cardinality(T \ {x}) <= n
      BY <1>0, <3>1
    <3> QED
      BY <1>2, <3>1, <3>2
  <2> QED
    BY <2>1
<1>3. 0..Cardinality(S) \subseteq Sizes
  <2> HIDE DEF Sizes
  <2> QED
    BY <1>0, <1>1, <1>2, SetInduction
<1>4. Cardinality(S) \in Sizes
  BY <1>0, <1>3
<1> QED
  BY <1>4, Smaller

-----------------------------------------------------------------------------
(* The function inside MapThenSumSet. *)

Pick(T) == CHOOSE x \in T : TRUE

\* What it means for g to add up the weights f over every subset of S.
SumStep(f, g, T) == IF T = {} THEN 0 ELSE f[Pick(T)] + g[T \ {Pick(T)}]

SumsOf(f, S, g) == g = [T \in SUBSET S |-> SumStep(f, g, T)]

\* The same for the subsets with at most n elements.
Below(S, n) == {T \in SUBSET S : Cardinality(T) <= n}

SumsBelow(f, S, n, g) == g = [T \in Below(S, n) |-> SumStep(f, g, T)]

LEMMA PickIn == ASSUME NEW T, T # {} PROVE Pick(T) \in T
  BY DEF Pick

\* Every finite set has its function of sums.
LEMMA SumsOfExist ==
  ASSUME NEW f, NEW S, IsFiniteSet(S)
  PROVE  \E g : SumsOf(f, S, g)
<1> DEFINE N == Cardinality(S)
           Sizes == {n \in 0..N : \E g : SumsBelow(f, S, n, g)}
<1>0. N \in Nat
  BY FS_CardinalityType
<1>1. 0 \in Sizes
  <2> DEFINE g == [T \in Below(S, 0) |-> 0]
  <2>1. \A T \in Below(S, 0) : T = {}
    BY Smaller DEF Below
  <2>2. \A T \in Below(S, 0) : SumStep(f, g, T) = 0
    BY <2>1 DEF SumStep
  <2>3. g = [T \in Below(S, 0) |-> SumStep(f, g, T)]
    BY <2>2, Zenon
  <2>4. SumsBelow(f, S, 0, g)
    BY <2>3 DEF SumsBelow
  <2> QED
    BY <1>0, <2>4
<1>2. ASSUME NEW n \in 0..N, n \in Sizes, n < N
      PROVE  n + 1 \in Sizes
  <2>1. PICK g : SumsBelow(f, S, n, g)
    BY <1>2
  <2> DEFINE h == [T \in Below(S, n + 1) |-> SumStep(f, g, T)]
  <2>2. \A T \in Below(S, n) : T \in Below(S, n + 1)
    BY <1>0, Smaller DEF Below
  <2>3. \A T \in Below(S, n) : h[T] = g[T]
    BY <2>1, <2>2 DEF SumsBelow
  <2>4. \A T \in Below(S, n + 1) : T # {} => T \ {Pick(T)} \in Below(S, n)
    <3> TAKE T \in Below(S, n + 1)
    <3> HAVE T # {}
    <3>1. Pick(T) \in T /\ T \in SUBSET S /\ Cardinality(T) <= n + 1
      BY PickIn DEF Below
    <3>2. T \ {Pick(T)} \in SUBSET S /\ Cardinality(T \ {Pick(T)}) = Cardinality(T) - 1
          /\ Cardinality(T) \in Nat
      BY <3>1, Smaller
    <3> QED
      BY <1>0, <3>1, <3>2 DEF Below
  <2>5. \A T \in Below(S, n + 1) : SumStep(f, h, T) = SumStep(f, g, T)
    <3> HIDE DEF h
    <3> QED
      BY <2>3, <2>4 DEF SumStep
  <2>6. h = [T \in Below(S, n + 1) |-> SumStep(f, h, T)]
    BY <2>5, Zenon
  <2>7. SumsBelow(f, S, n + 1, h)
    BY <2>6 DEF SumsBelow
  <2>8. n + 1 \in 0..N
    BY <1>0, <1>2
  <2> QED
    BY <2>7, <2>8
<1>3. 0..N \subseteq Sizes
  <2> HIDE DEF Sizes, N
  <2> QED
    BY <1>0, <1>1, <1>2, SetInduction
<1>4. PICK g : SumsBelow(f, S, N, g)
  BY <1>0, <1>3
<1>5. Below(S, N) = SUBSET S
  BY Smaller DEF Below
<1>6. SumsOf(f, S, g)
  BY <1>4, <1>5 DEF SumsOf, SumsBelow
<1> QED
  BY <1>6

\* The equations of a function of sums.
LEMMA SumsOfEmpty ==
  ASSUME NEW f, NEW S, NEW g, SumsOf(f, S, g)
  PROVE  g[{}] = 0
<1>1. {} \in SUBSET S
  OBVIOUS
<1> QED
  BY <1>1 DEF SumsOf, SumStep

LEMMA SumsOfStep ==
  ASSUME NEW f, NEW S, NEW g, SumsOf(f, S, g)
  PROVE  \A T : T \subseteq S /\ T # {} =>
           Pick(T) \in T /\ g[T] = f[Pick(T)] + g[T \ {Pick(T)}]
<1> SUFFICES ASSUME NEW T, T \subseteq S, T # {}
             PROVE  Pick(T) \in T /\ g[T] = f[Pick(T)] + g[T \ {Pick(T)}]
  OBVIOUS
<1>1. g[T] = SumStep(f, g, T)
  BY DEF SumsOf
<1> QED
  BY <1>1, PickIn DEF SumStep

\* Integer weights have integer sums ...
LEMMA SumsOfInt ==
  ASSUME NEW f, NEW S, IsFiniteSet(S), NEW g, SumsOf(f, S, g),
         \A x \in S : f[x] \in Int
  PROVE  \A T \in SUBSET S : g[T] \in Int
<1> DEFINE P == {T \in SUBSET S : g[T] \in Int}
<1>1. ASSUME NEW T \in SUBSET S, \A x \in T : T \ {x} \in P
      PROVE  T \in P
  <2>1. CASE T = {}
    BY <2>1, SumsOfEmpty
  <2>2. CASE T # {}
    <3>0. T \subseteq S
      OBVIOUS
    <3>1. Pick(T) \in T /\ g[T] = f[Pick(T)] + g[T \ {Pick(T)}]
      BY <2>2, <3>0, SumsOfStep, SMT
    <3>2. g[T \ {Pick(T)}] \in Int /\ f[Pick(T)] \in Int
      BY <1>1, <3>1
    <3> QED
      BY <3>1, <3>2
  <2> QED
    BY <2>1, <2>2
<1>2. SUBSET S \subseteq P
  <2> HIDE DEF P
  <2> QED
    BY <1>1, SubsetInduction
<1> QED
  BY <1>2

\* ... natural weights natural ones.
LEMMA SumsOfNat ==
  ASSUME NEW f, NEW S, IsFiniteSet(S), NEW g, SumsOf(f, S, g),
         \A x \in S : f[x] \in Nat
  PROVE  \A T \in SUBSET S : g[T] \in Nat
<1> DEFINE P == {T \in SUBSET S : g[T] \in Nat}
<1>1. ASSUME NEW T \in SUBSET S, \A x \in T : T \ {x} \in P
      PROVE  T \in P
  <2>1. CASE T = {}
    BY <2>1, SumsOfEmpty
  <2>2. CASE T # {}
    <3>0. T \subseteq S
      OBVIOUS
    <3>1. Pick(T) \in T /\ g[T] = f[Pick(T)] + g[T \ {Pick(T)}]
      BY <2>2, <3>0, SumsOfStep, SMT
    <3>2. g[T \ {Pick(T)}] \in Nat /\ f[Pick(T)] \in Nat
      BY <1>1, <3>1
    <3> QED
      BY <3>1, <3>2
  <2> QED
    BY <2>1, <2>2
<1>2. SUBSET S \subseteq P
  <2> HIDE DEF P
  <2> QED
    BY <1>1, SubsetInduction
<1> QED
  BY <1>2

\* Any element can be taken out first, not only the one that CHOOSE picks.
LEMMA SumsOfOrder ==
  ASSUME NEW f, NEW S, IsFiniteSet(S), NEW g, SumsOf(f, S, g),
         \A x \in S : f[x] \in Int
  PROVE  \A T \in SUBSET S : \A x \in T : g[T] = f[x] + g[T \ {x}]
<1> DEFINE P == {T \in SUBSET S : \A x \in T : g[T] = f[x] + g[T \ {x}]}
<1>0. \A T \in SUBSET S : g[T] \in Int
  BY SumsOfInt
<1>1. ASSUME NEW T \in SUBSET S, \A x \in T : T \ {x} \in P
      PROVE  T \in P
  <2> SUFFICES ASSUME NEW x \in T PROVE g[T] = f[x] + g[T \ {x}]
    OBVIOUS
  <2> DEFINE p == Pick(T)
  <2>1. p \in T /\ g[T] = f[p] + g[T \ {p}]
    BY T \subseteq S, T # {}, SumsOfStep, SMT
  <2> HIDE DEF p
  <2>2. CASE x = p
    BY <2>1, <2>2
  <2>3. CASE x # p
    <3>1. g[T \ {p}] = f[x] + g[(T \ {p}) \ {x}]
      BY <1>1, <2>1, <2>3
    <3>2. g[T \ {x}] = f[p] + g[(T \ {x}) \ {p}]
      BY <1>1, <2>1, <2>3
    <3>3. (T \ {p}) \ {x} = (T \ {x}) \ {p}
      OBVIOUS
    <3>4. g[(T \ {p}) \ {x}] \in Int /\ f[x] \in Int /\ f[p] \in Int
      BY <1>0, <2>1
    <3>5. g[T \ {x}] = f[p] + g[(T \ {p}) \ {x}]
      BY <3>2, <3>3
    <3> HIDE DEF P
    <3> QED
      BY <2>1, <3>1, <3>4, <3>5
  <2> QED
    BY <2>2, <2>3
<1>2. SUBSET S \subseteq P
  <2> HIDE DEF P
  <2> QED
    BY <1>1, SubsetInduction
<1> QED
  BY <1>2

\* Two functions of sums agree where their weights do.
LEMMA SumsOfAgree ==
  ASSUME NEW f, NEW h, NEW S, IsFiniteSet(S), NEW g, NEW k, NEW R, S \subseteq R,
         SumsOf(f, S, g), SumsOf(h, R, k), \A x \in S : f[x] = h[x]
  PROVE  \A T \in SUBSET S : g[T] = k[T]
<1> DEFINE P == {T \in SUBSET S : g[T] = k[T]}
<1>0. \A T : T \subseteq R /\ T # {} => k[T] = h[Pick(T)] + k[T \ {Pick(T)}]
  BY SumsOfStep
<1>1. ASSUME NEW T \in SUBSET S, \A x \in T : T \ {x} \in P
      PROVE  T \in P
  <2>1. CASE T = {}
    BY <2>1, SumsOfEmpty
  <2>2. CASE T # {}
    <3>0. T \subseteq S /\ T \subseteq R
      OBVIOUS
    <3>1. Pick(T) \in T /\ g[T] = f[Pick(T)] + g[T \ {Pick(T)}]
      BY <2>2, <3>0, SumsOfStep, SMT
    <3>2. k[T] = h[Pick(T)] + k[T \ {Pick(T)}]
      BY <1>0, <2>2, <3>0
    <3> QED
      BY <1>1, <3>1, <3>2
  <2> QED
    BY <2>1, <2>2
<1>2. SUBSET S \subseteq P
  <2> HIDE DEF P
  <2> QED
    BY <1>1, SubsetInduction
<1> QED
  BY <1>2

-----------------------------------------------------------------------------
(* MapThenSumSet. *)

\* The weights of the elements of S, added up.
SumOver(f, S) == MapThenSumSet(LAMBDA x : f[x], S)

\* The community modules' definition picks a function of sums.
LEMMA SumOverIsSum ==
  ASSUME NEW f, NEW S, IsFiniteSet(S)
  PROVE  \E g : SumsOf(f, S, g) /\ SumOver(f, S) = g[S]
<1> DEFINE g == CHOOSE g : SumsOf(f, S, g)
<1>1. SumsOf(f, S, g)
  BY SumsOfExist
<1>2. SumOver(f, S) = g[S]
  BY DEF SumOver, MapThenSumSet, MapThenFoldSet, SumsOf, SumStep, Pick
<1> QED
  BY <1>1, <1>2

\* Nothing adds up to zero.
LEMMA SumEmpty == ASSUME NEW f PROVE SumOver(f, {}) = 0
<1>1. PICK g : SumsOf(f, {}, g) /\ SumOver(f, {}) = g[{}]
  BY SumOverIsSum, FS_EmptySet
<1> QED
  BY <1>1, SumsOfEmpty

\* An element of the set adds its own weight.
LEMMA SumRemove ==
  ASSUME NEW f, NEW S, IsFiniteSet(S), \A x \in S : f[x] \in Int, NEW x \in S
  PROVE  SumOver(f, S) = f[x] + SumOver(f, S \ {x})
<1>1. PICK g : SumsOf(f, S, g) /\ SumOver(f, S) = g[S]
  BY SumOverIsSum
<1>2. IsFiniteSet(S \ {x})
  BY FS_RemoveElement
<1>3. PICK h : SumsOf(f, S \ {x}, h) /\ SumOver(f, S \ {x}) = h[S \ {x}]
  BY <1>2, SumOverIsSum
<1>4. h[S \ {x}] = g[S \ {x}]
  BY <1>1, <1>2, <1>3, SumsOfAgree
<1>5. g[S] = f[x] + g[S \ {x}]
  BY <1>1, SumsOfOrder
<1> QED
  BY <1>1, <1>3, <1>4, <1>5

\* So does an element that is put in.
LEMMA SumAdd ==
  ASSUME NEW f, NEW S, IsFiniteSet(S), NEW x, x \notin S,
         \A y \in S \cup {x} : f[y] \in Int
  PROVE  SumOver(f, S \cup {x}) = f[x] + SumOver(f, S)
<1>1. IsFiniteSet(S \cup {x})
  BY FS_AddElement
<1>2. (S \cup {x}) \ {x} = S /\ x \in S \cup {x}
  OBVIOUS
<1> QED
  BY <1>1, <1>2, SumRemove

\* A sum of integers is an integer, a sum of naturals a natural.
LEMMA SumInt ==
  ASSUME NEW f, NEW S, IsFiniteSet(S), \A x \in S : f[x] \in Int
  PROVE  SumOver(f, S) \in Int
<1>1. PICK g : SumsOf(f, S, g) /\ SumOver(f, S) = g[S]
  BY SumOverIsSum
<1> QED
  BY <1>1, SumsOfInt

LEMMA SumNat ==
  ASSUME NEW f, NEW S, IsFiniteSet(S), \A x \in S : f[x] \in Nat
  PROVE  SumOver(f, S) \in Nat
<1>1. PICK g : SumsOf(f, S, g) /\ SumOver(f, S) = g[S]
  BY SumOverIsSum
<1> QED
  BY <1>1, SumsOfNat

\* A sum depends on the weights of its elements and on nothing else.
LEMMA SumAgree ==
  ASSUME NEW f, NEW h, NEW S, IsFiniteSet(S), \A x \in S : f[x] = h[x]
  PROVE  SumOver(f, S) = SumOver(h, S)
<1>1. PICK g : SumsOf(f, S, g) /\ SumOver(f, S) = g[S]
  BY SumOverIsSum
<1>2. PICK k : SumsOf(h, S, k) /\ SumOver(h, S) = k[S]
  BY SumOverIsSum
<1> QED
  BY <1>1, <1>2, SumsOfAgree
=============================================================================
