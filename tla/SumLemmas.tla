------------------------------ MODULE SumLemmas ------------------------------
(***************************************************************************)
(* Natural numbers by their least elements, and sums of functions over     *)
(* finite sets: the value of SumFunction for one element more.             *)
(***************************************************************************)
EXTENDS FiniteSetsExt, FiniteSetTheorems, WellFoundedInduction, TLAPS

LEMMA LeastElement ==
    ASSUME NEW S \in SUBSET Nat, S # {}
    PROVE  \E m \in S : \A n \in S : m <= n
<1> DEFINE R == OpToRel(<, Nat)
<1>1. PICK m \in S : \A n \in S : <<n, m>> \notin R
  <2> HIDE DEF R
  <2>1. IsWellFoundedOn(R, Nat)
    BY NatLessThanWellFounded DEF R
  <2>2. QED
    BY <2>1, WFMin
<1>2. \A n \in S : ~(n < m)
  BY <1>1 DEF OpToRel
<1>3. QED
  BY <1>2

\* Induction, said of sets of numbers.
LEMMA Inductive ==
    ASSUME NEW S \in SUBSET Nat, 0 \in S, \A n \in S : n + 1 \in S
    PROVE  \A n \in Nat : n \in S
<1> SUFFICES ASSUME Nat \ S # {} PROVE FALSE
  OBVIOUS
<1>1. PICK m \in Nat \ S : \A n \in Nat \ S : m <= n
  <2>1. Nat \ S \in SUBSET Nat
    OBVIOUS
  <2>2. QED
    BY <2>1, LeastElement
<1>2. m - 1 \in Nat /\ ~(m <= m - 1) /\ (m - 1) + 1 = m
  BY <1>1
<1>3. m - 1 \in S
  BY <1>1, <1>2
<1>4. QED
  BY <1>1, <1>2, <1>3

LEMMA MinOf ==
    ASSUME NEW S \in SUBSET Nat, S # {}
    PROVE  Min(S) \in S /\ \A i \in S : Min(S) <= i
<1>1. \E m \in S : \A i \in S : m <= i
  <2>1. S \subseteq Nat
    OBVIOUS
  <2>2. QED
    BY <2>1, LeastElement
<1>2. QED
  BY <1>1 DEF Min

\* The largest element, by the least distance from the bound.
LEMMA MaxOf ==
    ASSUME NEW n \in Nat, NEW S \in SUBSET (1 .. n), S # {}
    PROVE  Max(S) \in S /\ \A i \in S : i <= Max(S)
<1> DEFINE D == {n - i : i \in S}
<1>1. D \in SUBSET Nat /\ D # {}
  <2>1. \A i \in S : i \in Nat /\ i <= n /\ n - i \in Nat
    OBVIOUS
  <2>2. PICK i : i \in S
    OBVIOUS
  <2>3. n - i \in D
    BY <2>2
  <2>4. D \in SUBSET Nat
    BY <2>1
  <2>5. QED
    BY <2>3, <2>4
<1>2. PICK d \in D : \A e \in D : d <= e
  BY <1>1, LeastElement
<1>3. PICK m \in S : d = n - m
  OBVIOUS
<1>4. \A i \in S : n - i \in D
  OBVIOUS
<1>5. \A i \in S : n - m <= n - i
  BY <1>2, <1>3, <1>4
<1>6. \A i \in S : m >= i
  BY <1>5
<1>7. Max(S) \in S /\ \A i \in S : Max(S) >= i
  BY <1>6 DEF Max
<1>8. QED
  BY <1>7

\* What is largest is what Max chooses.
LEMMA MaxIs ==
    ASSUME NEW S \in SUBSET Nat, NEW z \in S, \A i \in S : i <= z
    PROVE  Max(S) = z
<1>1. \A m \in S : (\A i \in S : m >= i) => m = z
  BY SMT
<1>2. \A i \in S : z >= i
  BY SMT
<1>3. QED
  BY <1>1, <1>2 DEF Max

LEMMA MinIs ==
    ASSUME NEW S \in SUBSET Nat, NEW a \in S, \A i \in S : a <= i
    PROVE  Min(S) = a
<1>1. \A m \in S : (\A i \in S : m <= i) => m = a
  BY SMT
<1>2. QED
  BY <1>1 DEF Min

-----------------------------------------------------------------------------
(* What SumFunction computes: for each subset of the domain, the value of  *)
(* an element it chooses and the sum for the others.                       *)

Pick(s) == CHOOSE x \in s : TRUE

Partial(f) ==
    CHOOSE g : g = [s \in SUBSET DOMAIN f |->
                      IF s = {} THEN 0 ELSE f[Pick(s)] + g[s \ {Pick(s)}]]

LEMMA SumIsPartial ==
    ASSUME NEW f
    PROVE  SumFunction(f) = Partial(f)[DOMAIN f]
BY DEF SumFunction, SumFunctionOnSet, FoldFunctionOnSet, MapThenFoldSet, Partial, Pick

AddsUp(f, g, s) == g[s] = IF s = {} THEN 0 ELSE f[Pick(s)] + g[s \ {Pick(s)}]

UpTo(S, n) == {s \in SUBSET S : Cardinality(s) <= n}

LEMMA SubsetFacts ==
    ASSUME NEW S, IsFiniteSet(S), NEW s \in SUBSET S
    PROVE  /\ IsFiniteSet(s) /\ Cardinality(s) \in Nat
           /\ Cardinality(s) = 0 <=> s = {}
           /\ \A x \in s : /\ s \ {x} \in SUBSET S
                           /\ Cardinality(s \ {x}) = Cardinality(s) - 1
           /\ s # {} => Pick(s) \in s
<1>1. IsFiniteSet(s) /\ Cardinality(s) \in Nat
  BY FS_Subset, FS_CardinalityType
<1>2. Cardinality(s) = 0 <=> s = {}
  BY <1>1, FS_EmptySet
<1>3. \A x \in s : Cardinality(s \ {x}) = Cardinality(s) - 1
  BY <1>1, FS_RemoveElement
<1>4. QED
  BY <1>1, <1>2, <1>3 DEF Pick

\* There is such a function, by sets of growing size.
LEMMA PartialExists ==
    ASSUME NEW S, IsFiniteSet(S), NEW f \in [S -> Int]
    PROVE  \A n \in Nat : \E g \in [UpTo(S, n) -> Int] :
              \A s \in UpTo(S, n) : AddsUp(f, g, s)
<1> DEFINE Fine(n) == \E g \in [UpTo(S, n) -> Int] :
                        \A s \in UpTo(S, n) : AddsUp(f, g, s)
           N == {n \in Nat : Fine(n)}
<1>1. 0 \in N
  <2> DEFINE g == [s \in UpTo(S, 0) |-> 0]
  <2>1. \A s \in UpTo(S, 0) : s = {}
    BY SubsetFacts DEF UpTo
  <2>2. \A s \in UpTo(S, 0) : AddsUp(f, g, s)
    BY <2>1 DEF AddsUp
  <2>3. g \in [UpTo(S, 0) -> Int]
    OBVIOUS
  <2>4. QED
    BY <2>2, <2>3
<1>2. ASSUME NEW n \in N PROVE n + 1 \in N
  <2>1. PICK g \in [UpTo(S, n) -> Int] : \A s \in UpTo(S, n) : AddsUp(f, g, s)
    OBVIOUS
  <2> DEFINE h == [s \in UpTo(S, n + 1) |->
                     IF s = {} THEN 0 ELSE f[Pick(s)] + g[s \ {Pick(s)}]]
  <2>2. ASSUME NEW s \in UpTo(S, n + 1), s # {}
        PROVE  /\ s \ {Pick(s)} \in UpTo(S, n) /\ s \ {Pick(s)} \in UpTo(S, n + 1)
               /\ Pick(s) \in S
    <3>1. /\ s \in SUBSET S /\ Cardinality(s) <= n + 1 /\ Cardinality(s) \in Nat
          /\ Pick(s) \in s /\ s \ {Pick(s)} \in SUBSET S
          /\ Cardinality(s \ {Pick(s)}) = Cardinality(s) - 1
      BY <2>2, SubsetFacts DEF UpTo
    <3>2. Cardinality(s \ {Pick(s)}) <= n /\ Cardinality(s \ {Pick(s)}) <= n + 1
      BY <3>1
    <3>3. QED
      BY <3>1, <3>2 DEF UpTo
  <2>3. h \in [UpTo(S, n + 1) -> Int]
    BY <2>2
  <2>4. ASSUME NEW s \in UpTo(S, n) PROVE s \in UpTo(S, n + 1) /\ h[s] = g[s]
    <3>1. s \in UpTo(S, n + 1)
      BY SubsetFacts DEF UpTo
    <3>2. QED
      BY <2>1, <3>1 DEF AddsUp
  <2>5. ASSUME NEW s \in UpTo(S, n + 1) PROVE AddsUp(f, h, s)
    <3>1. h[s] = IF s = {} THEN 0 ELSE f[Pick(s)] + g[s \ {Pick(s)}]
      OBVIOUS
    <3>2. s # {} => h[s \ {Pick(s)}] = g[s \ {Pick(s)}]
      BY <2>2, <2>4
    <3> HIDE DEF h
    <3>3. QED
      BY <3>1, <3>2 DEF AddsUp
  <2> HIDE DEF h
  <2>6. n + 1 \in Nat /\ Fine(n + 1)
    BY <2>3, <2>5
  <2>7. QED
    BY <2>6
<1>3. N \in SUBSET Nat
  OBVIOUS
<1> HIDE DEF N
<1>4. \A n \in Nat : n \in N
  BY <1>1, <1>2, <1>3, Inductive
<1>5. QED
  BY <1>4 DEF N

LEMMA PartialFacts ==
    ASSUME NEW S, IsFiniteSet(S), NEW f \in [S -> Int]
    PROVE  \A s \in SUBSET S : AddsUp(f, Partial(f), s)
<1>1. PICK n \in Nat : n = Cardinality(S)
  BY FS_CardinalityType
<1>2. UpTo(S, n) = SUBSET S
  <2>1. \A s \in SUBSET S : Cardinality(s) <= n
    BY <1>1, FS_Subset
  <2>2. QED
    BY <2>1 DEF UpTo
<1>3. PICK g \in [SUBSET S -> Int] : \A s \in SUBSET S : AddsUp(f, g, s)
  BY <1>2, PartialExists
<1>4. g = [s \in SUBSET DOMAIN f |->
             IF s = {} THEN 0 ELSE f[Pick(s)] + g[s \ {Pick(s)}]]
  BY <1>3 DEF AddsUp
<1>5. Partial(f) = [s \in SUBSET DOMAIN f |->
             IF s = {} THEN 0 ELSE f[Pick(s)] + Partial(f)[s \ {Pick(s)}]]
  BY <1>4 DEF Partial
<1>6. QED
  BY <1>5 DEF AddsUp

\* The order of the choices makes no difference.
AnyOrder(f, g, s) == g[s] \in Int /\ \A x \in s : g[s] = f[x] + g[s \ {x}]

LEMMA AnyOrderStep ==
    ASSUME NEW S, IsFiniteSet(S), NEW f \in [S -> Int], NEW g, NEW n \in Nat,
           \A t \in SUBSET S : Cardinality(t) <= n => AnyOrder(f, g, t),
           NEW s \in SUBSET S, Cardinality(s) = n + 1, AddsUp(f, g, s)
    PROVE  AnyOrder(f, g, s)
<1> PICK c : c = Pick(s)
  OBVIOUS
<1>1. s # {} /\ c \in s /\ c \in S /\ f[c] \in Int
  BY SubsetFacts
<1>2. g[s] = f[c] + g[s \ {c}]
  BY <1>1 DEF AddsUp
<1>3. ASSUME NEW x \in s
      PROVE  s \ {x} \in SUBSET S /\ Cardinality(s \ {x}) = n
             /\ AnyOrder(f, g, s \ {x})
  <2>1. s \ {x} \in SUBSET S /\ Cardinality(s \ {x}) = n
    BY SubsetFacts
  <2>2. QED
    BY <2>1
<1>4. g[s \ {c}] \in Int
  BY <1>1, <1>3 DEF AnyOrder
<1>5. ASSUME NEW x \in s, x # c PROVE g[s] = f[x] + g[s \ {x}]
  <2>1. x \in s \ {c} /\ c \in s \ {x} /\ (s \ {c}) \ {x} = (s \ {x}) \ {c}
    BY <1>1, <1>5
  <2> PICK r : r = (s \ {c}) \ {x}
    OBVIOUS
  <2>2. g[s \ {c}] = f[x] + g[r]
    BY <1>1, <1>3, <2>1 DEF AnyOrder
  <2>3. g[s \ {x}] = f[c] + g[r]
    BY <1>3, <2>1 DEF AnyOrder
  <2>4. g[r] \in Int
    <3>1. s \ {c} \in SUBSET S /\ Cardinality(s \ {c}) = n
      BY <1>1, <1>3
    <3> PICK t : t = s \ {c}
      OBVIOUS
    <3>2. t \in SUBSET S /\ Cardinality(t) = n /\ x \in t /\ r = t \ {x}
      BY <2>1, <3>1
    <3>3. r \in SUBSET S /\ Cardinality(r) = n - 1
      BY <3>2, SubsetFacts
    <3>4. AnyOrder(f, g, r)
      BY <3>3
    <3>5. QED
      BY <3>4 DEF AnyOrder
  <2>5. f[x] \in Int
    OBVIOUS
  <2>6. QED
    BY ONLY <1>1, <1>2, <2>2, <2>3, <2>4, <2>5
<1>6. g[s] \in Int
  BY <1>1, <1>2, <1>4
<1>7. ASSUME NEW x \in s PROVE g[s] = f[x] + g[s \ {x}]
  <2>1. CASE x = c
    BY <1>2, <2>1
  <2>2. CASE x # c
    BY <1>5, <2>2
  <2>3. QED
    BY <2>1, <2>2
<1>8. QED
  BY <1>6, <1>7, Zenon DEF AnyOrder

LEMMA PartialAny ==
    ASSUME NEW S, IsFiniteSet(S), NEW f \in [S -> Int]
    PROVE  \A s \in SUBSET S : AnyOrder(f, Partial(f), s)
<1> DEFINE N == {n \in Nat : \A s \in UpTo(S, n) : AnyOrder(f, Partial(f), s)}
<1>1. \A s \in SUBSET S : AddsUp(f, Partial(f), s)
  BY PartialFacts
<1>2. 0 \in N
  <2>1. \A s \in UpTo(S, 0) : s = {}
    BY SubsetFacts DEF UpTo
  <2>2. Partial(f)[{}] = 0
    BY <1>1 DEF AddsUp
  <2>3. AnyOrder(f, Partial(f), {})
    BY <2>2 DEF AnyOrder
  <2>4. QED
    BY <2>1, <2>3
<1>3. ASSUME NEW n \in N PROVE n + 1 \in N
  <2>1. n \in Nat /\ \A t \in SUBSET S : Cardinality(t) <= n => AnyOrder(f, Partial(f), t)
    BY DEF UpTo
  <2> HIDE DEF N
  <2>2. ASSUME NEW s \in UpTo(S, n + 1) PROVE AnyOrder(f, Partial(f), s)
    <3>1. s \in SUBSET S /\ Cardinality(s) \in Nat /\ Cardinality(s) <= n + 1
      BY SubsetFacts DEF UpTo
    <3>2. CASE Cardinality(s) <= n
      BY <2>1, <3>1, <3>2
    <3>3. CASE Cardinality(s) = n + 1
      BY ONLY <1>1, <2>1, <3>1, <3>3, AnyOrderStep, IsFiniteSet(S), f \in [S -> Int]
    <3>4. QED
      BY <2>1, <3>1, <3>2, <3>3
  <2>3. n + 1 \in Nat
    BY <2>1
  <2>4. QED
    BY <2>2, <2>3 DEF N
<1>4. N \in SUBSET Nat
  OBVIOUS
<1> HIDE DEF N
<1>5. \A n \in Nat : n \in N
  BY <1>2, <1>3, <1>4, Inductive
<1>6. ASSUME NEW s \in SUBSET S PROVE AnyOrder(f, Partial(f), s)
  <2>1. PICK n \in Nat : n = Cardinality(s)
    BY SubsetFacts
  <2>2. s \in UpTo(S, n) /\ n \in N
    BY <1>5, <2>1 DEF UpTo
  <2>3. QED
    BY <2>2 DEF N
<1>7. QED
  BY <1>6

\* Values outside of a set make none to its sum.
LEMMA PartialLocal ==
    ASSUME NEW S, IsFiniteSet(S), NEW f \in [S -> Int],
           NEW T \in SUBSET S, NEW g \in [T -> Int], \A i \in T : g[i] = f[i]
    PROVE  Partial(g)[T] = Partial(f)[T]
<1> DEFINE N == {n \in Nat : \A s \in UpTo(T, n) : Partial(g)[s] = Partial(f)[s]}
<1>1. /\ IsFiniteSet(T)
      /\ \A s \in SUBSET S : AddsUp(f, Partial(f), s)
      /\ \A s \in SUBSET T : AddsUp(g, Partial(g), s)
  BY PartialFacts, FS_Subset
<1>2. 0 \in N
  <2>1. \A s \in UpTo(T, 0) : s = {}
    BY <1>1, SubsetFacts DEF UpTo
  <2>2. \A s \in UpTo(T, 0) : Partial(g)[s] = Partial(f)[s]
    BY <1>1, <2>1 DEF AddsUp
  <2>3. QED
    BY <2>2
<1>3. ASSUME NEW n \in N PROVE n + 1 \in N
  <2>1. /\ n \in Nat
        /\ \A t \in SUBSET T : Cardinality(t) <= n => Partial(g)[t] = Partial(f)[t]
    BY DEF UpTo
  <2> HIDE DEF N
  <2>2. ASSUME NEW s \in UpTo(T, n + 1) PROVE Partial(g)[s] = Partial(f)[s]
    <3>1. s \in SUBSET T /\ Cardinality(s) \in Nat /\ Cardinality(s) <= n + 1
      BY <1>1, SubsetFacts DEF UpTo
    <3>2. CASE Cardinality(s) <= n
      BY <2>1, <3>1, <3>2
    <3>3. CASE Cardinality(s) = n + 1
      <4> PICK r : r = s \ {Pick(s)}
        OBVIOUS
      <4>1. /\ s # {} /\ Pick(s) \in s /\ r \in SUBSET T /\ Cardinality(r) = n
        BY <1>1, <2>1, <3>1, <3>3, SubsetFacts
      <4>2. Partial(g)[r] = Partial(f)[r] /\ g[Pick(s)] = f[Pick(s)]
        BY <2>1, <3>1, <4>1
      <4>3. QED
        BY <1>1, <3>1, <4>1, <4>2 DEF AddsUp
    <3>4. QED
      BY <2>1, <3>1, <3>2, <3>3
  <2>3. n + 1 \in Nat
    BY <2>1
  <2>4. QED
    BY <2>2, <2>3 DEF N
<1>4. N \in SUBSET Nat
  OBVIOUS
<1> HIDE DEF N
<1>5. \A n \in Nat : n \in N
  BY <1>2, <1>3, <1>4, Inductive
<1>6. PICK n \in Nat : n = Cardinality(T)
  BY <1>1, FS_CardinalityType
<1>7. T \in UpTo(T, n) /\ n \in N
  BY <1>5, <1>6 DEF UpTo
<1>8. QED
  BY <1>7 DEF N

-----------------------------------------------------------------------------
(* Sums.                                                                   *)

LEMMA SumType ==
    ASSUME NEW S, IsFiniteSet(S), NEW f \in [S -> Int]
    PROVE  SumFunction(f) \in Int
<1>1. SumFunction(f) = Partial(f)[S]
  BY SumIsPartial
<1>2. QED
  BY <1>1, PartialAny DEF AnyOrder

LEMMA SumEmpty ==
    ASSUME NEW f \in [{} -> Int]
    PROVE  SumFunction(f) = 0
<1>1. SumFunction(f) = Partial(f)[{}]
  BY SumIsPartial
<1>2. AddsUp(f, Partial(f), {})
  BY FS_EmptySet, PartialFacts
<1>3. QED
  BY <1>1, <1>2 DEF AddsUp

\* A function of one element more.
LEMMA SumMore ==
    ASSUME NEW S, IsFiniteSet(S), NEW g \in [S -> Int],
           NEW x, x \notin S, NEW f \in [S \cup {x} -> Int],
           \A i \in S : f[i] = g[i]
    PROVE  SumFunction(f) = SumFunction(g) + f[x]
<1> DEFINE T == S \cup {x}
<1>1. IsFiniteSet(T) /\ T \ {x} = S /\ S \in SUBSET T /\ x \in T
  BY FS_AddElement
<1>2. SumFunction(f) = Partial(f)[T] /\ SumFunction(g) = Partial(g)[S]
  BY SumIsPartial
<1>3. f[x] \in Int
  OBVIOUS
<1> HIDE DEF T
<1>4. f \in [T -> Int]
  BY DEF T
<1>5. Partial(f)[T] = f[x] + Partial(f)[S] /\ Partial(f)[S] \in Int
  <2>1. T \in SUBSET T
    OBVIOUS
  <2>2. AnyOrder(f, Partial(f), T) /\ AnyOrder(f, Partial(f), S)
    BY <1>1, <1>4, <2>1, PartialAny
  <2>3. Partial(f)[T] = f[x] + Partial(f)[T \ {x}]
    BY <1>1, <2>2, Zenon DEF AnyOrder
  <2>4. Partial(f)[S] \in Int
    BY <2>2 DEF AnyOrder
  <2>5. QED
    BY <1>1, <2>3, <2>4
<1>6. Partial(g)[S] = Partial(f)[S]
  BY <1>1, <1>4, PartialLocal
<1>7. QED
  BY <1>2, <1>3, <1>5, <1>6
=============================================================================
