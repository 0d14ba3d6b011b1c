--------------------------- MODULE OperatorLemmas ---------------------------
(***************************************************************************)
(* What the operators the models are built from come to, for the proofs    *)
(* that need it: induction in terms of sets of numbers, sums of a function *)
(* over a finite set, sequences put together, taken apart, flattened and   *)
(* counted, sets put in order.                                             *)
(*                                                                         *)
(* The library defines sums and flattening by recursive functions. Each    *)
(* lemma about them is proved by induction on a number, where the set of   *)
(* the numbers that will do takes the place of a predicate.                *)
(***************************************************************************)
EXTENDS Functions, SequencesExt, FiniteSetTheorems, SequenceTheorems,
        WellFoundedInduction, TLAPS

-----------------------------------------------------------------------------
(* Induction.                                                              *)

\* Every set of naturals that is not empty has a least element.
LEMMA LeastNatural ==
  ASSUME NEW T, T \subseteq Nat, T # {}
  PROVE  \E m \in T : \A n \in T : m <= n
<1>. DEFINE R == OpToRel(<, Nat)
<1>1. IsWellFoundedOn(R, Nat)
  BY NatLessThanWellFounded
<1>2. PICK m \in T : \A n \in T : <<n, m>> \notin R
  <2>. HIDE DEF R
  <2>. QED
    BY <1>1, WFMin
<1>3. \A n \in T : ~ (n < m)
  BY <1>2 DEF OpToRel
<1>. QED
  BY <1>3

\* Induction, in terms of a set: one that holds 0, and n + 1 with n, holds every
\* natural.
LEMMA NatInductionBySet ==
  ASSUME NEW T, 0 \in T, \A n \in Nat : n \in T => n + 1 \in T
  PROVE  Nat \subseteq T
<1>. SUFFICES ASSUME Nat \ T # {} PROVE FALSE
  OBVIOUS
<1>1. PICK m \in Nat \ T : \A n \in Nat \ T : m <= n
  BY LeastNatural
<1>2. m # 0 /\ m - 1 \in Nat
  BY <1>1
<1>3. m - 1 \in T
  BY <1>1, <1>2
<1>. QED
  BY <1>1, <1>2, <1>3

\* Every finite set of naturals that is not empty has a greatest element.
LEMMA GreatestNatural ==
  ASSUME NEW S, IsFiniteSet(S), S \subseteq Nat, S # {}
  PROVE  \E m \in S : \A n \in S : n <= m
<1>. DEFINE Bounded(s) == \E m \in s : \A n \in s : n <= m
            T == {n \in Nat : \A s \in SUBSET S : s # {} /\ Cardinality(s) <= n => Bounded(s)}
<1>1. 0 \in T
  <2>1. ASSUME NEW s \in SUBSET S, Cardinality(s) <= 0 PROVE s = {}
    <3>1. IsFiniteSet(s) /\ Cardinality(s) \in Nat
      BY FS_Subset, FS_CardinalityType
    <3>2. Cardinality(s) = 0
      BY <2>1, <3>1
    <3>. QED
      BY <3>1, <3>2, FS_EmptySet
  <2>. QED
    BY <2>1
<1>2. ASSUME NEW n \in Nat, n \in T PROVE n + 1 \in T
  <2>. SUFFICES ASSUME NEW s \in SUBSET S, s # {}, Cardinality(s) <= n + 1 PROVE Bounded(s)
    OBVIOUS
  <2>1. PICK x : x \in s
    OBVIOUS
  <2>2. x \in Nat /\ IsFiniteSet(s) /\ Cardinality(s) \in Nat
    BY <2>1, FS_Subset, FS_CardinalityType
  <2>3. Cardinality(s \ {x}) = Cardinality(s) - 1
    BY <2>1, <2>2, FS_RemoveElement
  <2>4. Cardinality(s \ {x}) <= n
    BY <2>2, <2>3
  <2>5. CASE s \ {x} = {}
    BY <2>1, <2>2, <2>5
  <2>6. CASE s \ {x} # {}
    <3>1. PICK m \in s \ {x} : \A k \in s \ {x} : k <= m
      BY <1>2, <2>4, <2>6
    <3>2. m \in Nat /\ \A k \in s : k \in Nat
      OBVIOUS
    <3>3. CASE x <= m
      BY <3>1, <3>2, <3>3
    <3>4. CASE ~(x <= m)
      BY <2>1, <2>2, <3>1, <3>2, <3>4
    <3>. QED
      BY <3>3, <3>4
  <2>. QED
    BY <2>5, <2>6
<1>3. Cardinality(S) \in T
  <2>. HIDE DEF T
  <2>. QED
    BY <1>1, <1>2, NatInductionBySet, FS_CardinalityType
<1>. QED
  BY <1>3, FS_CardinalityType

-----------------------------------------------------------------------------
(* Sums: what the definition of the library comes to.                      *)

\* The element of a set that a sum takes first.
Pick(s) == CHOOSE x \in s : TRUE

\* g is, on the sets in D, the function the library chooses.
IsSum(g, f, D) ==
  g = [s \in D |-> IF s = {} THEN 0 ELSE f[Pick(s)] + g[s \ {Pick(s)}]]

\* What the library defines by a CHOOSE over recursive functions.
LEMMA SumIsChosen ==
  ASSUME NEW f, NEW S
  PROVE  SumFunctionOnSet(f, S) = (CHOOSE g : IsSum(g, f, SUBSET S))[S]
BY DEF SumFunctionOnSet, FoldFunctionOnSet, MapThenFoldSet, IsSum, Pick

\* The element a sum takes first is one of the set.
LEMMA PickIn == ASSUME NEW s, s # {} PROVE Pick(s) \in s
BY DEF Pick

\* The subsets of at most n elements.
Small(S, n) == {t \in SUBSET S : Cardinality(t) <= n}

\* Without it a subset is smaller by one.
LEMMA SmallerRest ==
  ASSUME NEW S, IsFiniteSet(S), NEW n \in Nat, NEW s \in Small(S, n + 1), s # {}
  PROVE  s \ {Pick(s)} \in Small(S, n)
<1>1. IsFiniteSet(s)
  BY FS_Subset DEF Small
<1>2. Cardinality(s \ {Pick(s)}) = Cardinality(s) - 1 /\ Cardinality(s) \in Nat
  BY <1>1, PickIn, FS_RemoveElement, FS_CardinalityType
<1>. QED
  BY <1>2 DEF Small

\* There is a recursive function to choose, for finite sets.
LEMMA SumExists ==
  ASSUME NEW f, NEW S, IsFiniteSet(S)
  PROVE  \E g : IsSum(g, f, SUBSET S)
<1>. DEFINE T == {n \in Nat : \E g : IsSum(g, f, Small(S, n))}
<1>1. 0 \in T
  <2>1. \A s \in Small(S, 0) : s = {}
    BY FS_EmptySet, FS_Subset, FS_CardinalityType DEF Small
  <2>2. IsSum([s \in Small(S, 0) |-> 0], f, Small(S, 0))
    BY <2>1 DEF IsSum
  <2>. QED
    BY <2>2
<1>2. ASSUME NEW n \in Nat, n \in T PROVE n + 1 \in T
  <2>1. PICK g : IsSum(g, f, Small(S, n))
    BY <1>2
  <2>. DEFINE h == [s \in Small(S, n + 1) |-> IF s = {} THEN 0 ELSE f[Pick(s)] + g[s \ {Pick(s)}]]
  <2>2. Small(S, n) \subseteq Small(S, n + 1)
    BY FS_Subset, FS_CardinalityType DEF Small
  <2>3. \A s \in Small(S, n) : h[s] = g[s]
    BY <2>1, <2>2 DEF IsSum
  <2>4. \A s \in Small(S, n + 1) : s # {} => h[s \ {Pick(s)}] = g[s \ {Pick(s)}]
    BY <2>3, SmallerRest
  <2>5. IsSum(h, f, Small(S, n + 1))
    BY <2>4 DEF IsSum
  <2>. QED
    BY <2>5
<1>3. Cardinality(S) \in T
  <2>. HIDE DEF T
  <2>. QED
    BY <1>1, <1>2, NatInductionBySet, FS_CardinalityType
<1>4. Small(S, Cardinality(S)) = SUBSET S
  BY FS_Subset DEF Small
<1>. QED
  BY <1>3, <1>4

\* Two such functions agree on a finite set, on however many others they are
\* defined.
LEMMA SumUnique ==
  ASSUME NEW f, NEW S, IsFiniteSet(S), NEW D, NEW E, SUBSET S \subseteq D, SUBSET S \subseteq E,
         NEW g, IsSum(g, f, D), NEW h, IsSum(h, f, E)
  PROVE  g[S] = h[S]
<1>. DEFINE T == {n \in Nat : \A s \in Small(S, n) : g[s] = h[s]}
<1>1. 0 \in T
  <2>1. \A s \in Small(S, 0) : s = {}
    BY FS_EmptySet, FS_Subset, FS_CardinalityType DEF Small
  <2>. QED
    BY <2>1 DEF IsSum
<1>2. ASSUME NEW n \in Nat, n \in T PROVE n + 1 \in T
  <2>1. ASSUME NEW s \in Small(S, n + 1) PROVE g[s] = h[s]
    <3>1. s \in D /\ s \in E
      BY DEF Small
    <3>2. CASE s = {}
      BY <3>1, <3>2 DEF IsSum
    <3>3. CASE s # {}
      <4>1. s \ {Pick(s)} \in Small(S, n)
        BY <3>3, SmallerRest
      <4>2. g[s \ {Pick(s)}] = h[s \ {Pick(s)}]
        BY <1>2, <4>1
      <4>. QED
        BY <3>1, <3>3, <4>2 DEF IsSum
    <3>. QED
      BY <3>2, <3>3
  <2>. QED
    BY <2>1
<1>3. Cardinality(S) \in T
  <2>. HIDE DEF T
  <2>. QED
    BY <1>1, <1>2, NatInductionBySet, FS_CardinalityType
<1>. QED
  BY <1>3, FS_CardinalityType DEF Small

\* A sum is the element taken first and the sum of the others.
LEMMA SumUnfolds ==
  ASSUME NEW f, NEW S, IsFiniteSet(S)
  PROVE  SumFunctionOnSet(f, S) =
           IF S = {} THEN 0 ELSE f[Pick(S)] + SumFunctionOnSet(f, S \ {Pick(S)})
<1>. DEFINE g == CHOOSE g : IsSum(g, f, SUBSET S)
            R == S \ {Pick(S)}
            h == CHOOSE h : IsSum(h, f, SUBSET R)
<1>1. IsSum(g, f, SUBSET S)
  BY SumExists
<1>2. IsFiniteSet(R)
  BY FS_Subset
<1>3. IsSum(h, f, SUBSET R)
  BY <1>2, SumExists
<1>4. g[R] = h[R]
  <2>. HIDE DEF g, h
  <2>1. SUBSET R \subseteq SUBSET S
    OBVIOUS
  <2>. QED
    BY <1>1, <1>2, <1>3, <2>1, SumUnique
<1>5. g[S] = IF S = {} THEN 0 ELSE f[Pick(S)] + g[R]
  <2>. HIDE DEF g
  <2>. QED
    BY <1>1 DEF IsSum
<1>6. SumFunctionOnSet(f, S) = g[S] /\ SumFunctionOnSet(f, R) = h[R]
  BY SumIsChosen
<1>. QED
  BY <1>4, <1>5, <1>6

\* Nothing adds up to 0.
LEMMA SumEmpty == \A f : SumFunctionOnSet(f, {}) = 0
BY SumUnfolds, FS_EmptySet

-----------------------------------------------------------------------------
(* What sums do.                                                           *)

\* A sum of naturals is a natural.
LEMMA SumNat ==
  ASSUME NEW f, NEW S, IsFiniteSet(S), \A x \in S : f[x] \in Nat
  PROVE  SumFunctionOnSet(f, S) \in Nat
<1>. DEFINE T == {n \in Nat : \A s \in Small(S, n) : SumFunctionOnSet(f, s) \in Nat}
<1>1. 0 \in T
  <2>1. \A s \in Small(S, 0) : s = {}
    BY FS_EmptySet, FS_Subset, FS_CardinalityType DEF Small
  <2>. QED
    BY <2>1, SumEmpty
<1>2. ASSUME NEW n \in Nat, n \in T PROVE n + 1 \in T
  <2>1. ASSUME NEW s \in Small(S, n + 1), s # {} PROVE SumFunctionOnSet(f, s) \in Nat
    <3>1. SumFunctionOnSet(f, s \ {Pick(s)}) \in Nat
      BY <1>2, <2>1, SmallerRest
    <3>2. f[Pick(s)] \in Nat
      BY <2>1, PickIn DEF Small
    <3>3. IsFiniteSet(s)
      BY FS_Subset DEF Small
    <3>4. SumFunctionOnSet(f, s) = f[Pick(s)] + SumFunctionOnSet(f, s \ {Pick(s)})
      BY <2>1, <3>3, SumUnfolds
    <3>. QED
      BY <3>1, <3>2, <3>4
  <2>2. SumFunctionOnSet(f, {}) \in Nat
    BY SumEmpty
  <2>3. \A s \in Small(S, n + 1) : SumFunctionOnSet(f, s) \in Nat
    BY <2>1, <2>2
  <2>. QED
    BY <2>3
<1>3. Cardinality(S) \in T
  <2>. HIDE DEF T
  <2>. QED
    BY <1>1, <1>2, NatInductionBySet, FS_CardinalityType
<1>. QED
  BY <1>3, FS_CardinalityType DEF Small

\* Any element may be taken first: a sum does not depend on the order.
LEMMA SumRemove ==
  ASSUME NEW f, NEW S, IsFiniteSet(S), \A x \in S : f[x] \in Nat, NEW e \in S
  PROVE  SumFunctionOnSet(f, S) = f[e] + SumFunctionOnSet(f, S \ {e})
<1>. DEFINE T == {n \in Nat : \A s \in Small(S, n) : \A x \in s :
                     SumFunctionOnSet(f, s) = f[x] + SumFunctionOnSet(f, s \ {x})}
<1>1. 0 \in T
  <2>1. \A s \in Small(S, 0) : s = {}
    BY FS_EmptySet, FS_Subset, FS_CardinalityType DEF Small
  <2>. QED
    BY <2>1
<1>2. ASSUME NEW n \in Nat, n \in T PROVE n + 1 \in T
  <2>1. ASSUME NEW s \in Small(S, n + 1), NEW x \in s
        PROVE  SumFunctionOnSet(f, s) = f[x] + SumFunctionOnSet(f, s \ {x})
    <3>. DEFINE p == Pick(s)
    <3>. p \in s
      BY PickIn
    <3>1. IsFiniteSet(s) /\ s \subseteq S /\ Cardinality(s) \in Nat
      BY FS_Subset, FS_CardinalityType DEF Small
    <3>2. SumFunctionOnSet(f, s) = f[p] + SumFunctionOnSet(f, s \ {p})
      BY <3>1, SumUnfolds
    <3>3. CASE x = p
      BY <3>2, <3>3
    <3>4. CASE x # p
      <4>. HIDE DEF p
      <4>1. s \ {p} \in Small(S, n) /\ s \ {x} \in Small(S, n)
        <5>1. /\ Cardinality(s \ {p}) = Cardinality(s) - 1
              /\ Cardinality(s \ {x}) = Cardinality(s) - 1
          BY <3>1, FS_RemoveElement
        <5>2. Cardinality(s) <= n + 1
          BY DEF Small
        <5>3. Cardinality(s \ {p}) <= n /\ Cardinality(s \ {x}) <= n
          BY <3>1, <5>1, <5>2
        <5>. QED
          BY <3>1, <5>3 DEF Small
      <4>2. SumFunctionOnSet(f, s \ {p}) = f[x] + SumFunctionOnSet(f, (s \ {p}) \ {x})
        BY <1>2, <3>4, <4>1
      <4>3. SumFunctionOnSet(f, s \ {x}) = f[p] + SumFunctionOnSet(f, (s \ {x}) \ {p})
        BY <1>2, <3>4, <4>1
      <4>4. (s \ {p}) \ {x} = (s \ {x}) \ {p}
        OBVIOUS
      <4>5. IsFiniteSet((s \ {x}) \ {p}) /\ (s \ {x}) \ {p} \subseteq S
        BY <3>1, FS_Subset
      <4>6. SumFunctionOnSet(f, (s \ {x}) \ {p}) \in Nat
        BY <4>5, SumNat
      <4>7. f[p] \in Nat /\ f[x] \in Nat
        BY <3>1
      <4>. DEFINE r == SumFunctionOnSet(f, (s \ {x}) \ {p})
                  q == SumFunctionOnSet(f, s \ {x})
      <4>8. SumFunctionOnSet(f, s) = f[p] + (f[x] + r) /\ q = f[p] + r /\ r \in Nat
        BY <3>2, <4>2, <4>3, <4>4, <4>6
      <4>. HIDE DEF r, q
      <4>9. SumFunctionOnSet(f, s) = f[x] + q
        BY <4>7, <4>8
      <4>. QED
        BY <4>9 DEF q
    <3>. QED
      BY <3>3, <3>4
  <2>. QED
    BY <2>1
<1>3. Cardinality(S) \in T
  <2>. HIDE DEF T
  <2>. QED
    BY <1>1, <1>2, NatInductionBySet, FS_CardinalityType
<1>. QED
  BY <1>3, FS_CardinalityType DEF Small

\* A sum with one element more.
LEMMA SumAdd ==
  ASSUME NEW f, NEW S, IsFiniteSet(S), \A x \in S : f[x] \in Nat, NEW e, e \notin S, f[e] \in Nat
  PROVE  SumFunctionOnSet(f, S \cup {e}) = f[e] + SumFunctionOnSet(f, S)
<1>1. IsFiniteSet(S \cup {e})
  BY FS_AddElement
<1>2. (S \cup {e}) \ {e} = S
  OBVIOUS
<1>. QED
  BY <1>1, <1>2, SumRemove

\* Sums over two sets that share no index.
LEMMA SumDisjoint ==
  ASSUME NEW f, NEW S, IsFiniteSet(S), NEW R, IsFiniteSet(R), S \cap R = {},
         \A x \in S \cup R : f[x] \in Nat
  PROVE  SumFunctionOnSet(f, S \cup R) = SumFunctionOnSet(f, S) + SumFunctionOnSet(f, R)
<1>. DEFINE T == {n \in Nat : \A s \in Small(S, n) :
                     SumFunctionOnSet(f, s \cup R) = SumFunctionOnSet(f, s) + SumFunctionOnSet(f, R)}
<1>0. SumFunctionOnSet(f, R) \in Nat
  BY SumNat
<1>1. 0 \in T
  <2>1. \A s \in Small(S, 0) : s = {}
    BY FS_EmptySet, FS_Subset, FS_CardinalityType DEF Small
  <2>2. {} \cup R = R
    OBVIOUS
  <2>3. SumFunctionOnSet(f, {} \cup R) = SumFunctionOnSet(f, {}) + SumFunctionOnSet(f, R)
    <3>1. SumFunctionOnSet(f, {}) = 0
      BY SumEmpty
    <3>. QED
      BY <1>0, <2>2, <3>1
  <2>. QED
    BY <2>1, <2>3
<1>2. ASSUME NEW n \in Nat, n \in T PROVE n + 1 \in T
  <2>1. ASSUME NEW s \in Small(S, n + 1), s # {}
        PROVE  SumFunctionOnSet(f, s \cup R) = SumFunctionOnSet(f, s) + SumFunctionOnSet(f, R)
    <3>. DEFINE p == Pick(s)
                r == s \ {p}
    <3>1. p \in s
      BY <2>1, PickIn
    <3>2. r \in Small(S, n)
      BY <2>1, SmallerRest
    <3>. HIDE DEF p
    <3>3. IsFiniteSet(s) /\ s \subseteq S
      BY FS_Subset DEF Small
    <3>4. IsFiniteSet(s \cup R) /\ IsFiniteSet(r)
      BY <3>3, FS_Union, FS_Subset
    <3>5. SumFunctionOnSet(f, r \cup R) = SumFunctionOnSet(f, r) + SumFunctionOnSet(f, R)
      BY <1>2, <3>2
    <3>6. SumFunctionOnSet(f, s) = f[p] + SumFunctionOnSet(f, r)
      BY <3>1, <3>3, SumRemove
    <3>7. (s \cup R) \ {p} = r \cup R
      BY <3>1, <3>3
    <3>8. SumFunctionOnSet(f, s \cup R) = f[p] + SumFunctionOnSet(f, r \cup R)
      <4>1. p \in s \cup R /\ \A x \in s \cup R : f[x] \in Nat
        BY <3>1, <3>3
      <4>. HIDE DEF r
      <4>. QED
        BY <3>4, <3>7, <4>1, SumRemove
    <3>9. SumFunctionOnSet(f, r) \in Nat /\ f[p] \in Nat
      BY <3>1, <3>3, <3>4, SumNat
    <3>. QED
      BY <1>0, <3>5, <3>6, <3>8, <3>9
  <2>2. {} \cup R = R
    OBVIOUS
  <2>3. SumFunctionOnSet(f, {} \cup R) = SumFunctionOnSet(f, {}) + SumFunctionOnSet(f, R)
    <3>1. SumFunctionOnSet(f, {}) = 0
      BY SumEmpty
    <3>. QED
      BY <1>0, <2>2, <3>1
  <2>4. ASSUME NEW s \in Small(S, n + 1)
        PROVE  SumFunctionOnSet(f, s \cup R) = SumFunctionOnSet(f, s) + SumFunctionOnSet(f, R)
    <3>1. CASE s = {}
      BY <2>3, <3>1
    <3>2. CASE s # {}
      BY <2>1, <3>2
    <3>. QED
      BY <3>1, <3>2
  <2>. QED
    BY <2>4
<1>3. Cardinality(S) \in T
  <2>. HIDE DEF T
  <2>. QED
    BY <1>1, <1>2, NatInductionBySet, FS_CardinalityType
<1>. QED
  BY <1>3, FS_CardinalityType DEF Small

\* The sum over a part and over the rest of a set; the part has no more.
LEMMA SumSubset ==
  ASSUME NEW f, NEW S, IsFiniteSet(S), \A x \in S : f[x] \in Nat, NEW R, R \subseteq S
  PROVE  /\ SumFunctionOnSet(f, S) = SumFunctionOnSet(f, R) + SumFunctionOnSet(f, S \ R)
         /\ SumFunctionOnSet(f, R) <= SumFunctionOnSet(f, S)
<1>1. IsFiniteSet(R) /\ IsFiniteSet(S \ R)
  BY FS_Subset
<1>2. R \cup (S \ R) = S /\ R \cap (S \ R) = {}
  OBVIOUS
<1>3. SumFunctionOnSet(f, R) \in Nat /\ SumFunctionOnSet(f, S \ R) \in Nat
  BY <1>1, SumNat
<1>4. SumFunctionOnSet(f, R \cup (S \ R)) = SumFunctionOnSet(f, R) + SumFunctionOnSet(f, S \ R)
  BY <1>1, <1>2, SumDisjoint
<1>5. SumFunctionOnSet(f, S) = SumFunctionOnSet(f, R) + SumFunctionOnSet(f, S \ R)
  BY <1>2, <1>4
<1>. QED
  BY <1>3, <1>5

\* Greater summands, greater sum.
LEMMA SumMonotone ==
  ASSUME NEW f, NEW g, NEW S, IsFiniteSet(S),
         \A x \in S : f[x] \in Nat /\ g[x] \in Nat /\ f[x] <= g[x]
  PROVE  SumFunctionOnSet(f, S) <= SumFunctionOnSet(g, S)
<1>. DEFINE T == {n \in Nat : \A s \in Small(S, n) : SumFunctionOnSet(f, s) <= SumFunctionOnSet(g, s)}
<1>1. 0 \in T
  <2>1. \A s \in Small(S, 0) : s = {}
    BY FS_EmptySet, FS_Subset, FS_CardinalityType DEF Small
  <2>. QED
    BY <2>1, SumEmpty
<1>2. ASSUME NEW n \in Nat, n \in T PROVE n + 1 \in T
  <2>1. ASSUME NEW s \in Small(S, n + 1), s # {}
        PROVE  SumFunctionOnSet(f, s) <= SumFunctionOnSet(g, s)
    <3>. DEFINE p == Pick(s)
    <3>1. p \in s /\ s \ {p} \in Small(S, n)
      BY <2>1, PickIn, SmallerRest
    <3>. HIDE DEF p
    <3>2. IsFiniteSet(s) /\ s \subseteq S /\ IsFiniteSet(s \ {p})
      BY FS_Subset DEF Small
    <3>3. /\ SumFunctionOnSet(f, s) = f[p] + SumFunctionOnSet(f, s \ {p})
          /\ SumFunctionOnSet(g, s) = g[p] + SumFunctionOnSet(g, s \ {p})
      BY <3>1, <3>2, SumRemove
    <3>4. SumFunctionOnSet(f, s \ {p}) \in Nat /\ SumFunctionOnSet(g, s \ {p}) \in Nat
      BY <3>2, SumNat
    <3>5. SumFunctionOnSet(f, s \ {p}) <= SumFunctionOnSet(g, s \ {p})
      BY <1>2, <3>1
    <3>. QED
      BY <3>1, <3>2, <3>3, <3>4, <3>5
  <2>. QED
    BY <2>1, SumEmpty
<1>3. Cardinality(S) \in T
  <2>. HIDE DEF T
  <2>. QED
    BY <1>1, <1>2, NatInductionBySet, FS_CardinalityType
<1>. QED
  BY <1>3, FS_CardinalityType DEF Small

\* Equal summands, equal sum.
LEMMA SumAgree ==
  ASSUME NEW f, NEW g, NEW S, IsFiniteSet(S), \A x \in S : f[x] \in Nat /\ f[x] = g[x]
  PROVE  SumFunctionOnSet(f, S) = SumFunctionOnSet(g, S)
<1>1. /\ SumFunctionOnSet(f, S) \in Nat /\ SumFunctionOnSet(g, S) \in Nat
      /\ SumFunctionOnSet(f, S) <= SumFunctionOnSet(g, S)
      /\ SumFunctionOnSet(g, S) <= SumFunctionOnSet(f, S)
  BY SumNat, SumMonotone
<1>. QED
  BY <1>1
\* What holds of the summands, each taken so many times, holds of the sums.
LEMMA SumScaled ==
  ASSUME NEW f, NEW g, NEW a \in Nat, NEW b \in Nat, NEW S, IsFiniteSet(S),
         \A x \in S : f[x] \in Nat /\ g[x] \in Nat /\ f[x] * a <= g[x] * b
  PROVE  SumFunctionOnSet(f, S) * a <= SumFunctionOnSet(g, S) * b
<1>. DEFINE T == {n \in Nat : \A s \in Small(S, n) :
                    SumFunctionOnSet(f, s) * a <= SumFunctionOnSet(g, s) * b}
<1>0. 0 * a = 0 /\ 0 * b = 0
  OBVIOUS
<1>1. 0 \in T
  <2>1. \A s \in Small(S, 0) : s = {}
    BY FS_EmptySet, FS_Subset, FS_CardinalityType DEF Small
  <2>. QED
    BY <1>0, <2>1, SumEmpty
<1>2. ASSUME NEW n \in Nat, n \in T PROVE n + 1 \in T
  <2>1. ASSUME NEW s \in Small(S, n + 1), s # {}
        PROVE  SumFunctionOnSet(f, s) * a <= SumFunctionOnSet(g, s) * b
    <3>. DEFINE p == Pick(s)
                u == SumFunctionOnSet(f, s \ {p})
                v == SumFunctionOnSet(g, s \ {p})
    <3>1. p \in s /\ s \ {p} \in Small(S, n)
      BY <2>1, PickIn, SmallerRest
    <3>2. IsFiniteSet(s) /\ s \subseteq S /\ IsFiniteSet(s \ {p})
      BY FS_Subset DEF Small
    <3>3. SumFunctionOnSet(f, s) = f[p] + u /\ SumFunctionOnSet(g, s) = g[p] + v
      <4>. HIDE DEF p
      <4>. QED
        BY <3>1, <3>2, SumRemove
    <3>4. u \in Nat /\ v \in Nat
      <4>. HIDE DEF p
      <4>. QED
        BY <3>2, SumNat
    <3>5. u * a <= v * b
      BY <1>2, <3>1
    <3>6. f[p] \in Nat /\ g[p] \in Nat /\ f[p] * a <= g[p] * b
      BY <3>1, <3>2
    <3>. HIDE DEF p, u, v
    <3>7. (f[p] + u) * a = f[p] * a + u * a /\ (g[p] + v) * b = g[p] * b + v * b
      BY <3>4, <3>6
    <3>8. f[p] * a \in Nat /\ u * a \in Nat /\ g[p] * b \in Nat /\ v * b \in Nat
      BY <3>4, <3>6
    <3>. QED
      BY <3>3, <3>5, <3>6, <3>7, <3>8
  <2>2. ASSUME NEW s \in Small(S, n + 1)
        PROVE  SumFunctionOnSet(f, s) * a <= SumFunctionOnSet(g, s) * b
    <3>1. CASE s = {}
      <4>1. SumFunctionOnSet(f, s) = 0 /\ SumFunctionOnSet(g, s) = 0
        BY <3>1, SumEmpty
      <4>. QED
        BY <1>0, <4>1
    <3>. QED
      BY <2>1, <3>1
  <2>. QED
    BY <2>2
<1>3. Cardinality(S) \in T
  <2>. HIDE DEF T
  <2>. QED
    BY <1>1, <1>2, NatInductionBySet, FS_CardinalityType
<1>. QED
  BY <1>3, FS_CardinalityType DEF Small

-----------------------------------------------------------------------------
(* Sequences that are put together or taken apart.                         *)

\* An element more.
LEMMA ToSetAppend ==
  ASSUME NEW X, NEW s \in Seq(X), NEW x \in X
  PROVE  ToSet(Append(s, x)) = ToSet(s) \cup {x}
<1>. DEFINE t == Append(s, x)
<1>1. /\ Len(s) \in Nat /\ Len(t) = Len(s) + 1 /\ t[Len(s) + 1] = x
      /\ \A i \in 1..Len(s) : t[i] = s[i]
      /\ DOMAIN s = 1..Len(s) /\ DOMAIN t = 1..Len(t)
  OBVIOUS
<1>. HIDE DEF t
<1>2. 1..Len(t) = 1..Len(s) \cup {Len(s) + 1}
  BY <1>1
<1>3. ToSet(t) = {t[i] : i \in 1..Len(s)} \cup {x}
  BY <1>1, <1>2 DEF ToSet
<1>4. {t[i] : i \in 1..Len(s)} = ToSet(s)
  BY <1>1 DEF ToSet
<1>. QED
  BY <1>3, <1>4 DEF t

\* The head and the others.
LEMMA ToSetTail ==
  ASSUME NEW X, NEW s \in Seq(X), s # <<>>
  PROVE  ToSet(s) = ToSet(Tail(s)) \cup {Head(s)}
<1>. DEFINE t == Tail(s)
<1>1. /\ Len(s) \in Nat /\ Len(s) >= 1 /\ Len(t) = Len(s) - 1 /\ Head(s) = s[1]
      /\ \A i \in 1..(Len(s) - 1) : t[i] = s[i + 1]
      /\ DOMAIN s = 1..Len(s) /\ DOMAIN t = 1..Len(t)
  OBVIOUS
<1>. HIDE DEF t
<1>2. ASSUME NEW x \in ToSet(s) PROVE x \in ToSet(t) \cup {Head(s)}
  <2>1. PICK i \in 1..Len(s) : x = s[i]
    BY <1>1 DEF ToSet
  <2>2. CASE i = 1
    BY <1>1, <2>1, <2>2
  <2>3. CASE i # 1
    <3>1. i - 1 \in 1..(Len(s) - 1) /\ (i - 1) + 1 = i
      BY <1>1, <2>3
    <3>2. t[i - 1] = x
      BY <1>1, <2>1, <3>1
    <3>. QED
      BY <1>1, <3>1, <3>2 DEF ToSet
  <2>. QED
    BY <2>2, <2>3
<1>3. ASSUME NEW x \in ToSet(t) PROVE x \in ToSet(s)
  <2>1. PICK i \in 1..(Len(s) - 1) : x = t[i]
    BY <1>1 DEF ToSet
  <2>2. i + 1 \in 1..Len(s) /\ x = s[i + 1]
    BY <1>1, <2>1
  <2>. QED
    BY <1>1, <2>2 DEF ToSet
<1>4. Head(s) \in ToSet(s)
  <2>1. 1 \in 1..Len(s)
    BY <1>1
  <2>. QED
    BY <1>1, <2>1 DEF ToSet
<1>. QED
  BY <1>2, <1>3, <1>4 DEF t

\* Two sequences put together.
LEMMA PutTogether ==
  ASSUME NEW X, NEW s \in Seq(X), NEW t \in Seq(X)
  PROVE  /\ s \o t \in Seq(X) /\ Len(s \o t) = Len(s) + Len(t)
         /\ \A i \in 1..Len(s) : (s \o t)[i] = s[i]
         /\ \A i \in 1..Len(t) : (s \o t)[Len(s) + i] = t[i]
<1>1. Len(s) \in Nat /\ Len(t) \in Nat
  OBVIOUS
<1>2. /\ s \o t \in Seq(X) /\ Len(s \o t) = Len(s) + Len(t)
      /\ \A i \in 1..Len(s) + Len(t) : (s \o t)[i] = IF i <= Len(s) THEN s[i] ELSE t[i - Len(s)]
  BY ConcatProperties
<1>3. ASSUME NEW i \in 1..Len(s) PROVE (s \o t)[i] = s[i]
  <2>1. i \in 1..Len(s) + Len(t) /\ i <= Len(s)
    BY <1>1
  <2>. QED
    BY <1>2, <2>1
<1>4. ASSUME NEW i \in 1..Len(t) PROVE (s \o t)[Len(s) + i] = t[i]
  <2>1. Len(s) + i \in 1..Len(s) + Len(t) /\ ~(Len(s) + i <= Len(s)) /\ (Len(s) + i) - Len(s) = i
    BY <1>1
  <2>. QED
    BY <1>2, <2>1
<1>. QED
  BY <1>2, <1>3, <1>4

\* The elements from a place on.
LEMMA Remaining ==
  ASSUME NEW X, NEW s \in Seq(X), NEW k \in 0..Len(s)
  PROVE  /\ SubSeq(s, k + 1, Len(s)) \in Seq(X) /\ Len(SubSeq(s, k + 1, Len(s))) = Len(s) - k
         /\ \A i \in 1..(Len(s) - k) : SubSeq(s, k + 1, Len(s))[i] = s[k + i]
<1>1. Len(s) \in Nat /\ k + 1 \in Int /\ Len(s) \in Int
  OBVIOUS
<1>2. \A i \in (k + 1)..Len(s) : s[i] \in X
  OBVIOUS
<1>. DEFINE t == SubSeq(s, k + 1, Len(s))
<1>3. /\ t \in Seq(X) /\ Len(t) = IF k + 1 <= Len(s) THEN Len(s) - (k + 1) + 1 ELSE 0
      /\ \A i \in 1..(Len(s) - (k + 1) + 1) : t[i] = s[(k + 1) + i - 1]
  BY <1>1, <1>2, SubSeqProperties
<1>. HIDE DEF t
<1>4. Len(t) = Len(s) - k
  BY <1>1, <1>3
<1>5. ASSUME NEW i \in 1..(Len(s) - k) PROVE t[i] = s[k + i]
  <2>1. i \in 1..(Len(s) - (k + 1) + 1) /\ (k + 1) + i - 1 = k + i
    BY <1>1
  <2>. QED
    BY <1>3, <2>1
<1>. QED
  BY <1>3, <1>4, <1>5 DEF t

-----------------------------------------------------------------------------
(* Flattening a sequence of sequences.                                     *)

\* g joins the first elements of s, as far as D goes.
IsFlatten(g, s, D) == g = [i \in D |-> IF i = 1 THEN s[i] ELSE g[i - 1] \o s[i]]

\* What the library defines by a recursive function.
LEMMA FlattenIsChosen ==
  ASSUME NEW s, Len(s) # 0
  PROVE  FlattenSeq(s) = (CHOOSE g : IsFlatten(g, s, 1..Len(s)))[Len(s)]
BY DEF FlattenSeq, IsFlatten

\* There is such a function.
LEMMA FlattenExists ==
  ASSUME NEW s, NEW m \in Nat
  PROVE  \E g : IsFlatten(g, s, 1..m)
<1>. DEFINE T == {n \in Nat : \E g : IsFlatten(g, s, 1..n)}
<1>1. 0 \in T
  <2>1. IsFlatten([i \in 1..0 |-> s], s, 1..0)
    BY DEF IsFlatten
  <2>. QED
    BY <2>1
<1>2. ASSUME NEW n \in Nat, n \in T PROVE n + 1 \in T
  <2>1. PICK g : IsFlatten(g, s, 1..n)
    BY <1>2
  <2>. DEFINE h == [i \in 1..(n + 1) |-> IF i = 1 THEN s[i] ELSE g[i - 1] \o s[i]]
  <2>2. ASSUME NEW i \in 1..n PROVE h[i] = g[i]
    <3>1. g[i] = IF i = 1 THEN s[i] ELSE g[i - 1] \o s[i]
      BY <2>1, Zenon DEF IsFlatten
    <3>2. i \in 1..(n + 1)
      OBVIOUS
    <3>3. h[i] = IF i = 1 THEN s[i] ELSE g[i - 1] \o s[i]
      BY <3>2, Zenon
    <3>. QED
      BY <3>1, <3>3
  <2>3. \A i \in 1..(n + 1) : i # 1 => h[i - 1] = g[i - 1]
    <3>1. ASSUME NEW i \in 1..(n + 1), i # 1 PROVE i - 1 \in 1..n
      BY <3>1
    <3>. QED
      BY <2>2, <3>1
  <2>4. IsFlatten(h, s, 1..(n + 1))
    BY <2>3 DEF IsFlatten
  <2>. QED
    BY <2>4
<1>. QED
  <2>. HIDE DEF T
  <2>1. m \in T
    BY <1>1, <1>2, NatInductionBySet
  <2>. QED
    BY <2>1 DEF T

\* Two such functions agree as far as the shorter goes, if the sequences do.
LEMMA FlattenUnique ==
  ASSUME NEW s, NEW t, NEW g, NEW h, NEW m \in Nat, NEW k \in Nat, k <= m,
         IsFlatten(g, s, 1..m), IsFlatten(h, t, 1..k),
         \A i \in 1..k : s[i] = t[i]
  PROVE  \A i \in 1..k : g[i] = h[i]
<1>. DEFINE T == {j \in Nat : \A i \in 1..k : i <= j => g[i] = h[i]}
<1>1. 0 \in T
  OBVIOUS
<1>2. ASSUME NEW j \in Nat, j \in T PROVE j + 1 \in T
  <2>1. ASSUME NEW i \in 1..k, i = j + 1 PROVE g[i] = h[i]
    <3>1. i \in 1..m /\ s[i] = t[i]
      BY <2>1
    <3>2. CASE i = 1
      BY <3>1, <3>2 DEF IsFlatten
    <3>3. CASE i # 1
      <4>1. i - 1 \in 1..k /\ i - 1 <= j
        BY <2>1, <3>3
      <4>2. g[i - 1] = h[i - 1]
        BY <1>2, <4>1
      <4>3. g[i] = IF i = 1 THEN s[i] ELSE g[i - 1] \o s[i]
        BY <3>1, Zenon DEF IsFlatten
      <4>4. h[i] = IF i = 1 THEN t[i] ELSE h[i - 1] \o t[i]
        BY <3>1, Zenon DEF IsFlatten
      <4>. QED
        BY <3>1, <3>3, <4>2, <4>3, <4>4
    <3>. QED
      BY <3>2, <3>3
  <2>2. ASSUME NEW i \in 1..k, i <= j + 1 PROVE i <= j \/ i = j + 1
    BY <2>2
  <2>. QED
    BY <1>2, <2>1, <2>2
<1>3. k \in T
  <2>. HIDE DEF T
  <2>. QED
    BY <1>1, <1>2, NatInductionBySet
<1>. QED
  BY <1>3

\* What the first m of a sequence join to.
Joined(s, m) == FlattenSeq(SubSeq(s, 1, m))

\* One more element adds itself.
LEMMA JoinedStep ==
  ASSUME NEW X, NEW s \in Seq(Seq(X)), NEW m \in 1..Len(s)
  PROVE  Joined(s, m) = Joined(s, m - 1) \o s[m]
<1>. DEFINE t == SubSeq(s, 1, m)
            u == SubSeq(s, 1, m - 1)
<1>1. t \in Seq(Seq(X)) /\ Len(t) = m /\ \A i \in 1..m : t[i] = s[i]
  OBVIOUS
<1>2. u \in Seq(Seq(X)) /\ Len(u) = m - 1 /\ \A i \in 1..(m - 1) : u[i] = s[i]
  OBVIOUS
<1>3. PICK g : IsFlatten(g, t, 1..m) /\ FlattenSeq(t) = g[m]
  <2>1. \E f : IsFlatten(f, t, 1..m)
    <3>1. m \in Nat
      OBVIOUS
    <3>. HIDE DEF t
    <3>. QED
      BY <3>1, FlattenExists
  <2>2. FlattenSeq(t) = (CHOOSE f : IsFlatten(f, t, 1..m))[m]
    <3>. HIDE DEF t
    <3>. QED
      BY <1>1, FlattenIsChosen
  <2>. HIDE DEF t
  <2>3. IsFlatten(CHOOSE f : IsFlatten(f, t, 1..m), t, 1..m)
    BY <2>1
  <2>. QED
    BY <2>2, <2>3
<1>4. s[m] \in Seq(X)
  OBVIOUS
<1>5. CASE m = 1
  <2>1. g[m] = t[1]
    BY <1>3, <1>5 DEF IsFlatten
  <2>2. u = <<>> /\ t[1] = s[m]
    BY <1>1, <1>2, <1>5
  <2>3. FlattenSeq(u) = <<>>
    BY <2>2 DEF FlattenSeq
  <2>4. <<>> \o s[m] = s[m]
    BY <1>4
  <2>. QED
    BY <1>3, <2>1, <2>2, <2>3, <2>4 DEF Joined
<1>6. CASE m # 1
  <2>1. PICK h : IsFlatten(h, u, 1..(m - 1)) /\ FlattenSeq(u) = h[m - 1]
    <3>0. m - 1 \in Nat /\ m - 1 # 0
      BY <1>6
    <3>1. \E f : IsFlatten(f, u, 1..(m - 1))
      <4>. HIDE DEF u
      <4>. QED
        BY <3>0, FlattenExists
    <3>2. FlattenSeq(u) = (CHOOSE f : IsFlatten(f, u, 1..(m - 1)))[m - 1]
      <4>. HIDE DEF u
      <4>. QED
        BY <1>2, <3>0, FlattenIsChosen
    <3>. HIDE DEF u
    <3>3. IsFlatten(CHOOSE f : IsFlatten(f, u, 1..(m - 1)), u, 1..(m - 1))
      BY <3>1
    <3>. QED
      BY <3>2, <3>3
  <2>2. g[m - 1] = h[m - 1]
    <3>. DEFINE k == m - 1
    <3>1. \A i \in 1..k : t[i] = u[i]
      BY <1>1, <1>2
    <3>2. m \in Nat /\ k \in Nat /\ k <= m /\ k \in 1..k
      BY <1>6
    <3>3. IsFlatten(g, t, 1..m) /\ IsFlatten(h, u, 1..k)
      BY <1>3, <2>1
    <3>. HIDE DEF t, u, k
    <3>4. \A i \in 1..k : g[i] = h[i]
      BY <3>1, <3>2, <3>3, FlattenUnique
    <3>5. g[k] = h[k]
      BY <3>2, <3>4
    <3>. QED
      BY <3>5 DEF k
  <2>3. g[m] = g[m - 1] \o t[m]
    <3>1. m \in 1..m
      OBVIOUS
    <3>. HIDE DEF t
    <3>2. g[m] = IF m = 1 THEN t[m] ELSE g[m - 1] \o t[m]
      BY <1>3, <3>1, Zenon DEF IsFlatten
    <3>. QED
      BY <1>6, <3>2
  <2>4. t[m] = s[m]
    BY <1>1
  <2>. HIDE DEF t, u
  <2>5. FlattenSeq(t) = FlattenSeq(u) \o s[m]
    BY <1>3, <2>1, <2>2, <2>3, <2>4
  <2>. QED
    BY <2>5 DEF Joined, t, u
<1>. QED
  BY <1>5, <1>6

\* The whole is what all of its elements join to, and nothing joins to nothing.
LEMMA JoinedEnds ==
  ASSUME NEW X, NEW s \in Seq(Seq(X))
  PROVE  Joined(s, 0) = <<>> /\ Joined(s, Len(s)) = FlattenSeq(s)
<1>1. SubSeq(s, 1, 0) = <<>>
  OBVIOUS
<1>2. SubSeq(s, 1, Len(s)) = s
  OBVIOUS
<1>3. FlattenSeq(<<>>) = <<>>
  BY DEF FlattenSeq
<1>. QED
  BY <1>1, <1>2, <1>3 DEF Joined

\* What is joined is a sequence of what the elements are sequences of.
LEMMA JoinedType ==
  ASSUME NEW X, NEW s \in Seq(Seq(X)), NEW m \in 0..Len(s)
  PROVE  Joined(s, m) \in Seq(X)
<1>. DEFINE T == {n \in Nat : n <= Len(s) => Joined(s, n) \in Seq(X)}
<1>1. 0 \in T
  <2>1. Joined(s, 0) = <<>>
    BY JoinedEnds
  <2>2. <<>> \in Seq(X)
    OBVIOUS
  <2>. QED
    BY <2>1, <2>2
<1>2. ASSUME NEW n \in Nat, n \in T PROVE n + 1 \in T
  <2>. SUFFICES ASSUME n + 1 <= Len(s) PROVE Joined(s, n + 1) \in Seq(X)
    OBVIOUS
  <2>1. n + 1 \in 1..Len(s) /\ (n + 1) - 1 = n
    OBVIOUS
  <2>2. Joined(s, n + 1) = Joined(s, n) \o s[n + 1]
    BY <2>1, JoinedStep
  <2>3. Joined(s, n) \in Seq(X) /\ s[n + 1] \in Seq(X)
    BY <1>2, <2>1
  <2>4. \A x, y \in Seq(X) : x \o y \in Seq(X)
    OBVIOUS
  <2>. QED
    BY <2>2, <2>3, <2>4
<1>3. m \in T
  <2>1. m \in Nat
    OBVIOUS
  <2>. HIDE DEF T
  <2>2. Nat \subseteq T
    BY <1>1, <1>2, NatInductionBySet
  <2>. QED
    BY <2>1, <2>2
<1>. QED
  BY <1>3

\* Where the m-th element of a sequence ends in what it joins to.
EndOf(s, m) == Len(Joined(s, m))

\* Each element begins where the one before it ends.
LEMMA EndStep ==
  ASSUME NEW X, NEW s \in Seq(Seq(X)), NEW m \in 1..Len(s)
  PROVE  EndOf(s, m) = EndOf(s, m - 1) + Len(s[m])
<1>1. Joined(s, m - 1) \in Seq(X) /\ s[m] \in Seq(X)
  <2>1. m - 1 \in 0..Len(s)
    OBVIOUS
  <2>. QED
    BY <2>1, JoinedType
<1>2. \A x, y \in Seq(X) : Len(x \o y) = Len(x) + Len(y)
  OBVIOUS
<1>3. Joined(s, m) = Joined(s, m - 1) \o s[m]
  BY JoinedStep
<1>. QED
  BY <1>1, <1>2, <1>3 DEF EndOf

\* Ends are numbers; the first begins at nothing, the last ends with the whole.
LEMMA EndType ==
  ASSUME NEW X, NEW s \in Seq(Seq(X))
  PROVE  /\ \A m \in 0..Len(s) : EndOf(s, m) \in Nat
         /\ EndOf(s, 0) = 0
         /\ EndOf(s, Len(s)) = Len(FlattenSeq(s))
BY JoinedType, JoinedEnds DEF EndOf

\* Ends come in the order of their elements.
LEMMA EndsInOrder ==
  ASSUME NEW X, NEW s \in Seq(Seq(X)), NEW m \in 0..Len(s), NEW n \in m..Len(s)
  PROVE  EndOf(s, m) <= EndOf(s, n)
<1>. DEFINE T == {k \in Nat : m <= k /\ k <= Len(s) => EndOf(s, m) <= EndOf(s, k)}
<1>0. \A k \in 0..Len(s) : EndOf(s, k) \in Nat
  BY EndType
<1>1. 0 \in T
  BY <1>0
<1>2. ASSUME NEW k \in Nat, k \in T PROVE k + 1 \in T
  <2>. SUFFICES ASSUME m <= k + 1, k + 1 <= Len(s) PROVE EndOf(s, m) <= EndOf(s, k + 1)
    OBVIOUS
  <2>1. CASE m = k + 1
    BY <1>0, <2>1
  <2>2. CASE m <= k
    <3>1. EndOf(s, m) <= EndOf(s, k)
      BY <1>2, <2>2
    <3>2. EndOf(s, k + 1) = EndOf(s, k) + Len(s[k + 1])
      <4>1. k + 1 \in 1..Len(s) /\ (k + 1) - 1 = k
        OBVIOUS
      <4>. QED
        BY <4>1, EndStep
    <3>3. Len(s[k + 1]) \in Nat
      OBVIOUS
    <3>4. EndOf(s, m) \in Nat /\ EndOf(s, k) \in Nat
      BY <1>0, <2>2
    <3>. QED
      BY <3>1, <3>2, <3>3, <3>4
  <2>. QED
    BY <2>1, <2>2
<1>3. n \in T
  <2>1. n \in Nat
    OBVIOUS
  <2>. HIDE DEF T
  <2>2. Nat \subseteq T
    BY <1>1, <1>2, NatInductionBySet
  <2>. QED
    BY <2>1, <2>2
<1>. QED
  BY <1>3

\* The p-th of the m-th element is found p places after the one before it ends.
LEMMA FlattenPlace ==
  ASSUME NEW X, NEW s \in Seq(Seq(X)), NEW m \in 1..Len(s), NEW p \in 1..Len(s[m])
  PROVE  /\ EndOf(s, m - 1) + p \in 1..Len(FlattenSeq(s))
         /\ FlattenSeq(s)[EndOf(s, m - 1) + p] = s[m][p]
<1>. DEFINE q == EndOf(s, m - 1) + p
            T == {k \in Nat : m <= k /\ k <= Len(s) =>
                                q \in 1..EndOf(s, k) /\ Joined(s, k)[q] = s[m][p]}
<1>0. \A k \in 0..Len(s) : EndOf(s, k) \in Nat /\ Joined(s, k) \in Seq(X)
  BY EndType, JoinedType
<1>a. EndOf(s, m - 1) \in Nat
  <2>1. m - 1 \in 0..Len(s)
    OBVIOUS
  <2>. QED
    BY <1>0, <2>1
<1>1. 0 \in T
  OBVIOUS
<1>2. ASSUME NEW k \in Nat, k \in T PROVE k + 1 \in T
  <2>. SUFFICES ASSUME m <= k + 1, k + 1 <= Len(s)
                PROVE  q \in 1..EndOf(s, k + 1) /\ Joined(s, k + 1)[q] = s[m][p]
    OBVIOUS
  <2>1. k + 1 \in 1..Len(s) /\ (k + 1) - 1 = k /\ k \in 0..Len(s)
    OBVIOUS
  <2>2. Joined(s, k + 1) = Joined(s, k) \o s[k + 1]
    BY <2>1, JoinedStep
  <2>3. EndOf(s, k + 1) = EndOf(s, k) + Len(s[k + 1])
    BY <2>1, EndStep
  <2>4. Joined(s, k) \in Seq(X) /\ s[k + 1] \in Seq(X) /\ EndOf(s, k) \in Nat /\ Len(s[k + 1]) \in Nat
    BY <1>0, <2>1
  <2>5. CASE m = k + 1
    <3>1. q = EndOf(s, k) + p
      BY <2>1, <2>5
    <3>2. p \in 1..Len(s[k + 1])
      BY <2>5
    <3>. HIDE DEF q
    <3>3. q \in 1..EndOf(s, k + 1)
      <4>1. \A x, l \in Nat : \A i \in 1..l : x + i \in 1..(x + l)
        OBVIOUS
      <4>. QED
        BY <2>3, <2>4, <3>1, <3>2, <4>1, Zenon
    <3>4. (Joined(s, k) \o s[k + 1])[q] = s[k + 1][p]
      <4>1. (Joined(s, k) \o s[k + 1])[Len(Joined(s, k)) + p] = s[k + 1][p]
        BY <2>4, <3>2, PutTogether
      <4>. QED
        BY <3>1, <4>1 DEF EndOf
    <3>. QED
      BY <2>2, <2>5, <3>3, <3>4
  <2>6. CASE m <= k
    <3>1. q \in 1..EndOf(s, k) /\ Joined(s, k)[q] = s[m][p]
      BY <1>2, <2>1, <2>6
    <3>. HIDE DEF q
    <3>2. (Joined(s, k) \o s[k + 1])[q] = Joined(s, k)[q]
      BY <2>4, <3>1, PutTogether DEF EndOf
    <3>3. q \in 1..EndOf(s, k + 1)
      BY <2>3, <2>4, <3>1
    <3>. QED
      BY <2>2, <3>1, <3>2, <3>3
  <2>. QED
    BY <2>5, <2>6
<1>3. Len(s) \in T
  <2>. HIDE DEF T
  <2>1. Len(s) \in Nat
    OBVIOUS
  <2>. QED
    BY <1>1, <1>2, <2>1, NatInductionBySet
<1>. QED
  BY <1>3, EndType, JoinedEnds

\* Every place of what a sequence joins to belongs to one of its elements.
LEMMA FlattenCover ==
  ASSUME NEW X, NEW s \in Seq(Seq(X)), NEW i \in 1..Len(FlattenSeq(s))
  PROVE  \E m \in 1..Len(s) : \E p \in 1..Len(s[m]) : i = EndOf(s, m - 1) + p
<1>. DEFINE T == {m \in 0..Len(s) : i <= EndOf(s, m)}
<1>0. /\ \A k \in 0..Len(s) : EndOf(s, k) \in Nat
      /\ EndOf(s, 0) = 0 /\ EndOf(s, Len(s)) = Len(FlattenSeq(s))
  BY EndType
<1>1. Len(s) \in T
  BY <1>0
<1>2. PICK m \in T : \A n \in T : m <= n
  <2>. HIDE DEF T
  <2>1. T \subseteq Nat
    BY DEF T
  <2>. QED
    BY <1>1, <2>1, LeastNatural
<1>3. i \in Nat /\ i >= 1
  BY <1>0
<1>4. m # 0 /\ m \in 1..Len(s) /\ m - 1 \in 0..Len(s)
  BY <1>0, <1>2, <1>3
<1>5. ~(i <= EndOf(s, m - 1))
  <2>1. m - 1 \notin T
    <3>. HIDE DEF T
    <3>. QED
      BY <1>2, <1>4
  <2>. QED
    BY <1>4, <2>1
<1>6. EndOf(s, m) = EndOf(s, m - 1) + Len(s[m])
  BY <1>4, EndStep
<1>7. EndOf(s, m - 1) \in Nat /\ Len(s[m]) \in Nat /\ i <= EndOf(s, m)
  BY <1>0, <1>2, <1>4
<1>. HIDE DEF T
<1>8. i - EndOf(s, m - 1) \in 1..Len(s[m]) /\ i = EndOf(s, m - 1) + (i - EndOf(s, m - 1))
  BY <1>3, <1>5, <1>6, <1>7
<1>. QED
  BY <1>4, <1>8

-----------------------------------------------------------------------------
(* Counting the elements of a sequence that are in a set.                  *)

Places(s, S) == {i \in 1..Len(s) : s[i] \in S}

\* They can be counted.
LEMMA PlacesFinite ==
  ASSUME NEW X, NEW s \in Seq(X), NEW S
  PROVE  IsFiniteSet(Places(s, S)) /\ Cardinality(Places(s, S)) \in Nat
<1>1. Len(s) \in Nat
  OBVIOUS
<1>2. IsFiniteSet(1..Len(s))
  BY <1>1, FS_Interval
<1>. QED
  BY <1>2, FS_Subset, FS_CardinalityType DEF Places

\* One more element counts if it is in the set.
LEMMA PlacesAppend ==
  ASSUME NEW X, NEW s \in Seq(X), NEW x \in X, NEW S
  PROVE  Cardinality(Places(Append(s, x), S)) =
           Cardinality(Places(s, S)) + (IF x \in S THEN 1 ELSE 0)
<1>. DEFINE t == Append(s, x)
<1>1. Len(s) \in Nat /\ Len(t) = Len(s) + 1 /\ t[Len(s) + 1] = x
      /\ \A i \in 1..Len(s) : t[i] = s[i]
  OBVIOUS
<1>2. IsFiniteSet(Places(s, S)) /\ Cardinality(Places(s, S)) \in Nat
  BY PlacesFinite
<1>. HIDE DEF t
<1>3. CASE x \in S
  <2>1. Places(t, S) = Places(s, S) \cup {Len(s) + 1}
    BY <1>1, <1>3 DEF Places
  <2>2. Len(s) + 1 \notin Places(s, S)
    BY <1>1 DEF Places
  <2>. QED
    BY <1>2, <1>3, <2>1, <2>2, FS_AddElement DEF t
<1>4. CASE x \notin S
  <2>1. Places(t, S) = Places(s, S)
    BY <1>1, <1>4 DEF Places
  <2>. QED
    BY <1>2, <1>4, <2>1 DEF t
<1>. QED
  BY <1>3, <1>4

\* Without its head a sequence has one fewer if the head was in the set.
LEMMA PlacesTail ==
  ASSUME NEW X, NEW s \in Seq(X), s # <<>>, NEW S
  PROVE  Cardinality(Places(s, S)) =
           Cardinality(Places(Tail(s), S)) + (IF Head(s) \in S THEN 1 ELSE 0)
<1>. DEFINE t == Tail(s)
            A == Places(t, S)
            B == Places(s, S) \ {1}
            f == [i \in A |-> i + 1]
<1>1. /\ Len(s) \in Nat /\ Len(s) >= 1 /\ Len(t) = Len(s) - 1 /\ Head(s) = s[1]
      /\ \A i \in 1..(Len(s) - 1) : t[i] = s[i + 1]
  OBVIOUS
<1>2. IsFiniteSet(A) /\ IsFiniteSet(Places(s, S)) /\ Cardinality(A) \in Nat
  <2>1. t \in Seq(X)
    OBVIOUS
  <2>. HIDE DEF t
  <2>. QED
    BY <2>1, PlacesFinite
<1>3. f \in Bijection(A, B)
  <2>. HIDE DEF t
  <2>1. A \subseteq 1..(Len(s) - 1) /\ A \subseteq Nat
    BY <1>1 DEF Places
  <2>2. ASSUME NEW i \in A PROVE i + 1 \in B
    BY <1>1, <2>1 DEF Places
  <2>3. f \in [A -> B]
    <3>. HIDE DEF A, B
    <3>. QED
      BY <2>2
  <2>4. ASSUME NEW i \in A, NEW j \in A, f[i] = f[j] PROVE i = j
    <3>1. i \in Nat /\ j \in Nat
      BY <2>1
    <3>. HIDE DEF A
    <3>. QED
      BY <2>4, <3>1
  <2>5. ASSUME NEW j \in B PROVE \E i \in A : f[i] = j
    <3>1. j \in 1..Len(s) /\ j # 1 /\ s[j] \in S
      BY DEF Places
    <3>2. j - 1 \in 1..(Len(s) - 1) /\ (j - 1) + 1 = j
      BY <1>1, <3>1
    <3>3. j - 1 \in A
      BY <1>1, <3>1, <3>2 DEF Places
    <3>. HIDE DEF A, B
    <3>. QED
      BY <3>2, <3>3
  <2>. HIDE DEF A, B, f
  <2>. QED
    BY <2>3, <2>4, <2>5 DEF Bijection, Injection, Surjection, IsInjective
<1>4. IsFiniteSet(B) /\ Cardinality(B) = Cardinality(A)
  BY <1>2, <1>3, FS_Bijection DEF ExistsBijection
<1>. HIDE DEF t, A, B
<1>5. CASE Head(s) \in S
  <2>1. Places(s, S) = B \cup {1} /\ 1 \notin B
    BY <1>1, <1>5 DEF Places, B
  <2>. QED
    BY <1>2, <1>4, <1>5, <2>1, FS_AddElement DEF A, t
<1>6. CASE Head(s) \notin S
  <2>1. Places(s, S) = B
    BY <1>1, <1>6 DEF Places, B
  <2>. QED
    BY <1>2, <1>4, <1>6, <2>1 DEF A, t
<1>. QED
  BY <1>5, <1>6
-----------------------------------------------------------------------------
(* A finite set can be put in any total order.                             *)

\* R puts any two elements of S in one order.
IsOrder(R, S) ==
  /\ \A x \in S, y \in S : x # y => <<x, y>> \in R \/ <<y, x>> \in R
  /\ \A x \in S, y \in S, z \in S : <<x, y>> \in R /\ <<y, z>> \in R => <<x, z>> \in R

\* s lists the set S, each element before those it stands before in R.
Lists(s, S, R) ==
  /\ s \in SetToSeqs(S)
  /\ \A m \in 1..Cardinality(S) : \A n \in 1..(m - 1) : <<s[n], s[m]>> \in R

\* Every finite set that is not empty has a last element.
LEMMA LastExists ==
  ASSUME NEW S, IsFiniteSet(S), NEW R, IsOrder(R, S), S # {}
  PROVE  \E m \in S : \A x \in S \ {m} : <<x, m>> \in R
<1>. DEFINE HasLast(s) == \E m \in s : \A x \in s \ {m} : <<x, m>> \in R
            T == {n \in Nat : \A s \in Small(S, n) : s # {} => HasLast(s)}
<1>1. 0 \in T
  <2>1. \A s \in Small(S, 0) : s = {}
    BY FS_EmptySet, FS_Subset, FS_CardinalityType DEF Small
  <2>. QED
    BY <2>1
<1>2. ASSUME NEW n \in Nat, n \in T PROVE n + 1 \in T
  <2>. SUFFICES ASSUME NEW s \in Small(S, n + 1), s # {} PROVE HasLast(s)
    OBVIOUS
  <2>1. Pick(s) \in s /\ s \subseteq S
    BY PickIn DEF Small
  <2>2. s \ {Pick(s)} \in Small(S, n)
    BY SmallerRest
  <2>3. CASE s \ {Pick(s)} = {}
    BY <2>1, <2>3
  <2>4. CASE s \ {Pick(s)} # {}
    <3>1. PICK m \in s \ {Pick(s)} : \A x \in (s \ {Pick(s)}) \ {m} : <<x, m>> \in R
      BY <1>2, <2>2, <2>4
    <3>2. <<m, Pick(s)>> \in R \/ <<Pick(s), m>> \in R
      BY <2>1 DEF IsOrder
    <3>3. CASE <<Pick(s), m>> \in R
      BY <3>1, <3>3
    <3>4. CASE <<m, Pick(s)>> \in R
      <4>1. \A x \in s \ {Pick(s)} : <<x, Pick(s)>> \in R
        BY <2>1, <3>1, <3>4 DEF IsOrder
      <4>. QED
        BY <2>1, <4>1
    <3>. QED
      BY <3>2, <3>3, <3>4
  <2>. QED
    BY <2>3, <2>4
<1>3. Cardinality(S) \in T
  <2>. HIDE DEF T
  <2>. QED
    BY <1>1, <1>2, NatInductionBySet, FS_CardinalityType
<1>. QED
  BY <1>3, FS_CardinalityType DEF Small

\* Every finite set has a list in the order.
LEMMA ListExists ==
  ASSUME NEW S, IsFiniteSet(S), NEW R, IsOrder(R, S)
  PROVE  \E s : Lists(s, S, R)
<1>. DEFINE T == {n \in Nat : \A U \in Small(S, n) : \E s : Lists(s, U, R)}
<1>1. 0 \in T
  <2>1. \A U \in Small(S, 0) : U = {} /\ Cardinality(U) = 0
    BY FS_EmptySet, FS_Subset, FS_CardinalityType DEF Small
  <2>2. [i \in {} |-> i] \in SetToSeqs({}) /\ Cardinality({}) = 0
    BY FS_EmptySet DEF SetToSeqs
  <2>3. Lists([i \in {} |-> i], {}, R)
    BY <2>2 DEF Lists
  <2>. QED
    BY <2>1, <2>3
<1>2. ASSUME NEW n \in Nat, n \in T PROVE n + 1 \in T
  <2>. SUFFICES ASSUME NEW U \in Small(S, n + 1) PROVE \E s : Lists(s, U, R)
    OBVIOUS
  <2>1. CASE U = {}
    <3>1. U \in Small(S, n)
      BY <2>1, FS_EmptySet DEF Small
    <3>. QED
      BY <1>2, <3>1
  <2>2. CASE U # {}
    <3>1. IsFiniteSet(U) /\ IsOrder(R, U) /\ U \subseteq S
      BY FS_Subset DEF Small, IsOrder
    <3>2. PICK g \in U : \A x \in U \ {g} : <<x, g>> \in R
      BY <2>2, <3>1, LastExists
    <3>. DEFINE V == U \ {g}
                k == Cardinality(V)
    <3>3. Cardinality(U) = k + 1 /\ k \in Nat /\ V \in Small(S, n)
      <4>1. IsFiniteSet(V) /\ k = Cardinality(U) - 1 /\ Cardinality(U) \in Nat
        BY <3>1, FS_RemoveElement, FS_CardinalityType
      <4>2. k \in Nat
        BY <4>1, FS_CardinalityType
      <4>3. Cardinality(U) <= n + 1 /\ V \in SUBSET S
        BY DEF Small
      <4>. QED
        BY <4>1, <4>2, <4>3 DEF Small
    <3>4. PICK s : Lists(s, V, R)
      BY <1>2, <3>3
    <3>. HIDE DEF k
    <3>. DEFINE t == [i \in 1..(k + 1) |-> IF i = k + 1 THEN g ELSE s[i]]
    <3>5. s \in [1..k -> V] /\ \A i, j \in 1..k : i # j => s[i] # s[j]
      BY <3>4 DEF Lists, SetToSeqs, k
    <3>6. t \in SetToSeqs(U)
      <4>1. t \in [1..(k + 1) -> U]
        BY <3>3, <3>5
      <4>2. ASSUME NEW i \in 1..(k + 1), NEW j \in 1..(k + 1), i # j PROVE t[i] # t[j]
        BY <3>3, <3>5, <4>2
      <4>. QED
        BY <3>3, <4>1, <4>2 DEF SetToSeqs
    <3>7. ASSUME NEW m \in 1..(k + 1), NEW i \in 1..(m - 1) PROVE <<t[i], t[m]>> \in R
      <4>1. i \in 1..k /\ t[i] = s[i] /\ s[i] \in V
        BY <3>3, <3>5
      <4>2. CASE m = k + 1
        BY <3>2, <4>1, <4>2
      <4>3. CASE m # k + 1
        <5>1. m \in 1..k /\ t[m] = s[m]
          BY <3>3, <4>3
        <5>. QED
          BY <3>4, <4>1, <5>1 DEF Lists, k
      <4>. QED
        BY <4>2, <4>3
    <3>8. Lists(t, U, R)
      BY <3>3, <3>6, <3>7 DEF Lists
    <3>. QED
      BY <3>8
  <2>. QED
    BY <2>1, <2>2
<1>3. Cardinality(S) \in T
  <2>. HIDE DEF T
  <2>. QED
    BY <1>1, <1>2, NatInductionBySet, FS_CardinalityType
<1>. QED
  BY <1>3, FS_CardinalityType DEF Small

\* A list has every element once.
LEMMA ListIsWhole ==
  ASSUME NEW S, IsFiniteSet(S), NEW s \in SetToSeqs(S)
  PROVE  /\ Cardinality(S) \in Nat
         /\ s \in [1..Cardinality(S) -> S]
         /\ s \in Seq(S) /\ Len(s) = Cardinality(S) /\ DOMAIN s = 1..Cardinality(S)
         /\ \A i, j \in 1..Cardinality(S) : s[i] = s[j] => i = j
         /\ \A x \in S : \E i \in 1..Cardinality(S) : s[i] = x
         /\ ToSet(s) = S
<1>. DEFINE k == Cardinality(S)
<1>1. k \in Nat
  BY FS_CardinalityType
<1>2. s \in [1..k -> S] /\ \A i, j \in 1..k : i # j => s[i] # s[j]
  BY DEF SetToSeqs
<1>3. s \in Seq(S) /\ Len(s) = k /\ DOMAIN s = 1..k
  BY <1>1, <1>2
<1>4. s \in Injection(1..k, S)
  BY <1>2 DEF Injection, IsInjective
<1>5. IsFiniteSet(1..k) /\ Cardinality(1..k) = k
  BY <1>1, FS_Interval
<1>6. s \in Surjection(1..k, S)
  BY <1>4, <1>5, FS_Injection
<1>7. \A x \in S : \E i \in 1..k : s[i] = x
  BY <1>6 DEF Surjection
<1>8. ToSet(s) = S
  BY <1>2, <1>3, <1>7 DEF ToSet
<1>. QED
  BY <1>1, <1>2, <1>3, <1>7, <1>8
=============================================================================
