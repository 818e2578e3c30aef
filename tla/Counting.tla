------------------------------ MODULE Counting ------------------------------
(***************************************************************************)
(* How many processes stand at one of several labels, and how that number  *)
(* changes when one of them moves: the arithmetic behind invariants that   *)
(* relate a semaphore or a counter to program positions.  And induction    *)
(* over the natural numbers, stated for sets.                              *)
(***************************************************************************)
EXTENDS Integers, FiniteSets, FiniteSetTheorems, WellFoundedInduction, TLAPS

(* The processes of S that f puts in A, and their number.                  *)
Where(f, S, A) == {q \in S : f[q] \in A}
Number(f, S, A) == Cardinality(Where(f, S, A))

(* 1 if x is in A, and 0 if it is not *)
In(x, A) == IF x \in A THEN 1 ELSE 0

(* The processes at A are finitely many, and at least one if one is there. *)
LEMMA NumberType ==
    ASSUME NEW f, NEW S, NEW A, IsFiniteSet(S)
    PROVE /\ IsFiniteSet(Where(f, S, A))
          /\ Number(f, S, A) \in Nat
          /\ Number(f, S, A) <= Cardinality(S)
          /\ \A q \in S : f[q] \in A => Number(f, S, A) >= 1
<1>2. Where(f, S, A) \subseteq S
  BY DEF Where
<1>3. /\ IsFiniteSet(Where(f, S, A)) /\ Number(f, S, A) \in Nat
      /\ Number(f, S, A) <= Cardinality(S)
  BY <1>2, FS_Subset, FS_CardinalityType DEF Number
<1>4. ASSUME NEW q \in S, f[q] \in A PROVE Number(f, S, A) >= 1
  <2>1. Where(f, S, A) # {}
    BY <1>4 DEF Where
  <2>2. Number(f, S, A) # 0
    BY <2>1, <1>3, FS_EmptySet DEF Number
  <2> QED
    BY <2>2, <1>3
<1> QED
  BY <1>3, <1>4

(* When one process moves, a number loses it where it was and gains it     *)
(* where it goes.                                                          *)
LEMMA NumberStep ==
    ASSUME NEW S, IsFiniteSet(S), NEW A, NEW f, NEW g, NEW q \in S,
           \A r \in S \ {q} : g[r] = f[r]
    PROVE Number(g, S, A) = Number(f, S, A) - In(f[q], A) + In(g[q], A)
<1> DEFINE R == Where(f, S, A) \ {q}
<1>1. IsFiniteSet(Where(f, S, A)) /\ Number(f, S, A) \in Nat
  BY NumberType
<1>2. IsFiniteSet(R) /\ Cardinality(R) \in Nat
  BY <1>1, FS_Subset, FS_CardinalityType
<1>3. q \notin R
  OBVIOUS
<1>4. Cardinality(R \cup {q}) = Cardinality(R) + 1
  BY <1>2, <1>3, FS_AddElement
<1>5. Number(f, S, A) = Cardinality(R) + In(f[q], A)
  <2>1. CASE f[q] \in A
    <3>1. Number(f, S, A) = Cardinality(R \cup {q})
      <4>1. Where(f, S, A) = R \cup {q}
        BY <2>1 DEF Where
      <4> QED BY <4>1 DEF Number
    <3>2. In(f[q], A) = 1
      BY <2>1 DEF In
    <3> QED BY <3>1, <3>2, <1>4
  <2>2. CASE f[q] \notin A
    <3>1. Number(f, S, A) = Cardinality(R)
      <4>1. Where(f, S, A) = R
        BY <2>2 DEF Where
      <4> QED BY <4>1 DEF Number
    <3>2. In(f[q], A) = 0
      BY <2>2 DEF In
    <3> HIDE DEF R
    <3> QED BY <3>1, <3>2, <1>2
  <2> QED BY <2>1, <2>2
<1>6. Number(g, S, A) = Cardinality(R) + In(g[q], A)
  <2>1. CASE g[q] \in A
    <3>1. Number(g, S, A) = Cardinality(R \cup {q})
      <4>1. Where(g, S, A) = R \cup {q}
        BY <2>1 DEF Where
      <4> QED BY <4>1 DEF Number
    <3>2. In(g[q], A) = 1
      BY <2>1 DEF In
    <3> QED BY <3>1, <3>2, <1>4
  <2>2. CASE g[q] \notin A
    <3>1. Number(g, S, A) = Cardinality(R)
      <4>1. Where(g, S, A) = R
        BY <2>2 DEF Where
      <4> QED BY <4>1 DEF Number
    <3>2. In(g[q], A) = 0
      BY <2>2 DEF In
    <3> HIDE DEF R
    <3> QED BY <3>1, <3>2, <1>2
  <2> QED BY <2>1, <2>2
<1>7. In(f[q], A) \in Nat /\ In(g[q], A) \in Nat
  BY DEF In
<1> QED
  BY <1>5, <1>6, <1>7, <1>2, <1>1

(* Two processes cannot both be at A when at most one is.                  *)
LEMMA AtMostOne ==
    ASSUME NEW S, IsFiniteSet(S), NEW A, NEW f, Number(f, S, A) <= 1,
           NEW q \in S, NEW r \in S, f[q] \in A, f[r] \in A
    PROVE q = r
<1> SUFFICES ASSUME q # r PROVE FALSE
  OBVIOUS
<1>1. IsFiniteSet(Where(f, S, A)) /\ Number(f, S, A) \in Nat
  BY NumberType
<1> DEFINE R == Where(f, S, A) \ {q}
<1>2. IsFiniteSet(R) /\ Cardinality(R) \in Nat
  BY <1>1, FS_Subset, FS_CardinalityType
<1>3. r \in R /\ Where(f, S, A) = R \cup {q}
  BY DEF Where
<1>n. q \notin R
  OBVIOUS
<1>4. Number(f, S, A) = Cardinality(R) + 1
  <2>1. Cardinality(R \cup {q}) = Cardinality(R) + 1
    BY <1>2, <1>n, FS_AddElement
  <2>2. Number(f, S, A) = Cardinality(R \cup {q})
    BY <1>3 DEF Number
  <2> QED BY <2>1, <2>2
<1>5. Cardinality(R) # 0
  BY <1>2, <1>3, FS_EmptySet
<1> QED
  BY <1>1, <1>2, <1>4, <1>5

(* A finite set without elements, or with at most one.                     *)
LEMMA AtMostOneElement ==
    ASSUME NEW S, IsFiniteSet(S)
    PROVE /\ Cardinality(S) \in Nat
          /\ Cardinality(S) = 0 <=> S = {}
          /\ Cardinality(S) <= 1 <=> \A x, y \in S : x = y
<1>1. Cardinality(S) \in Nat /\ (Cardinality(S) = 0 <=> S = {})
  BY FS_CardinalityType, FS_EmptySet
<1>2. Cardinality(S) = 1 <=> \E x : S = {x}
  BY FS_Singleton
<1>3. (\A x, y \in S : x = y) <=> S = {} \/ \E x : S = {x}
  OBVIOUS
<1>4. Cardinality(S) <= 1 <=> Cardinality(S) = 0 \/ Cardinality(S) = 1
  BY <1>1
<1> QED
  BY <1>1, <1>2, <1>3, <1>4

(* A set of natural numbers has a least element, unless it is empty.       *)
LEMMA LeastElement ==
    ASSUME NEW S, S \subseteq Nat, S # {}
    PROVE \E n \in S : \A k \in S : n <= k
<1> DEFINE R == OpToRel(<, Nat)
<1>r. R = {ss \in Nat \X Nat : ss[1] < ss[2]}
  BY Zenon DEF OpToRel
<1>1. IsWellFoundedOn(R, Nat)
  BY NatLessThanWellFounded
<1>2. \E n \in S : \A k \in S : ~(<<k, n>> \in R)
  <2> HIDE DEF R
  <2> QED BY <1>1, WFMin
<1>3. PICK n \in S : \A k \in S : ~(<<k, n>> \in R)
  BY <1>2
<1>4. ASSUME NEW k \in S PROVE n <= k
  <2>1. ~(<<k, n>> \in R)
    BY <1>3
  <2>2. k \in Nat /\ n \in Nat
    BY <1>3
  <2>3. k < n => <<k, n>> \in R
    <3> HIDE DEF R
    <3> QED BY <2>2, <1>r
  <2> HIDE DEF R
  <2> QED BY <2>1, <2>2, <2>3
<1> QED BY <1>4

(* A set that has 0 and the next number of each it has has all of them.    *)
LEMMA Induction ==
    ASSUME NEW S, 0 \in S, \A n \in Nat : n \in S => n + 1 \in S
    PROVE Nat \subseteq S
<1> SUFFICES ASSUME Nat \ S # {} PROVE FALSE
  OBVIOUS
<1>1. PICK n \in Nat \ S : \A k \in Nat \ S : n <= k
  BY LeastElement
<1>2. n - 1 \in Nat
  BY <1>1
<1>4. n - 1 \in S
  BY <1>1, <1>2
<1> QED BY <1>1, <1>2, <1>4
=============================================================================
