------------------------------ MODULE SumLemmas ------------------------------
(***************************************************************************)
(* What a sum over a finite set is.  MapThenSumSet folds the set in an     *)
(* order the module Folds leaves open; the lemmas say that the order does  *)
(* not matter: the sum of f over S is f[r] and the sum over the rest,      *)
(* whichever element r is taken first.                                     *)
(*                                                                         *)
(* Each proof by induction looks for a subset of S that is minimal among   *)
(* those where the claim fails, and finds none.                            *)
(***************************************************************************)
EXTENDS Integers, FiniteSetsExt, FiniteSetTheorems, TLAPS

SumOf(f, S) == MapThenSumSet(LAMBDA r : f[r], S)

\* The element a fold takes first.
Pick(S) == CHOOSE x \in S : TRUE

\* g holds the sums of f over all subsets of S, each computed from a smaller one.
SumsBelow(f, S, g) ==
    g = [s \in SUBSET S |-> IF s = {} THEN 0 ELSE f[Pick(s)] + g[s \ {Pick(s)}]]

LEMMA SumIsChosen ==
    ASSUME NEW f, NEW S
    PROVE  SumOf(f, S) = (CHOOSE g : SumsBelow(f, S, g))[S]
  BY DEF SumOf, SumsBelow, Pick, MapThenSumSet, MapThenFoldSet

\* A set of subsets of a finite set has a minimal one.
LEMMA MinimalSubset ==
    ASSUME NEW S, IsFiniteSet(S), NEW T \in SUBSET (SUBSET S), T # {}
    PROVE  \E s \in T : \A t \in T : ~(t \subseteq s /\ t # s)
  <1> DEFINE R == StrictSubsetOrdering(S)
  <1>1. FiniteSubsetsOf(S) = SUBSET S
    BY FS_FiniteSubsetsOfFinite
  <1>2. IsWellFoundedOn(R, SUBSET S)
    BY <1>1, FS_StrictSubsetOrderingWellFounded
  <1> HIDE DEF R
  <1>3. PICK s \in T : \A t \in T : ~(<<t, s>> \in R)
    BY <1>2, WFMin
  <1>4. \A t \in T : ~(t \subseteq s /\ t # s)
    BY <1>3 DEF R, StrictSubsetOrdering
  <1> QED
    BY <1>4

\* Two functions of sums agree where both are defined.
LEMMA SumsAgree ==
    ASSUME NEW f, NEW U, NEW V, NEW g, NEW h, NEW S \in SUBSET (U \cap V),
           IsFiniteSet(S), SumsBelow(f, U, g), SumsBelow(f, V, h)
    PROVE  g[S] = h[S]
  <1> DEFINE T == {s \in SUBSET S : g[s] # h[s]}
  <1>1. SUFFICES ASSUME T # {} PROVE FALSE
    OBVIOUS
  <1>2. PICK s \in T : \A t \in T : ~(t \subseteq s /\ t # s)
    <2>1. T \in SUBSET (SUBSET S)
      OBVIOUS
    <2> HIDE DEF T
    <2> QED
      BY <1>1, <2>1, MinimalSubset
  <1>3. s \in SUBSET U /\ s \in SUBSET V
    OBVIOUS
  <1>4. /\ g[s] = IF s = {} THEN 0 ELSE f[Pick(s)] + g[s \ {Pick(s)}]
        /\ h[s] = IF s = {} THEN 0 ELSE f[Pick(s)] + h[s \ {Pick(s)}]
    BY <1>3 DEF SumsBelow
  <1>5. s # {}
    BY <1>4
  <1>6. Pick(s) \in s
    BY <1>5 DEF Pick
  <1>7. s \ {Pick(s)} \notin T
    BY <1>2, <1>6
  <1>8. g[s \ {Pick(s)}] = h[s \ {Pick(s)}]
    BY <1>7
  <1> QED
    BY <1>4, <1>8

\* Such a function exists for every finite set.
LEMMA SumsExist ==
    ASSUME NEW f, NEW S, IsFiniteSet(S)
    PROVE  \E g : SumsBelow(f, S, g)
  <1> DEFINE T == {s \in SUBSET S : ~ \E g : SumsBelow(f, s, g)}
             G(s) == CHOOSE g : SumsBelow(f, s, g)
  <1>1. SUFFICES ASSUME T # {} PROVE FALSE
    OBVIOUS
  <1>2. PICK s \in T : \A t \in T : ~(t \subseteq s /\ t # s)
    <2>1. T \in SUBSET (SUBSET S)
      OBVIOUS
    <2> HIDE DEF T
    <2> QED
      BY <1>1, <2>1, MinimalSubset
  <1>3. \A u \in SUBSET s : u # s => SumsBelow(f, u, G(u))
    <2> SUFFICES ASSUME NEW u \in SUBSET s, u # s PROVE SumsBelow(f, u, G(u))
      OBVIOUS
    <2>1. \E g : SumsBelow(f, u, g)
      BY <1>2
    <2> QED
      BY <2>1
  <1> HIDE DEF G
  <1> DEFINE H == [u \in SUBSET s |->
                     IF u = {} THEN 0 ELSE f[Pick(u)] + G(u \ {Pick(u)})[u \ {Pick(u)}]]
  <1>4. \A u \in SUBSET s : u # {} => Pick(u) \in u
    BY DEF Pick
  <1>5. ASSUME NEW u \in SUBSET s, u # s
        PROVE  H[u] = G(u)[u]
    <2>1. SumsBelow(f, u, G(u))
      BY <1>3, <1>5
    <2>2. G(u)[u] = IF u = {} THEN 0 ELSE f[Pick(u)] + G(u)[u \ {Pick(u)}]
      BY <2>1 DEF SumsBelow
    <2>3. CASE u = {}
      BY <2>2, <2>3
    <2>4. CASE u # {}
      <3> DEFINE v == u \ {Pick(u)}
      <3>1. v \in SUBSET s /\ v # s /\ v \in SUBSET (u \cap v)
        BY <1>4, <2>4
      <3>2. SumsBelow(f, v, G(v))
        BY <1>3, <3>1
      <3>3. IsFiniteSet(v)
        BY <3>1, FS_Subset
      <3>4. G(u)[v] = G(v)[v]
        <4> HIDE DEF v
        <4> QED
          BY <2>1, <3>1, <3>2, <3>3, SumsAgree
      <3>5. H[u] = f[Pick(u)] + G(v)[v]
        BY <2>4
      <3> QED
        BY <2>2, <2>4, <3>4, <3>5
    <2> QED
      BY <2>3, <2>4
  <1>6. \A u \in SUBSET s : H[u] = IF u = {} THEN 0 ELSE f[Pick(u)] + H[u \ {Pick(u)}]
    <2> SUFFICES ASSUME NEW u \in SUBSET s, u # {}
                 PROVE  H[u] = f[Pick(u)] + H[u \ {Pick(u)}]
      OBVIOUS
    <2> DEFINE v == u \ {Pick(u)}
    <2>1. v \in SUBSET s /\ v # s
      BY <1>4
    <2>2. H[v] = G(v)[v]
      BY <1>5, <2>1
    <2>3. H[u] = f[Pick(u)] + G(v)[v]
      OBVIOUS
    <2> QED
      BY <2>2, <2>3
  <1>7. H = [u \in SUBSET s |-> H[u]]
    OBVIOUS
  <1> HIDE DEF H
  <1>8. SumsBelow(f, s, H)
    BY <1>6, <1>7 DEF SumsBelow
  <1> QED
    BY <1>2, <1>8

LEMMA SumUnfolds ==
    ASSUME NEW f, NEW S, IsFiniteSet(S)
    PROVE  SumOf(f, S) = IF S = {} THEN 0 ELSE f[Pick(S)] + SumOf(f, S \ {Pick(S)})
  <1> DEFINE G(s) == CHOOSE g : SumsBelow(f, s, g)
             v == S \ {Pick(S)}
  <1>1. v \in SUBSET S /\ v \in SUBSET (S \cap v) /\ IsFiniteSet(v)
    BY FS_Subset
  <1>2. SumsBelow(f, S, G(S)) /\ SumsBelow(f, v, G(v))
    <2> HIDE DEF v
    <2>1. (\E g : SumsBelow(f, S, g)) /\ (\E g : SumsBelow(f, v, g))
      BY <1>1, SumsExist
    <2> QED
      BY <2>1
  <1>3. SumOf(f, S) = G(S)[S] /\ SumOf(f, v) = G(v)[v]
    BY SumIsChosen
  <1> HIDE DEF G
  <1>4. G(S)[v] = G(v)[v]
    <2> HIDE DEF v
    <2> QED
      BY <1>1, <1>2, SumsAgree
  <1>5. G(S)[S] = IF S = {} THEN 0 ELSE f[Pick(S)] + G(S)[v]
    BY <1>2 DEF SumsBelow
  <1> QED
    BY <1>3, <1>4, <1>5

LEMMA SumOfNone ==
    ASSUME NEW f
    PROVE  SumOf(f, {}) = 0
  BY SumUnfolds, FS_EmptySet

-----------------------------------------------------------------------------
(* Sums of natural numbers *)

LEMMA SumIsNat ==
    ASSUME NEW D, NEW f \in [D -> Nat], NEW S \in SUBSET D, IsFiniteSet(S)
    PROVE  SumOf(f, S) \in Nat
  <1> DEFINE T == {s \in SUBSET S : SumOf(f, s) \notin Nat}
  <1>1. SUFFICES ASSUME T # {} PROVE FALSE
    OBVIOUS
  <1>2. PICK s \in T : \A t \in T : ~(t \subseteq s /\ t # s)
    <2>1. T \in SUBSET (SUBSET S)
      OBVIOUS
    <2> HIDE DEF T
    <2> QED
      BY <1>1, <2>1, MinimalSubset
  <1>3. s \in SUBSET S /\ IsFiniteSet(s)
    BY FS_Subset
  <1>4. SumOf(f, s) = IF s = {} THEN 0 ELSE f[Pick(s)] + SumOf(f, s \ {Pick(s)})
    BY <1>3, SumUnfolds
  <1>5. CASE s = {}
    BY <1>4, <1>5
  <1>6. CASE s # {}
    <2>1. Pick(s) \in s
      BY <1>6 DEF Pick
    <2>2. SumOf(f, s \ {Pick(s)}) \in Nat
      BY <1>2, <1>3, <2>1
    <2>3. f[Pick(s)] \in Nat
      BY <1>3, <2>1
    <2> QED
      BY <1>4, <1>6, <2>2, <2>3
  <1> QED
    BY <1>5, <1>6

\* Any element may be taken first.
LEMMA SumTakesAny ==
    ASSUME NEW D, NEW f \in [D -> Nat], NEW S \in SUBSET D, IsFiniteSet(S), NEW r \in S
    PROVE  SumOf(f, S) = f[r] + SumOf(f, S \ {r})
  <1> DEFINE P(s) == \A x \in s : SumOf(f, s) = f[x] + SumOf(f, s \ {x})
             T == {s \in SUBSET S : ~P(s)}
  <1>1. SUFFICES ASSUME T # {} PROVE FALSE
    <2>1. S \notin T => P(S)
      OBVIOUS
    <2> QED
      BY <2>1
  <1>2. PICK s \in T : \A t \in T : ~(t \subseteq s /\ t # s)
    <2>1. T \in SUBSET (SUBSET S)
      OBVIOUS
    <2> HIDE DEF T
    <2> QED
      BY <1>1, <2>1, MinimalSubset
  <1>3. s \in SUBSET S /\ s \in SUBSET D
    OBVIOUS
  <1>4. PICK x \in s : SumOf(f, s) # f[x] + SumOf(f, s \ {x})
    OBVIOUS
  <1> DEFINE c == Pick(s)
             u == s \ {x}
             v == s \ {c}
             w == s \ {x, c}
  <1>5. c \in s /\ f[c] \in Nat /\ f[x] \in Nat
    <2>1. c \in s
      BY DEF Pick
    <2> QED
      BY <1>3, <2>1
  <1>6. IsFiniteSet(s) /\ IsFiniteSet(w)
    BY <1>3, FS_Subset
  <1>7. SumOf(f, s) = f[c] + SumOf(f, v)
    BY <1>5, <1>6, SumUnfolds
  <1>8. x # c
    BY <1>4, <1>7
  <1>9. P(u) /\ P(v)
    <2>1. u \in SUBSET S /\ v \in SUBSET S /\ u # s /\ v # s
      BY <1>3, <1>5
    <2> HIDE DEF P, u, v
    <2>2. u \subseteq s /\ v \subseteq s
      BY DEF u, v
    <2> QED
      BY <1>2, <2>1, <2>2
  <1>10. v \ {x} = w /\ u \ {c} = w /\ x \in v /\ c \in u
    BY <1>5, <1>8
  <1>11. SumOf(f, v) = f[x] + SumOf(f, w) /\ SumOf(f, u) = f[c] + SumOf(f, w)
    <2> HIDE DEF u, v, w, c
    <2> QED
      BY <1>9, <1>10
  <1>12. SumOf(f, w) \in Nat
    <2>1. w \in SUBSET D
      BY <1>3
    <2> HIDE DEF w
    <2> QED
      BY <1>6, <2>1, SumIsNat
  <1>13. SumOf(f, s) = f[x] + SumOf(f, u)
    <2> HIDE DEF u, v, w, c
    <2> QED
      BY <1>5, <1>7, <1>11, <1>12
  <1> QED
    BY <1>4, <1>13

\* A sum depends on the values over the set only.
LEMMA SumOfSame ==
    ASSUME NEW D, NEW f \in [D -> Nat], NEW g \in [D -> Nat], NEW S \in SUBSET D,
           IsFiniteSet(S), \A x \in S : f[x] = g[x]
    PROVE  SumOf(f, S) = SumOf(g, S)
  <1> DEFINE T == {s \in SUBSET S : SumOf(f, s) # SumOf(g, s)}
  <1>1. SUFFICES ASSUME T # {} PROVE FALSE
    OBVIOUS
  <1>2. PICK s \in T : \A t \in T : ~(t \subseteq s /\ t # s)
    <2>1. T \in SUBSET (SUBSET S)
      OBVIOUS
    <2> HIDE DEF T
    <2> QED
      BY <1>1, <2>1, MinimalSubset
  <1>3. s \in SUBSET S /\ s \in SUBSET D /\ IsFiniteSet(s)
    BY FS_Subset
  <1>4. PICK x \in s : TRUE
    BY SumOfNone
  <1> DEFINE v == s \ {x}
  <1>5. SumOf(f, v) = SumOf(g, v)
    <2>1. v \in SUBSET S /\ v \subseteq s /\ v # s
      BY <1>3, <1>4
    <2> HIDE DEF v
    <2> QED
      BY <1>2, <2>1
  <1>6. SumOf(f, s) = f[x] + SumOf(f, v) /\ SumOf(g, s) = g[x] + SumOf(g, v)
    BY <1>3, <1>4, SumTakesAny
  <1>7. f[x] = g[x]
    BY <1>3, <1>4
  <1> HIDE DEF v
  <1>8. SumOf(f, s) = SumOf(g, s)
    BY <1>5, <1>6, <1>7
  <1> QED
    BY <1>8

\* What is added to one value is added to the sum, if it is a value of the set.
LEMMA SumOfRaised ==
    ASSUME NEW D, NEW f \in [D -> Nat], NEW g \in [D -> Nat], NEW S \in SUBSET D,
           IsFiniteSet(S), NEW r \in D, NEW k \in Nat,
           g[r] = f[r] + k, \A x \in D \ {r} : g[x] = f[x]
    PROVE  SumOf(g, S) = SumOf(f, S) + IF r \in S THEN k ELSE 0
  <1> DEFINE v == S \ {r}
  <1>1. \A x \in v : f[x] = g[x]
    OBVIOUS
  <1>2. v \in SUBSET D /\ IsFiniteSet(v)
    BY FS_Subset
  <1>3. SumOf(g, v) = SumOf(f, v) /\ SumOf(f, v) \in Nat
    <2> HIDE DEF v
    <2>1. SumOf(g, v) = SumOf(f, v)
      BY <1>1, <1>2, SumOfSame
    <2> QED
      BY <1>2, <2>1, SumIsNat
  <1>4. CASE r \in S
    <2>1. SumOf(g, S) = g[r] + SumOf(g, v) /\ SumOf(f, S) = f[r] + SumOf(f, v)
      BY <1>1, <1>4, SumTakesAny
    <2>2. f[r] \in Nat
      OBVIOUS
    <2> HIDE DEF v
    <2>3. SumOf(g, S) = SumOf(f, S) + k
      BY <1>1, <1>3, <2>1, <2>2
    <2> QED
      BY <1>4, <2>3
  <1>5. CASE r \notin S
    <2>1. v = S
      BY <1>5
    <2>2. SumOf(g, S) = SumOf(f, S) /\ SumOf(f, S) \in Nat
      BY <1>3, <2>1
    <2> QED
      BY <1>5, <2>2
  <1> QED
    BY <1>4, <1>5

\* A sum of zeros and ones counts the ones.
LEMMA SumCountsOnes ==
    ASSUME NEW D, NEW f \in [D -> Nat], NEW S \in SUBSET D, IsFiniteSet(S),
           \A x \in S : f[x] \in {0, 1}
    PROVE  SumOf(f, S) = Cardinality({x \in S : f[x] = 1})
  <1> DEFINE Ones(s) == {x \in s : f[x] = 1}
             T == {s \in SUBSET S : SumOf(f, s) # Cardinality(Ones(s))}
  <1>1. SUFFICES ASSUME T # {} PROVE FALSE
    <2>1. S \notin T => SumOf(f, S) = Cardinality(Ones(S))
      OBVIOUS
    <2> QED
      BY <2>1
  <1>2. PICK s \in T : \A t \in T : ~(t \subseteq s /\ t # s)
    <2>1. T \in SUBSET (SUBSET S)
      OBVIOUS
    <2> HIDE DEF T
    <2> QED
      BY <1>1, <2>1, MinimalSubset
  <1>3. s \in SUBSET S /\ s \in SUBSET D /\ IsFiniteSet(s)
    BY FS_Subset
  <1>4. s # {}
    <2>1. Ones({}) = {}
      OBVIOUS
    <2>2. SumOf(f, {}) = Cardinality(Ones({}))
      BY <2>1, SumOfNone, FS_EmptySet
    <2> QED
      BY <2>2
  <1>5. PICK x \in s : TRUE
    BY <1>4
  <1> DEFINE v == s \ {x}
  <1>6. v \in SUBSET S /\ v \subseteq s /\ v # s
    BY <1>3, <1>5
  <1>7. SumOf(f, v) = Cardinality(Ones(v))
    <2> HIDE DEF v, Ones
    <2> QED
      BY <1>2, <1>6
  <1>8. SumOf(f, s) = f[x] + SumOf(f, v)
    BY <1>3, <1>5, SumTakesAny
  <1>9. IsFiniteSet(Ones(v)) /\ Cardinality(Ones(v)) \in Nat /\ x \notin Ones(v)
    <2>1. Ones(v) \in SUBSET S
      BY <1>6
    <2> HIDE DEF Ones, v
    <2>2. IsFiniteSet(Ones(v))
      BY <2>1, FS_Subset
    <2> QED
      BY <2>2, FS_CardinalityType DEF Ones, v
  <1>10. Ones(s) = IF f[x] = 1 THEN Ones(v) \cup {x} ELSE Ones(v)
    BY <1>5
  <1>11. Cardinality(Ones(s)) = IF f[x] = 1 THEN Cardinality(Ones(v)) + 1
                                ELSE Cardinality(Ones(v))
    <2> HIDE DEF Ones, v
    <2> QED
      BY <1>9, <1>10, FS_AddElement
  <1>12. f[x] \in {0, 1}
    BY <1>3, <1>5
  <1>13. SumOf(f, s) = Cardinality(Ones(s))
    <2> HIDE DEF Ones, v
    <2> QED
      BY <1>7, <1>8, <1>9, <1>11, <1>12
  <1> QED
    BY <1>13
=============================================================================
