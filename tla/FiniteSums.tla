------------------------------- MODULE FiniteSums -------------------------------
(***************************************************************************)
(* Induction over the subsets of a finite set, and the sum of a function   *)
(* over a finite set, as FiniteSetsExt computes it.  The induction is the  *)
(* library's theorem that the order of finite subsets is well-founded: the *)
(* property is given by the set Q of the subsets that have it.  A sum is   *)
(* counted: an amount is as many units.                                    *)
(***************************************************************************)
EXTENDS Naturals, FiniteSetTheorems, WellFoundedInduction, TLAPS

\* Whatever passes from the sets with one element less to a set, and so to the
\* empty set, all subsets of a finite set have.
LEMMA SetInduction ==
  ASSUME NEW S, IsFiniteSet(S), NEW Q,
         \A U \in SUBSET S : (\A x \in U : U \ {x} \in Q) => U \in Q
  PROVE  \A U \in SUBSET S : U \in Q
<1> DEFINE Others == {U \in SUBSET S : U \notin Q}
<1> SUFFICES ASSUME Others # {} PROVE FALSE
  OBVIOUS
<1>1. IsWellFoundedOn(StrictSubsetOrdering(S), SUBSET S)
  <2>1. FiniteSubsetsOf(S) = SUBSET S
    BY FS_FiniteSubsetsOfFinite
  <2>2. IsWellFoundedOn(StrictSubsetOrdering(S), FiniteSubsetsOf(S))
    BY FS_StrictSubsetOrderingWellFounded
  <2> QED BY <2>1, <2>2
<1>2. PICK U \in Others : \A V \in Others : <<V, U>> \notin StrictSubsetOrdering(S)
  <2>1. Others \subseteq SUBSET S
    OBVIOUS
  <2> QED BY <1>1, <2>1, WFMin
<1>3. ASSUME NEW x \in U PROVE U \ {x} \in Q
  <2>1. U \ {x} \in SUBSET S /\ U \in SUBSET S /\ U \ {x} # U
    OBVIOUS
  <2>2. <<U \ {x}, U>> \in StrictSubsetOrdering(S)
    BY <2>1 DEF StrictSubsetOrdering
  <2> QED BY <1>2, <2>1, <2>2
<1> QED BY <1>2, <1>3

-------------------------------------------------------------------------------
(* Sums                                                                    *)

Units(T, a) == {u \in T \X Nat : u[2] \in 1..a[u[1]]}
Count(T, a) == Cardinality(Units(T, a))

\* An element more is its amount more.
LEMMA OneMore ==
  ASSUME NEW T, NEW a, NEW k, k \notin T, a[k] \in Nat, IsFiniteSet(Units(T, a))
  PROVE  IsFiniteSet(Units(T \cup {k}, a)) /\ Count(T \cup {k}, a) = Count(T, a) + a[k]
<1> DEFINE new == {k} \X (1..a[k])
<1>1. IsFiniteSet(new) /\ Cardinality(new) = a[k]
  <2>1. IsFiniteSet(1..a[k]) /\ Cardinality(1..a[k]) = a[k]
    BY FS_Interval
  <2>2. IsFiniteSet({k}) /\ Cardinality({k}) = 1
    BY FS_Singleton
  <2>3. IsFiniteSet(new) /\ Cardinality(new) = Cardinality({k}) * Cardinality(1..a[k])
    BY <2>1, <2>2, FS_Product
  <2> QED BY <2>1, <2>2, <2>3
<1>2. Units(T \cup {k}, a) = Units(T, a) \cup new
  BY DEF Units
<1>3. Units(T, a) \cap new = {}
  BY DEF Units
<1> HIDE DEF new
<1>4. Cardinality(Units(T, a)) \in Nat
  BY FS_CardinalityType
<1>5. IsFiniteSet(Units(T, a) \cup new)
      /\ Cardinality(Units(T, a) \cup new) = Cardinality(Units(T, a)) + a[k] - 0
  BY <1>1, <1>3, FS_Union, FS_EmptySet
<1>6. Cardinality(Units(T, a) \cup new) = Cardinality(Units(T, a)) + a[k]
  BY <1>4, <1>5
<1> QED BY <1>2, <1>5, <1>6, Zenon DEF Count

LEMMA CountEmpty == ASSUME NEW a PROVE Count({}, a) = 0 /\ IsFiniteSet(Units({}, a))
<1>1. Units({}, a) = {}
  BY DEF Units
<1> QED BY <1>1, FS_EmptySet DEF Count

\* Sums grow with the set, and an element less is its amount less.
LEMMA CountFacts ==
  ASSUME NEW S, IsFiniteSet(S), NEW a, \A k \in S : a[k] \in Nat, NEW T \in SUBSET S
  PROVE  /\ IsFiniteSet(Units(T, a)) /\ Count(T, a) \in Nat
         /\ \A R \in SUBSET T : Count(R, a) <= Count(T, a)
         /\ \A k \in T : Count(T, a) = a[k] + Count(T \ {k}, a)
<1> DEFINE Q == {U \in SUBSET S : IsFiniteSet(Units(U, a))}
<1>1. ASSUME NEW U \in SUBSET S, \A k \in U : U \ {k} \in Q
      PROVE  U \in Q
  <2>1. CASE U = {}
    BY <2>1, CountEmpty
  <2>2. CASE U # {}
    <3>1. PICK k \in U : TRUE
      BY <2>2
    <3>2. IsFiniteSet(Units(U \ {k}, a)) /\ k \notin U \ {k} /\ a[k] \in Nat
      BY <1>1
    <3>3. IsFiniteSet(Units((U \ {k}) \cup {k}, a))
      BY <3>2, OneMore
    <3>4. (U \ {k}) \cup {k} = U
      OBVIOUS
    <3> QED BY <3>3, <3>4
  <2> QED BY <2>1, <2>2
<1> HIDE DEF Q
<1>2. \A U \in SUBSET S : U \in Q
  BY <1>1, SetInduction
<1>3. \A U \in SUBSET S : IsFiniteSet(Units(U, a)) /\ Count(U, a) \in Nat
  BY <1>2, FS_CardinalityType DEF Q, Count
<1>4. ASSUME NEW R \in SUBSET T PROVE Count(R, a) <= Count(T, a)
  <2>1. Units(R, a) \subseteq Units(T, a)
    BY DEF Units
  <2> QED BY <1>3, <2>1, FS_Subset DEF Count
<1>5. ASSUME NEW k \in T PROVE Count(T, a) = a[k] + Count(T \ {k}, a)
  <2>1. (T \ {k}) \cup {k} = T /\ k \notin T \ {k} /\ a[k] \in Nat
    OBVIOUS
  <2>2. IsFiniteSet(Units(T \ {k}, a)) /\ Count(T \ {k}, a) \in Nat
    BY <1>3
  <2>3. Count((T \ {k}) \cup {k}, a) = Count(T \ {k}, a) + a[k]
    BY <2>1, <2>2, OneMore
  <2>4. Count(T, a) = Count(T \ {k}, a) + a[k]
    BY <2>1, <2>3, Zenon
  <2> QED BY <2>1, <2>2, <2>4
<1> QED BY <1>3, <1>4, <1>5

\* A function that adds up as MapThenSumSet does.
Sums(T, a, g) ==
    g = [s \in SUBSET T |->
           IF s = {} THEN 0
           ELSE a[CHOOSE x \in s : TRUE] + g[s \ {CHOOSE x \in s : TRUE}]]

\* The recursion has a solution, and no other.
LEMMA SumsExist ==
  ASSUME NEW T, IsFiniteSet(T), NEW a, \A k \in T : a[k] \in Nat
  PROVE  Sums(T, a, [s \in SUBSET T |-> Count(s, a)])
<1> DEFINE g == [s \in SUBSET T |-> Count(s, a)]
<1> SUFFICES ASSUME NEW s \in SUBSET T
             PROVE  Count(s, a) = IF s = {} THEN 0
                                  ELSE a[CHOOSE x \in s : TRUE]
                                       + g[s \ {CHOOSE x \in s : TRUE}]
  BY DEF Sums
<1>1. CASE s = {}
  BY <1>1, CountEmpty
<1>2. CASE s # {}
  <2> DEFINE c == CHOOSE x \in s : TRUE
  <2>1. c \in s
    BY <1>2
  <2>2. Count(s, a) = a[c] + Count(s \ {c}, a)
    <3> HIDE DEF c
    <3> QED BY <2>1, CountFacts
  <2> QED BY <1>2, <2>1, <2>2
<1> QED BY <1>1, <1>2

LEMMA SumsAreCounts ==
  ASSUME NEW T, IsFiniteSet(T), NEW a, \A k \in T : a[k] \in Nat, NEW g, Sums(T, a, g)
  PROVE  g[T] = Count(T, a)
<1> DEFINE Q == {s \in SUBSET T : g[s] = Count(s, a)}
<1>1. ASSUME NEW s \in SUBSET T, \A k \in s : s \ {k} \in Q
      PROVE  s \in Q
  <2>1. CASE s = {}
    BY <2>1, CountEmpty DEF Sums
  <2>2. CASE s # {}
    <3> DEFINE c == CHOOSE x \in s : TRUE
    <3>1. c \in s
      BY <2>2
    <3>2. g[s] = a[c] + g[s \ {c}]
      BY <2>2 DEF Sums
    <3>3. g[s \ {c}] = Count(s \ {c}, a)
      BY <1>1, <3>1
    <3> HIDE DEF c
    <3>4. Count(s, a) = a[c] + Count(s \ {c}, a)
      BY <3>1, CountFacts
    <3> QED BY <3>2, <3>3, <3>4
  <2> QED BY <2>1, <2>2
<1> HIDE DEF Q
<1>2. \A s \in SUBSET T : s \in Q
  BY <1>1, SetInduction
<1> QED BY <1>2 DEF Q
===============================================================================
