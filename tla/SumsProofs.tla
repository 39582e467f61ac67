----------------------------- MODULE SumsProofs -----------------------------
(***************************************************************************)
(* What SumOver gives, for every function and every finite set.            *)
(*                                                                         *)
(* The library's induction theorems take an operator; InductOnSubsets takes*)
(* a set, from the well-foundedness of strict inclusion.                   *)
(***************************************************************************)
EXTENDS Sums, FiniteSetTheorems, TLAPS

(* What holds of a set when it holds of its strict subsets holds of it.    *)
LEMMA InductOnSubsets ==
    ASSUME NEW S, IsFiniteSet(S), NEW good,
           \A T \in SUBSET S : (\A U \in SUBSET T : U # T => U \in good) => T \in good
    PROVE  S \in good
<1>1. IsWellFoundedOn(StrictSubsetOrdering(S), SUBSET S)
  BY FS_StrictSubsetOrderingWellFounded, FS_FiniteSubsetsOfFinite
<1> DEFINE bad == {T \in SUBSET S : T \notin good}
<1>2. SUFFICES ASSUME bad # {} PROVE FALSE
  OBVIOUS
<1>3. PICK T \in bad : \A U \in bad : ~(<<U, T>> \in StrictSubsetOrdering(S))
  <2> HIDE DEF bad
  <2>1. bad \subseteq SUBSET S
    BY DEF bad
  <2> QED BY <1>1, <1>2, <2>1, WFMin
<1>4. \A U \in SUBSET T : U # T => U \in good
  BY <1>3 DEF StrictSubsetOrdering
<1> QED BY <1>3, <1>4

Some(s) == CHOOSE x \in s : TRUE

(* The sums of all subsets of S, each from that of a smaller one.          *)
Adds(iter, f, S) ==
    iter = [s \in SUBSET S |-> IF s = {} THEN 0 ELSE f[Some(s)] + iter[s \ {Some(s)}]]

Ints(f, S) == IsFiniteSet(S) /\ \A x \in S : f[x] \in Int

LEMMA SomeIn == ASSUME NEW s, s # {} PROVE Some(s) \in s
BY DEF Some

LEMMA IntsBelow ==
    ASSUME NEW f, NEW S, Ints(f, S), NEW T \in SUBSET S
    PROVE  Ints(f, T)
BY FS_Subset DEF Ints

LEMMA AddsStep ==
    ASSUME NEW iter, NEW f, NEW S, Adds(iter, f, S), NEW s \in SUBSET S
    PROVE  /\ s = {} => iter[s] = 0
           /\ s # {} => Some(s) \in s /\ iter[s] = f[Some(s)] + iter[s \ {Some(s)}]
<1>1. iter[s] = IF s = {} THEN 0 ELSE f[Some(s)] + iter[s \ {Some(s)}]
  BY DEF Adds
<1> QED BY <1>1, SomeIn

(* Two such functions give one sum for what they have in common.           *)
LEMMA AddsAgree ==
    ASSUME NEW i, NEW f, NEW S, Adds(i, f, S),
           NEW j, NEW g, NEW T, Adds(j, g, T),
           NEW U, U \subseteq S, U \subseteq T, Ints(f, U), \A x \in U : f[x] = g[x]
    PROVE  i[U] = j[U] /\ i[U] \in Int
<1> DEFINE good == {V \in SUBSET U : i[V] = j[V] /\ i[V] \in Int}
<1>1. ASSUME NEW V \in SUBSET U, \A W \in SUBSET V : W # V => W \in good
      PROVE  V \in good
  <2>1. CASE V = {}
    <3>1. V \in SUBSET S /\ V \in SUBSET T
      OBVIOUS
    <3>2. i[V] = 0 /\ j[V] = 0
      BY <2>1, <3>1, AddsStep
    <3> QED BY <3>2
  <2>2. CASE V # {}
    <3>1. /\ Some(V) \in V /\ f[Some(V)] \in Int
          /\ i[V] = f[Some(V)] + i[V \ {Some(V)}] /\ j[V] = f[Some(V)] + j[V \ {Some(V)}]
      <4>1. V \in SUBSET S /\ V \in SUBSET T
        OBVIOUS
      <4> QED BY <2>2, <4>1, AddsStep DEF Ints
    <3>2. V \ {Some(V)} \in good
      BY <1>1, <3>1
    <3> QED BY <3>1, <3>2
  <2> QED BY <2>1, <2>2
<1>2. U \in good
  <2> HIDE DEF good
  <2> QED BY <1>1, InductOnSubsets DEF Ints
<1> QED BY <1>2

LEMMA AddsExists ==
    ASSUME NEW f, NEW S, Ints(f, S)
    PROVE  \E iter : Adds(iter, f, S)
<1> DEFINE good == {T \in SUBSET S : \E iter : Adds(iter, f, T)}
<1>1. ASSUME NEW T \in SUBSET S, \A U \in SUBSET T : U # T => U \in good
      PROVE  T \in good
  <2> DEFINE below(U) == CHOOSE iter : Adds(iter, f, U)
             less == [U \in SUBSET T |-> IF U = T THEN 0 ELSE below(U)[U]]
             iter == [U \in SUBSET T |->
                        IF U # T THEN less[U]
                        ELSE IF T = {} THEN 0 ELSE f[Some(T)] + less[T \ {Some(T)}]]
  <2>1. ASSUME NEW U \in SUBSET T, U # T
        PROVE  Adds(below(U), f, U)
    BY <1>1, <2>1
  <2>2. ASSUME NEW U \in SUBSET T
        PROVE  iter[U] = IF U = {} THEN 0 ELSE f[Some(U)] + iter[U \ {Some(U)}]
    <3>1. CASE U = {}
      <4>1. U # T => below(U)[U] = 0
        <5> HIDE DEF below
        <5> QED BY <2>1, <3>1, AddsStep
      <4> HIDE DEF below
      <4> QED BY <3>1, <4>1
    <3>2. CASE U # {} /\ U = T
      <4>1. T \ {Some(T)} \in SUBSET T /\ T \ {Some(T)} # T
        BY <3>2, SomeIn
      <4> HIDE DEF below
      <4> QED BY <3>2, <4>1
    <3>3. CASE U # {} /\ U # T
      <4> DEFINE V == U \ {Some(U)}
      <4>1. Some(U) \in U /\ V \in SUBSET U /\ V \in SUBSET T /\ V # T
        BY <3>3, SomeIn
      <4>2. iter[U] = below(U)[U] /\ iter[V] = below(V)[V]
        <5> HIDE DEF below, V
        <5> QED BY <3>3, <4>1
      <4>3. below(U)[U] = f[Some(U)] + below(U)[V]
        <5> HIDE DEF below
        <5> QED BY <2>1, <3>3, AddsStep
      <4>4. below(U)[V] = below(V)[V]
        <5> HIDE DEF below, V
        <5>1. Ints(f, V) /\ V \in SUBSET V
          BY <4>1, IntsBelow
        <5> QED BY <2>1, <3>3, <4>1, <5>1, AddsAgree
      <4> HIDE DEF below, V, iter
      <4> QED BY <3>3, <4>2, <4>3, <4>4 DEF V
    <3> QED BY <3>1, <3>2, <3>3
  <2>3. Adds(iter, f, T)
    <3>1. iter = [U \in SUBSET T |-> iter[U]]
      OBVIOUS
    <3> HIDE DEF iter
    <3> QED BY <2>2, <3>1 DEF Adds
  <2> QED BY <2>3
<1>2. S \in good
  <2> HIDE DEF good
  <2> QED BY <1>1, InductOnSubsets DEF Ints
<1> QED BY <1>2

LEMMA SumIsAdded ==
    ASSUME NEW f, NEW S, Ints(f, S)
    PROVE  \E iter : Adds(iter, f, S) /\ SumOver(f, S) = iter[S]
<1>1. SumOver(f, S) = (CHOOSE iter : Adds(iter, f, S))[S]
  BY Zenon DEF SumOver, MapThenSumSet, MapThenFoldSet, Adds, Some
<1> QED BY <1>1, AddsExists

(* A sum is that of the values.                                            *)
LEMMA SumAgrees ==
    ASSUME NEW f, NEW g, NEW S, Ints(f, S), \A x \in S : f[x] = g[x]
    PROVE  SumOver(f, S) = SumOver(g, S) /\ SumOver(f, S) \in Int
<1>1. Ints(g, S)
  BY DEF Ints
<1>2. PICK i : Adds(i, f, S) /\ SumOver(f, S) = i[S]
  BY SumIsAdded
<1>3. PICK j : Adds(j, g, S) /\ SumOver(g, S) = j[S]
  BY <1>1, SumIsAdded
<1> QED BY <1>2, <1>3, AddsAgree

LEMMA SumInt ==
    ASSUME NEW f, NEW S, Ints(f, S)
    PROVE  SumOver(f, S) \in Int
BY SumAgrees

LEMMA SumOfNone ==
    ASSUME NEW f
    PROVE  SumOver(f, {}) = 0
<1>1. Ints(f, {})
  BY FS_EmptySet DEF Ints
<1>2. PICK i : Adds(i, f, {}) /\ SumOver(f, {}) = i[{}]
  BY <1>1, SumIsAdded
<1> QED BY <1>2, AddsStep

(* Any element may be taken out.                                           *)
LEMMA SumSplits ==
    ASSUME NEW f, NEW S, Ints(f, S), NEW e \in S
    PROVE  /\ SumOver(f, S) = f[e] + SumOver(f, S \ {e})
           /\ SumOver(f, S \ {e}) \in Int /\ f[e] \in Int
<1>1. PICK i : Adds(i, f, S) /\ SumOver(f, S) = i[S]
  BY SumIsAdded
<1>2. ASSUME NEW T \in SUBSET S PROVE SumOver(f, T) = i[T] /\ i[T] \in Int
  <2>1. Ints(f, T)
    BY IntsBelow
  <2>2. PICK j : Adds(j, f, T) /\ SumOver(f, T) = j[T]
    BY <2>1, SumIsAdded
  <2>3. i[T] = j[T] /\ i[T] \in Int
    BY <1>1, <2>1, <2>2, AddsAgree
  <2> QED BY <2>2, <2>3
<1> DEFINE good == {T \in SUBSET S : \A x \in T : i[T] = f[x] + i[T \ {x}]}
<1>3. ASSUME NEW T \in SUBSET S, \A U \in SUBSET T : U # T => U \in good
      PROVE  T \in good
  <2>1. SUFFICES ASSUME NEW x \in T PROVE i[T] = f[x] + i[T \ {x}]
    OBVIOUS
  <2> DEFINE y == Some(T)
  <2>2. y \in T /\ i[T] = f[y] + i[T \ {y}]
    BY <1>1, AddsStep
  <2>3. CASE x = y
    BY <2>2, <2>3
  <2>4. CASE x # y
    <3> HIDE DEF y
    <3> DEFINE R == (T \ {x}) \ {y}
    <3>1. i[T \ {y}] = f[x] + i[R]
      <4>1. T \ {y} \in good /\ x \in T \ {y} /\ (T \ {y}) \ {x} = R
        BY <1>3, <2>2, <2>4
      <4> QED BY <4>1
    <3>2. i[T \ {x}] = f[y] + i[R]
      <4>1. T \ {x} \in good /\ y \in T \ {x}
        BY <1>3, <2>2, <2>4
      <4> QED BY <4>1
    <3>3. f[x] \in Int /\ f[y] \in Int /\ i[R] \in Int
      BY <1>2, <2>2 DEF Ints
    <3> HIDE DEF R
    <3> QED BY <2>2, <3>1, <3>2, <3>3
  <2> QED BY <2>3, <2>4
<1>4. S \in good
  <2> HIDE DEF good
  <2> QED BY <1>3, InductOnSubsets DEF Ints
<1>5. SumOver(f, S \ {e}) = i[S \ {e}] /\ i[S \ {e}] \in Int
  BY <1>2
<1> QED BY <1>1, <1>4, <1>5 DEF Ints

(* A new element adds its value.                                           *)
LEMMA SumGrows ==
    ASSUME NEW f, NEW S, NEW e, e \notin S, Ints(f, S \cup {e})
    PROVE  /\ SumOver(f, S \cup {e}) = SumOver(f, S) + f[e]
           /\ SumOver(f, S) \in Int /\ f[e] \in Int
<1>1. (S \cup {e}) \ {e} = S
  OBVIOUS
<1>2. e \in S \cup {e}
  OBVIOUS
<1> QED BY <1>1, <1>2, SumSplits

(* One place of a column is written.                                       *)
Written(f, g, S, e, n) ==
    e \in S /\ n \in Int /\ g[e] = f[e] + n /\ \A x \in S \ {e} : g[x] = f[x]

LEMMA SumWritten ==
    ASSUME NEW f, NEW S, Ints(f, S), NEW g, NEW e, NEW n, Written(f, g, S, e, n)
    PROVE  /\ SumOver(g, S) = SumOver(f, S) + n
           /\ SumOver(f, S) \in Int /\ Ints(g, S)
<1>1. e \in S /\ g[e] = f[e] + n /\ n \in Int
  BY DEF Written
<1>2. Ints(g, S) /\ Ints(f, S \ {e})
  BY IntsBelow DEF Ints, Written
<1>3. SumOver(f, S \ {e}) = SumOver(g, S \ {e})
  BY <1>2, SumAgrees DEF Written
<1>4. SumOver(f, S) = f[e] + SumOver(f, S \ {e}) /\ SumOver(f, S \ {e}) \in Int /\ f[e] \in Int
  BY <1>1, SumSplits, ZenonT(60)
<1>5. SumOver(g, S) = g[e] + SumOver(g, S \ {e})
  BY <1>1, <1>2, SumSplits
<1> QED BY <1>1, <1>2, <1>3, <1>4, <1>5

(* The sum of sums.                                                        *)
LEMMA SumOfSums ==
    ASSUME NEW f, NEW g, NEW h, NEW S, Ints(f, S), Ints(g, S), \A x \in S : h[x] = f[x] + g[x]
    PROVE  SumOver(h, S) = SumOver(f, S) + SumOver(g, S)
<1>1. Ints(h, S)
  BY DEF Ints
<1> DEFINE good == {T \in SUBSET S : SumOver(h, T) = SumOver(f, T) + SumOver(g, T)}
<1>2. ASSUME NEW T \in SUBSET S, \A U \in SUBSET T : U # T => U \in good
      PROVE  T \in good
  <2>1. CASE T = {}
    BY <2>1, SumOfNone
  <2>2. CASE T # {}
    <3>1. PICK e \in T : TRUE
      BY <2>2
    <3>2. T \ {e} \in good
      BY <1>2, <3>1
    <3>3. Ints(f, T) /\ Ints(g, T) /\ Ints(h, T)
      BY <1>1, IntsBelow
    <3>4. SumOver(h, T) = h[e] + SumOver(h, T \ {e})
      BY <3>1, <3>3, SumSplits
    <3>5. SumOver(f, T) = f[e] + SumOver(f, T \ {e}) /\ f[e] \in Int /\ SumOver(f, T \ {e}) \in Int
      BY <3>1, <3>3, SumSplits
    <3>6. SumOver(g, T) = g[e] + SumOver(g, T \ {e}) /\ g[e] \in Int /\ SumOver(g, T \ {e}) \in Int
      BY <3>1, <3>3, SumSplits
    <3> QED BY <3>2, <3>4, <3>5, <3>6
  <2> QED BY <2>1, <2>2
<1>3. S \in good
  <2> HIDE DEF good
  <2> QED BY <1>2, InductOnSubsets DEF Ints
<1> QED BY <1>3

(* Of two sets apart.                                                      *)
LEMMA SumOfUnion ==
    ASSUME NEW f, NEW S, NEW T, S \cap T = {}, Ints(f, S \cup T)
    PROVE  SumOver(f, S \cup T) = SumOver(f, S) + SumOver(f, T)
<1> DEFINE good == {U \in SUBSET T : SumOver(f, S \cup U) = SumOver(f, S) + SumOver(f, U)}
<1>0. Ints(f, S) /\ Ints(f, T)
  BY IntsBelow
<1>1. ASSUME NEW U \in SUBSET T, \A V \in SUBSET U : V # U => V \in good
      PROVE  U \in good
  <2>1. CASE U = {}
    <3>1. S \cup U = S /\ SumOver(f, S) \in Int
      BY <1>0, <2>1, SumInt
    <3> QED BY <2>1, <3>1, SumOfNone
  <2>2. CASE U # {}
    <3>1. PICK e \in U : TRUE
      BY <2>2
    <3>2. U \ {e} \in good
      BY <1>1, <3>1
    <3>3. Ints(f, U) /\ Ints(f, S \cup U)
      <4>1. U \in SUBSET (S \cup T) /\ S \cup U \in SUBSET (S \cup T)
        OBVIOUS
      <4> QED BY <4>1, IntsBelow
    <3>4. SumOver(f, U) = f[e] + SumOver(f, U \ {e}) /\ f[e] \in Int /\ SumOver(f, U \ {e}) \in Int
      BY <3>1, <3>3, SumSplits
    <3>5. SumOver(f, S \cup U) = f[e] + SumOver(f, S \cup (U \ {e}))
      <4>1. (S \cup U) \ {e} = S \cup (U \ {e}) /\ e \in S \cup U
        BY <3>1
      <4> QED BY <3>3, <4>1, SumSplits
    <3>6. SumOver(f, S) \in Int
      BY <1>0, SumInt
    <3> QED BY <3>2, <3>4, <3>5, <3>6
  <2> QED BY <2>1, <2>2
<1>2. T \in good
  <2> HIDE DEF good
  <2> QED BY <1>0, <1>1, InductOnSubsets DEF Ints
<1> QED BY <1>2

(* What is added where there is nothing.                                   *)
LEMMA SumOfNothing ==
    ASSUME NEW f, NEW S, IsFiniteSet(S), \A x \in S : f[x] = 0
    PROVE  SumOver(f, S) = 0
<1>1. Ints(f, S)
  BY DEF Ints
<1> DEFINE good == {T \in SUBSET S : SumOver(f, T) = 0}
<1>2. ASSUME NEW T \in SUBSET S, \A U \in SUBSET T : U # T => U \in good
      PROVE  T \in good
  <2>1. CASE T = {}
    BY <2>1, SumOfNone
  <2>2. CASE T # {}
    <3>1. PICK e \in T : TRUE
      BY <2>2
    <3>2. T \ {e} \in good
      BY <1>2, <3>1
    <3>3. SumOver(f, T) = f[e] + SumOver(f, T \ {e})
      BY <1>1, <3>1, IntsBelow, SumSplits
    <3> QED BY <3>1, <3>2, <3>3
  <2> QED BY <2>1, <2>2
<1>3. S \in good
  <2> HIDE DEF good
  <2> QED BY <1>2, InductOnSubsets
<1> QED BY <1>3

(* More everywhere is more in all.                                         *)
LEMMA SumOrder ==
    ASSUME NEW f, NEW g, NEW S, Ints(f, S), Ints(g, S), \A x \in S : f[x] <= g[x]
    PROVE  SumOver(f, S) <= SumOver(g, S)
<1> DEFINE good == {T \in SUBSET S : SumOver(f, T) <= SumOver(g, T)}
<1>2. ASSUME NEW T \in SUBSET S, \A U \in SUBSET T : U # T => U \in good
      PROVE  T \in good
  <2>1. CASE T = {}
    BY <2>1, SumOfNone
  <2>2. CASE T # {}
    <3>1. PICK e \in T : TRUE
      BY <2>2
    <3>2. T \ {e} \in good
      BY <1>2, <3>1
    <3>3. Ints(f, T) /\ Ints(g, T)
      BY IntsBelow
    <3>4. SumOver(f, T) = f[e] + SumOver(f, T \ {e}) /\ f[e] \in Int /\ SumOver(f, T \ {e}) \in Int
      BY <3>1, <3>3, SumSplits
    <3>5. SumOver(g, T) = g[e] + SumOver(g, T \ {e}) /\ g[e] \in Int /\ SumOver(g, T \ {e}) \in Int
      BY <3>1, <3>3, SumSplits
    <3> QED BY <3>1, <3>2, <3>4, <3>5
  <2> QED BY <2>1, <2>2
<1>3. S \in good
  <2> HIDE DEF good
  <2> QED BY <1>2, InductOnSubsets DEF Ints
<1> QED BY <1>3

(* Less of what is not negative is no more.                                *)
LEMMA SumOfFewer ==
    ASSUME NEW f, NEW S, Ints(f, S), \A x \in S : f[x] >= 0, NEW T \in SUBSET S
    PROVE  0 <= SumOver(f, T) /\ SumOver(f, T) <= SumOver(f, S)
<1>1. Ints(f, T) /\ Ints(f, S \ T)
  BY IntsBelow
<1>2. ASSUME NEW U \in SUBSET S, Ints(f, U) PROVE 0 <= SumOver(f, U) /\ SumOver(f, U) \in Int
  <2> DEFINE zero == [x \in U |-> 0]
  <2>1. SumOver(zero, U) = 0
    BY <1>2, SumOfNothing DEF Ints
  <2>2. SumOver(zero, U) <= SumOver(f, U)
    BY <1>2, SumOrder DEF Ints
  <2> QED BY <1>2, <2>1, <2>2, SumInt
<1>3. SumOver(f, S) = SumOver(f, T) + SumOver(f, S \ T)
  <2>1. T \cap (S \ T) = {} /\ T \cup (S \ T) = S
    OBVIOUS
  <2> QED BY <2>1, SumOfUnion
<1> QED BY <1>1, <1>2, <1>3

(* The sum of one value as often as there are elements.                    *)
LEMMA SumOfSame ==
    ASSUME NEW f, NEW S, IsFiniteSet(S), NEW c \in Int, \A x \in S : f[x] = c
    PROVE  SumOver(f, S) = c * Cardinality(S)
<1>0. Ints(f, S)
  BY DEF Ints
<1> DEFINE good == {T \in SUBSET S : SumOver(f, T) = c * Cardinality(T)}
<1>1. ASSUME NEW T \in SUBSET S, \A U \in SUBSET T : U # T => U \in good
      PROVE  T \in good
  <2>1. CASE T = {}
    <3>1. Cardinality(T) = 0
      BY <2>1, FS_EmptySet
    <3> QED BY <2>1, <3>1, SumOfNone
  <2>2. CASE T # {}
    <3>1. PICK e \in T : TRUE
      BY <2>2
    <3>2. IsFiniteSet(T \ {e}) /\ Ints(f, T) /\ f[e] = c
      BY <1>0, IntsBelow, FS_Subset
    <3>3. SumOver(f, T \ {e}) = c * Cardinality(T \ {e})
      BY <1>1, <3>1
    <3>4. SumOver(f, T) = c + SumOver(f, T \ {e})
      BY <3>1, <3>2, SumSplits
    <3>5. Cardinality(T) = Cardinality(T \ {e}) + 1 /\ Cardinality(T \ {e}) \in Nat
      <4>1. IsFiniteSet(T)
        BY FS_Subset
      <4> QED BY <3>1, <3>2, <4>1, FS_RemoveElement, FS_CardinalityType
    <3>6. \A n \in Nat : c + c * n = c * (n + 1)
      OBVIOUS
    <3> QED BY <3>3, <3>4, <3>5, <3>6
  <2> QED BY <2>1, <2>2
<1>2. S \in good
  <2> HIDE DEF good
  <2> QED BY <1>1, InductOnSubsets
<1> QED BY <1>2

(* A finite set of integers has a greatest element.                        *)
LEMMA MaxOf ==
    ASSUME NEW S \in SUBSET Int, IsFiniteSet(S), S # {}
    PROVE  Max(S) \in S /\ \A y \in S : y <= Max(S)
<1> DEFINE good == {T \in SUBSET S : T # {} => \E x \in T : \A y \in T : x >= y}
<1>1. ASSUME NEW T \in SUBSET S, \A U \in SUBSET T : U # T => U \in good
      PROVE  T \in good
  <2>1. CASE T # {}
    <3>1. PICK e \in T : TRUE
      BY <2>1
    <3>2. CASE T = {e}
      BY <3>2
    <3>3. CASE T # {e}
      <4>1. T \ {e} \in good /\ T \ {e} # {}
        BY <1>1, <3>1, <3>3
      <4> PICK x \in T \ {e} : \A y \in T \ {e} : x >= y
        BY <4>1
      <4>2. x \in Int /\ e \in Int /\ \A y \in T : y \in Int
        OBVIOUS
      <4>3. CASE x >= e
        BY <4>3
      <4>4. CASE x < e
        <5>1. \A y \in T : e >= y
          BY <4>2, <4>4
        <5> QED BY <5>1, <3>1
      <4> QED BY <4>2, <4>3, <4>4
    <3> QED BY <3>2, <3>3
  <2> QED BY <2>1
<1>2. S \in good
  <2> HIDE DEF good
  <2> QED BY <1>1, InductOnSubsets
<1>3. \E x \in S : \A y \in S : x >= y
  BY <1>2
<1> QED BY <1>3 DEF Max

(* What is taken off.                                                      *)
LEMMA SumOfNegated ==
    ASSUME NEW f, NEW g, NEW S, Ints(f, S), \A x \in S : g[x] = -f[x]
    PROVE  Ints(g, S) /\ SumOver(g, S) = -SumOver(f, S)
<1> DEFINE zero == [x \in S |-> 0]
<1>1. Ints(g, S)
  BY DEF Ints
<1>2. SumOver(zero, S) = 0
  BY SumOfNothing DEF Ints
<1>3. SumOver(zero, S) = SumOver(f, S) + SumOver(g, S)
  <2>1. \A x \in S : zero[x] = f[x] + g[x]
    BY DEF Ints
  <2> HIDE DEF zero
  <2> QED BY <1>1, <2>1, SumOfSums
<1>4. SumOver(f, S) \in Int /\ SumOver(g, S) \in Int
  BY <1>1, SumInt
<1> HIDE DEF zero
<1> QED BY <1>1, <1>2, <1>3, <1>4

(* A sum is that of its groups, and of what is in none of them.            *)
LEMMA SumOfGroups ==
    ASSUME NEW f, NEW S, Ints(f, S), NEW of, NEW G, IsFiniteSet(G), NEW g,
           \A k \in G : g[k] = SumOver(f, {x \in S : of[x] = k})
    PROVE  SumOver(f, S) = SumOver(g, G) + SumOver(f, {x \in S : of[x] \notin G})
<1> DEFINE in(T) == {x \in S : of[x] \in T}
           out == {x \in S : of[x] \notin G}
           good == {T \in SUBSET G : SumOver(f, in(T)) = SumOver(g, T)}
<1>0. Ints(g, G)
  <2>1. ASSUME NEW k \in G PROVE g[k] \in Int
    <3>1. Ints(f, {x \in S : of[x] = k})
      BY IntsBelow
    <3> QED BY <3>1, SumInt
  <2> QED BY <2>1 DEF Ints
<1>1. ASSUME NEW T \in SUBSET G, \A U \in SUBSET T : U # T => U \in good
      PROVE  T \in good
  <2>1. CASE T = {}
    <3>1. in(T) = {}
      BY <2>1
    <3> QED BY <2>1, <3>1, SumOfNone
  <2>2. CASE T # {}
    <3>1. PICK k \in T : TRUE
      BY <2>2
    <3>2. T \ {k} \in good
      BY <1>1, <3>1
    <3> DEFINE own == {x \in S : of[x] = k}
    <3>3. in(T) = own \cup in(T \ {k}) /\ own \cap in(T \ {k}) = {}
      BY <3>1
    <3>4. Ints(f, in(T))
      BY IntsBelow
    <3>5. SumOver(f, in(T)) = SumOver(f, own) + SumOver(f, in(T \ {k}))
      <4> HIDE DEF own, in
      <4> QED BY <3>3, <3>4, SumOfUnion
    <3>6. g[k] = SumOver(f, own)
      BY <3>1
    <3>7. SumOver(g, T) = g[k] + SumOver(g, T \ {k})
      BY <1>0, <3>1, IntsBelow, SumSplits
    <3>8. SumOver(f, in(T \ {k})) = SumOver(g, T \ {k})
      BY <3>2
    <3> HIDE DEF own, in
    <3>9. SumOver(f, in(T)) = SumOver(g, T)
      BY <3>5, <3>6, <3>7, <3>8
    <3> QED BY <3>9
  <2> QED BY <2>1, <2>2
<1>2. G \in good
  <2> HIDE DEF good
  <2> QED BY <1>1, InductOnSubsets
<1>3. S = in(G) \cup out /\ in(G) \cap out = {}
  OBVIOUS
<1>4. SumOver(f, S) = SumOver(f, in(G)) + SumOver(f, out)
  <2> HIDE DEF in, out
  <2> QED BY <1>3, SumOfUnion
<1> QED BY <1>2, <1>4

(* The same, with the groups and what is in none of them under names.      *)
Grouped(f, S, of, G, g) == \A k \in G : g[k] = SumOver(f, {x \in S : of[x] = k})

Outside(S, of, G) == {x \in S : of[x] \notin G}

LEMMA SumByGroups ==
    ASSUME NEW f, NEW S, Ints(f, S), NEW of, NEW G, IsFiniteSet(G), NEW g, Grouped(f, S, of, G, g)
    PROVE  /\ SumOver(f, S) = SumOver(g, G) + SumOver(f, Outside(S, of, G))
           /\ Ints(g, G) /\ SumOver(g, G) \in Int
<1>1. \A k \in G : g[k] = SumOver(f, {x \in S : of[x] = k})
  BY DEF Grouped
<1>2. SumOver(f, S) = SumOver(g, G) + SumOver(f, {x \in S : of[x] \notin G})
  BY ONLY <1>1, Ints(f, S), IsFiniteSet(G), SumOfGroups
<1>3. ASSUME NEW k \in G PROVE g[k] \in Int
  <2>1. Ints(f, {x \in S : of[x] = k})
    BY IntsBelow
  <2>2. SumOver(f, {x \in S : of[x] = k}) \in Int
    BY <2>1, SumInt
  <2> QED BY <1>1, <2>2
<1>4. Ints(g, G)
  BY <1>3 DEF Ints
<1>5. SumOver(g, G) \in Int
  BY <1>4, SumInt
<1> QED BY <1>2, <1>4, <1>5 DEF Outside

LEMMA MaxOfTwo ==
    ASSUME NEW a \in Int, NEW b \in Int
    PROVE  Max({a, b}) = IF a >= b THEN a ELSE b
BY DEF Max

LEMMA MinOfTwo ==
    ASSUME NEW a \in Int, NEW b \in Int
    PROVE  Min({a, b}) = IF a <= b THEN a ELSE b
BY DEF Min
(* A sum does not depend on what its terms are called.                     *)
LEMMA SumRenamed ==
    ASSUME NEW f, NEW S, Ints(f, S), NEW g, NEW T, IsFiniteSet(T), NEW to,
           \A x \in S : to[x] \in T /\ g[to[x]] = f[x],
           \A y \in T : \E x \in S : to[x] = y,
           \A x, z \in S : to[x] = to[z] => x = z
    PROVE  SumOver(f, S) = SumOver(g, T) /\ SumOver(f, S) \in Int
<1>1. ASSUME NEW y \in T
      PROVE  g[y] = SumOver(f, {x \in S : to[x] = y})
  <2>1. PICK x \in S : to[x] = y
    OBVIOUS
  <2>2. {z \in S : to[z] = y} = {} \cup {x}
    BY <2>1
  <2>3. Ints(f, {} \cup {x})
    BY IntsBelow
  <2>4. SumOver(f, {} \cup {x}) = SumOver(f, {}) + f[x] /\ f[x] \in Int
    BY <2>3, SumGrows
  <2>5. SumOver(f, {} \cup {x}) = f[x]
    BY <2>4, SumOfNone
  <2>6. g[y] = f[x]
    BY <2>1
  <2> QED BY <2>2, <2>5, <2>6
<1>2. {x \in S : to[x] \notin T} = {}
  OBVIOUS
<1>3. SumOver(f, S) = SumOver(g, T) + SumOver(f, {x \in S : to[x] \notin T})
  BY <1>1, SumOfGroups
<1>4. SumOver(f, S) \in Int
  BY SumInt
<1>5. Ints(g, T)
  <2>1. ASSUME NEW y \in T PROVE g[y] \in Int
    <3>1. PICK x \in S : to[x] = y
      OBVIOUS
    <3> QED BY <3>1 DEF Ints
  <2> QED BY <2>1 DEF Ints
<1>6. SumOver(g, T) \in Int
  BY <1>5, SumInt
<1> QED BY <1>2, <1>3, <1>4, <1>6, SumOfNone
=============================================================================
