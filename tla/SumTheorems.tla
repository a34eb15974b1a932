---------------------------- MODULE SumTheorems ----------------------------
(***************************************************************************)
(* What the sums of module Functions are, for functions on finite sets:    *)
(* SumFunctionOnSet(f, S) is defined by a recursion that takes the         *)
(* elements of S in an order of its own.  The library's induction theorems *)
(* take a predicate; here induction is the fact that a set of finite sets  *)
(* has a minimal element, which takes a set.                               *)
(***************************************************************************)
EXTENDS Integers, FiniteSets, Functions, FiniteSetTheorems, TLAPS

(***************************************************************************)
(* Of some subsets of a finite set one contains no other.                  *)
(***************************************************************************)
LEMMA Minimal ==
    ASSUME NEW S, IsFiniteSet(S), NEW T \in SUBSET (SUBSET S), T # {}
    PROVE  \E U \in T : \A V \in T : V \subseteq U => V = U
<1>1. IsWellFoundedOn(StrictSubsetOrdering(S), FiniteSubsetsOf(S))
  BY FS_StrictSubsetOrderingWellFounded
<1>2. FiniteSubsetsOf(S) = SUBSET S
  BY FS_FiniteSubsetsOfFinite
<1>3. \E U \in T : \A V \in T : <<V, U>> \notin StrictSubsetOrdering(S)
  BY <1>1, <1>2, WFMin
<1> QED
  BY <1>3 DEF StrictSubsetOrdering

(***************************************************************************)
(* Induction over the subsets of a finite set, for a set T of subsets.     *)
(***************************************************************************)
LEMMA SubsetInduction ==
    ASSUME NEW S, IsFiniteSet(S), NEW T,
           {} \in T,
           \A U \in SUBSET S, x \in S : U \in T /\ x \notin U => U \cup {x} \in T
    PROVE  S \in T
<1> SUFFICES ASSUME S \notin T PROVE FALSE
  OBVIOUS
<1> DEFINE Bad == {U \in SUBSET S : U \notin T}
<1>1. PICK U \in Bad : \A V \in Bad : V \subseteq U => V = U
  <2>1. Bad \in SUBSET (SUBSET S) /\ Bad # {}
    OBVIOUS
  <2> HIDE DEF Bad
  <2> QED
    BY <2>1, Minimal
<1>2. PICK x \in U : x \in S
  BY <1>1
<1>3. U \ {x} \in T
  BY <1>1, <1>2
<1>4. (U \ {x}) \cup {x} = U
  BY <1>2
<1> QED
  BY <1>1, <1>2, <1>3, <1>4

-----------------------------------------------------------------------------
(***************************************************************************)
(* The recursion by which g sums f up over the subsets of S - or, if       *)
(* times, multiplies.                                                      *)
(***************************************************************************)
First(s) == CHOOSE x \in s : TRUE
Unit(times) == IF times THEN 1 ELSE 0
Combine(times, a, b) == IF times THEN a * b ELSE a + b
Folds(g, times, f, S) ==
    g = [s \in SUBSET S |-> IF s = {} THEN Unit(times)
                            ELSE Combine(times, f[First(s)], g[s \ {First(s)}])]

LEMMA SumFolds ==
    ASSUME NEW f, NEW S
    PROVE  SumFunctionOnSet(f, S) = (CHOOSE g : Folds(g, FALSE, f, S))[S]
  BY DEF SumFunctionOnSet, FoldFunctionOnSet, MapThenFoldSet, Folds, First, Unit, Combine

LEMMA FirstOf == ASSUME NEW s, s # {} PROVE First(s) \in s
  BY DEF First

(***************************************************************************)
(* Two functions that follow it agree where both are defined.              *)
(***************************************************************************)
LEMMA FoldsUnique ==
    ASSUME NEW times, NEW f, NEW S, NEW T, NEW g, NEW h, Folds(g, times, f, S), Folds(h, times, f, T),
           NEW U \in SUBSET S, U \in SUBSET T, IsFiniteSet(U)
    PROVE  g[U] = h[U]
<1> SUFFICES ASSUME g[U] # h[U] PROVE FALSE
  OBVIOUS
<1> DEFINE Bad == {V \in SUBSET U : g[V] # h[V]}
<1>1. PICK V \in Bad : \A W \in Bad : W \subseteq V => W = V
  <2>1. Bad \in SUBSET (SUBSET U) /\ Bad # {}
    OBVIOUS
  <2> HIDE DEF Bad
  <2> QED
    BY <2>1, Minimal
<1>2. V \in SUBSET S /\ V \in SUBSET T /\ g[V] # h[V]
  BY <1>1
<1>3. V # {}
  BY <1>2 DEF Folds
<1> DEFINE x == First(V)
<1>4. x \in V
  BY <1>3, FirstOf
<1>5. g[V \ {x}] = h[V \ {x}]
  BY <1>1, <1>4
<1>6. /\ g[V] = Combine(times, f[x], g[V \ {x}])
      /\ h[V] = Combine(times, f[x], h[V \ {x}])
  BY <1>2, <1>3 DEF Folds
<1> QED
  BY <1>2, <1>5, <1>6

(***************************************************************************)
(* There is one.                                                           *)
(***************************************************************************)
LEMMA FoldsExists ==
    ASSUME NEW times, NEW f, NEW S, IsFiniteSet(S)
    PROVE  \E g : Folds(g, times, f, S)
<1> SUFFICES ASSUME ~ \E g : Folds(g, times, f, S) PROVE FALSE
  OBVIOUS
<1> DEFINE Bad == {U \in SUBSET S : ~ \E g : Folds(g, times, f, U)}
<1>1. PICK U \in Bad : \A V \in Bad : V \subseteq U => V = U
  <2>1. Bad \in SUBSET (SUBSET S) /\ Bad # {}
    OBVIOUS
  <2> HIDE DEF Bad
  <2> QED
    BY <2>1, Minimal
<1>2. U \in SUBSET S /\ ~ \E g : Folds(g, times, f, U)
  BY <1>1
<1> DEFINE G(V) == CHOOSE g : Folds(g, times, f, V)
           whole(V) == G(V)[V]
           h == [s \in SUBSET U |-> IF s = {} THEN Unit(times)
                                    ELSE Combine(times, f[First(s)], whole(s \ {First(s)}))]
<1>3. ASSUME NEW V \in SUBSET U, V # U PROVE Folds(G(V), times, f, V)
  <2>1. \E g : Folds(g, times, f, V)
    BY <1>1, <1>2, <1>3
  <2> QED
    BY <2>1
<1>4. ASSUME NEW V \in SUBSET U, V # U PROVE h[V] = whole(V)
  <2>1. Folds(G(V), times, f, V) /\ V \in SUBSET V
    BY <1>3, <1>4
  <2>2. CASE V = {}
    BY <2>1, <2>2 DEF Folds
  <2>3. CASE V # {}
    <3>1. First(V) \in V
      BY <2>3, FirstOf
    <3> DEFINE W == V \ {First(V)}
    <3>2. W \in SUBSET U /\ W # U /\ W \in SUBSET V /\ W \in SUBSET W
      BY <3>1
    <3>3. Folds(G(W), times, f, W)
      BY <1>3, <3>2
    <3>4. IsFiniteSet(W)
      BY <1>2, <3>2, FS_Subset
    <3> HIDE DEF W, G
    <3>5. G(V)[W] = G(W)[W]
      BY <2>1, <3>2, <3>3, <3>4, FoldsUnique
    <3>6. G(V)[V] = Combine(times, f[First(V)], G(V)[W])
      BY <2>1, <2>3 DEF Folds, W
    <3> QED
      BY <2>3, <3>5, <3>6 DEF W
  <2> QED
    BY <2>2, <2>3
<1>5. \A s \in SUBSET U : s # {} => s \ {First(s)} \in SUBSET U /\ s \ {First(s)} # U
  BY FirstOf
<1> HIDE DEF whole
<1>6. h = [s \in SUBSET U |-> IF s = {} THEN Unit(times)
                            ELSE Combine(times, f[First(s)], h[s \ {First(s)}])]
  BY <1>4, <1>5
<1>7. Folds(h, times, f, U)
  BY <1>6 DEF Folds
<1> QED
  BY <1>2, <1>7

-----------------------------------------------------------------------------
(***************************************************************************)
(* The recursion as equations.                                             *)
(***************************************************************************)
LEMMA SumEmpty == ASSUME NEW f PROVE SumFunctionOnSet(f, {}) = 0
<1>1. \E g : Folds(g, FALSE, f, {})
  BY FoldsExists, FS_EmptySet
<1>2. Folds(CHOOSE g : Folds(g, FALSE, f, {}), FALSE, f, {})
  BY <1>1
<1> QED
  BY <1>2, SumFolds DEF Folds, Unit, Combine

LEMMA SumFirst ==
    ASSUME NEW f, NEW S, IsFiniteSet(S), S # {}
    PROVE  SumFunctionOnSet(f, S) = f[First(S)] + SumFunctionOnSet(f, S \ {First(S)})
<1> DEFINE times == FALSE
           G(V) == CHOOSE g : Folds(g, times, f, V)
           W == S \ {First(S)}
<1>1. IsFiniteSet(W) /\ W \in SUBSET S
  BY FS_Subset
<1>2. Folds(G(S), times, f, S) /\ Folds(G(W), times, f, W)
  BY <1>1, FoldsExists
<1>3. SumFunctionOnSet(f, S) = G(S)[S] /\ SumFunctionOnSet(f, W) = G(W)[W]
  BY SumFolds
<1> HIDE DEF G, times
<1>4. G(S)[W] = G(W)[W]
  BY <1>1, <1>2, FoldsUnique
<1>5. G(S)[S] = f[First(S)] + G(S)[W]
  BY <1>2 DEF Folds, Unit, Combine, times
<1> QED
  BY <1>3, <1>4, <1>5

LEMMA SumInt ==
    ASSUME NEW f, NEW S, IsFiniteSet(S), \A x \in S : f[x] \in Int
    PROVE  SumFunctionOnSet(f, S) \in Int
<1> SUFFICES ASSUME SumFunctionOnSet(f, S) \notin Int PROVE FALSE
  OBVIOUS
<1> DEFINE Bad == {U \in SUBSET S : SumFunctionOnSet(f, U) \notin Int}
<1>1. PICK U \in Bad : \A V \in Bad : V \subseteq U => V = U
  <2>1. Bad \in SUBSET (SUBSET S) /\ Bad # {}
    OBVIOUS
  <2> HIDE DEF Bad
  <2> QED
    BY <2>1, Minimal
<1>2. U \in SUBSET S /\ SumFunctionOnSet(f, U) \notin Int /\ IsFiniteSet(U)
  BY <1>1, FS_Subset
<1>3. U # {}
  BY <1>2, SumEmpty
<1>4. First(U) \in U
  BY <1>3, FirstOf
<1>5. SumFunctionOnSet(f, U \ {First(U)}) \in Int
  BY <1>1, <1>4
<1>6. SumFunctionOnSet(f, U) = f[First(U)] + SumFunctionOnSet(f, U \ {First(U)})
  BY <1>2, <1>3, SumFirst
<1>7. f[First(U)] \in Int
  BY <1>2, <1>4
<1> QED
  BY <1>2, <1>5, <1>6, <1>7

(***************************************************************************)
(* Any element may be taken first.                                         *)
(***************************************************************************)
LEMMA SumRemove ==
    ASSUME NEW f, NEW S, IsFiniteSet(S), \A x \in S : f[x] \in Int, NEW y \in S
    PROVE  SumFunctionOnSet(f, S) = f[y] + SumFunctionOnSet(f, S \ {y})
<1> DEFINE Any(U) == \A x \in U : SumFunctionOnSet(f, U) = f[x] + SumFunctionOnSet(f, U \ {x})
<1> SUFFICES ASSUME ~Any(S) PROVE FALSE
  OBVIOUS
<1> DEFINE Bad == {U \in SUBSET S : ~Any(U)}
<1>1. PICK U \in Bad : \A V \in Bad : V \subseteq U => V = U
  <2>1. Bad \in SUBSET (SUBSET S) /\ Bad # {}
    OBVIOUS
  <2> HIDE DEF Bad
  <2> QED
    BY <2>1, Minimal
<1>2. U \in SUBSET S /\ ~Any(U) /\ IsFiniteSet(U)
  BY <1>1, FS_Subset
<1>3. PICK x \in U : SumFunctionOnSet(f, U) # f[x] + SumFunctionOnSet(f, U \ {x})
  BY <1>2
<1> DEFINE p == First(U)
<1>4. p \in U
  BY <1>3, FirstOf
<1>5. SumFunctionOnSet(f, U) = f[p] + SumFunctionOnSet(f, U \ {p})
  BY <1>2, <1>3, SumFirst
<1>6. x # p
  BY <1>3, <1>5
<1> DEFINE W == U \ {p, x}
<1>7. U \ {p} \in SUBSET S /\ U \ {x} \in SUBSET S /\ (U \ {p}) \ {x} = W /\ (U \ {x}) \ {p} = W
  BY <1>2
<1>8. Any(U \ {p}) /\ Any(U \ {x})
  BY <1>1, <1>4, <1>7
<1> HIDE DEF p
<1>9. SumFunctionOnSet(f, U \ {p}) = f[x] + SumFunctionOnSet(f, W)
  BY <1>3, <1>6, <1>7, <1>8
<1>10. SumFunctionOnSet(f, U \ {x}) = f[p] + SumFunctionOnSet(f, W)
  BY <1>4, <1>6, <1>7, <1>8
<1>11. SumFunctionOnSet(f, W) \in Int /\ f[x] \in Int /\ f[p] \in Int
  <2>1. W \in SUBSET S /\ IsFiniteSet(W)
    BY <1>2, FS_Subset
  <2> QED
    BY <1>2, <1>4, <2>1, SumInt
<1> QED
  BY <1>3, <1>5, <1>9, <1>10, <1>11

LEMMA SumAdd ==
    ASSUME NEW f, NEW S, IsFiniteSet(S), NEW y, y \notin S, \A x \in S \cup {y} : f[x] \in Int
    PROVE  SumFunctionOnSet(f, S \cup {y}) = f[y] + SumFunctionOnSet(f, S)
<1>1. IsFiniteSet(S \cup {y}) /\ (S \cup {y}) \ {y} = S
  BY FS_AddElement
<1> QED
  BY <1>1, SumRemove

-----------------------------------------------------------------------------
(***************************************************************************)
(* Sums of functions that are equal, larger, sums, multiples.              *)
(***************************************************************************)
LEMMA SumLinear ==
    ASSUME NEW S, IsFiniteSet(S), NEW f, NEW g, NEW h, NEW a \in Int, NEW b \in Int,
           \A x \in S : f[x] \in Int /\ g[x] \in Int /\ h[x] = a * f[x] + b * g[x]
    PROVE  SumFunctionOnSet(h, S) = a * SumFunctionOnSet(f, S) + b * SumFunctionOnSet(g, S)
<1> DEFINE T == {U \in SUBSET S : SumFunctionOnSet(h, U) = a * SumFunctionOnSet(f, U) + b * SumFunctionOnSet(g, U)}
<1>1. {} \in T
  BY SumEmpty
<1>2. \A x \in S : h[x] \in Int
  OBVIOUS
<1>3. ASSUME NEW U \in SUBSET S, NEW x \in S, U \in T, x \notin U PROVE U \cup {x} \in T
  <2>1. IsFiniteSet(U)
    BY FS_Subset
  <2>2. SumFunctionOnSet(f, U \cup {x}) = f[x] + SumFunctionOnSet(f, U)
    BY <1>3, <2>1, SumAdd
  <2>3. SumFunctionOnSet(g, U \cup {x}) = g[x] + SumFunctionOnSet(g, U)
    BY <1>3, <2>1, SumAdd
  <2>4. SumFunctionOnSet(h, U \cup {x}) = h[x] + SumFunctionOnSet(h, U)
    BY <1>2, <1>3, <2>1, SumAdd
  <2>5. SumFunctionOnSet(f, U) \in Int /\ SumFunctionOnSet(g, U) \in Int
    BY <1>3, <2>1, SumInt
  <2>6. SumFunctionOnSet(h, U) = a * SumFunctionOnSet(f, U) + b * SumFunctionOnSet(g, U)
    BY <1>3
  <2>7. \A u, v, w, z \in Int : a * (u + v) + b * (w + z) = (a * u + b * w) + (a * v + b * z)
    OBVIOUS
  <2>8. SumFunctionOnSet(h, U \cup {x}) = a * (f[x] + SumFunctionOnSet(f, U)) + b * (g[x] + SumFunctionOnSet(g, U))
    BY <2>4, <2>5, <2>6, <2>7
  <2> QED
    BY <2>2, <2>3, <2>8
<1> HIDE DEF T
<1>4. S \in T
  BY <1>1, <1>3, SubsetInduction
<1> QED
  BY <1>4 DEF T

LEMMA SumMonotone ==
    ASSUME NEW S, IsFiniteSet(S), NEW f, NEW g,
           \A x \in S : f[x] \in Int /\ g[x] \in Int /\ f[x] <= g[x]
    PROVE  SumFunctionOnSet(f, S) <= SumFunctionOnSet(g, S)
<1> DEFINE T == {U \in SUBSET S : SumFunctionOnSet(f, U) <= SumFunctionOnSet(g, U)}
<1>1. {} \in T
  BY SumEmpty
<1>2. ASSUME NEW U \in SUBSET S, NEW x \in S, U \in T, x \notin U PROVE U \cup {x} \in T
  <2>1. IsFiniteSet(U)
    BY FS_Subset
  <2>2. SumFunctionOnSet(f, U \cup {x}) = f[x] + SumFunctionOnSet(f, U)
    BY <1>2, <2>1, SumAdd
  <2>3. SumFunctionOnSet(g, U \cup {x}) = g[x] + SumFunctionOnSet(g, U)
    BY <1>2, <2>1, SumAdd
  <2>4. SumFunctionOnSet(f, U) \in Int /\ SumFunctionOnSet(g, U) \in Int
    BY <1>2, <2>1, SumInt
  <2> QED
    BY <1>2, <2>2, <2>3, <2>4
<1> HIDE DEF T
<1>3. S \in T
  BY <1>1, <1>2, SubsetInduction
<1> QED
  BY <1>3 DEF T

LEMMA SumZero ==
    ASSUME NEW S, IsFiniteSet(S), NEW f, \A x \in S : f[x] = 0
    PROVE  SumFunctionOnSet(f, S) = 0
<1>1. \A x \in S : f[x] \in Int /\ f[x] = 0 * f[x] + 0 * f[x]
  OBVIOUS
<1>2. SumFunctionOnSet(f, S) \in Int
  BY <1>1, SumInt
<1>3. SumFunctionOnSet(f, S) = 0 * SumFunctionOnSet(f, S) + 0 * SumFunctionOnSet(f, S)
  BY <1>1, SumLinear
<1> QED
  BY <1>2, <1>3

LEMMA SumEqual ==
    ASSUME NEW S, IsFiniteSet(S), NEW f, NEW g, \A x \in S : f[x] \in Int /\ g[x] = f[x]
    PROVE  SumFunctionOnSet(f, S) = SumFunctionOnSet(g, S)
<1>1. SumFunctionOnSet(f, S) \in Int /\ SumFunctionOnSet(g, S) \in Int
  BY SumInt
<1>2. SumFunctionOnSet(f, S) <= SumFunctionOnSet(g, S)
  BY SumMonotone
<1>3. SumFunctionOnSet(g, S) <= SumFunctionOnSet(f, S)
  BY SumMonotone
<1> QED
  BY <1>1, <1>2, <1>3

LEMMA SumNat ==
    ASSUME NEW S, IsFiniteSet(S), NEW f, \A x \in S : f[x] \in Nat
    PROVE  SumFunctionOnSet(f, S) \in Nat
<1> DEFINE zero == [x \in S |-> 0]
<1>1. SumFunctionOnSet(f, S) \in Int
  BY SumInt
<1>2. SumFunctionOnSet(zero, S) = 0
  BY SumZero
<1>3. SumFunctionOnSet(zero, S) <= SumFunctionOnSet(f, S)
  BY SumMonotone
<1> QED
  BY <1>1, <1>2, <1>3

LEMMA SumPositive ==
    ASSUME NEW S, IsFiniteSet(S), NEW f, \A x \in S : f[x] \in Nat, NEW y \in S, f[y] > 0
    PROVE  SumFunctionOnSet(f, S) > 0
<1>1. IsFiniteSet(S \ {y})
  BY FS_Subset
<1>2. SumFunctionOnSet(f, S \ {y}) \in Nat
  BY <1>1, SumNat
<1>3. SumFunctionOnSet(f, S) = f[y] + SumFunctionOnSet(f, S \ {y})
  BY SumRemove
<1> QED
  BY <1>2, <1>3

(***************************************************************************)
(* Sums over two sets, or over a part of one.                              *)
(***************************************************************************)
LEMMA SumUnion ==
    ASSUME NEW S, NEW T, IsFiniteSet(S), IsFiniteSet(T), S \cap T = {},
           NEW f, \A x \in S \cup T : f[x] \in Int
    PROVE  SumFunctionOnSet(f, S \cup T) = SumFunctionOnSet(f, S) + SumFunctionOnSet(f, T)
<1> DEFINE D == {U \in SUBSET T : SumFunctionOnSet(f, S \cup U) = SumFunctionOnSet(f, S) + SumFunctionOnSet(f, U)}
<1>1. {} \in D
  <2>1. S \cup {} = S /\ SumFunctionOnSet(f, S) \in Int
    BY SumInt
  <2> QED
    BY <2>1, SumEmpty
<1>2. ASSUME NEW U \in SUBSET T, NEW x \in T, U \in D, x \notin U PROVE U \cup {x} \in D
  <2>1. IsFiniteSet(U) /\ IsFiniteSet(S \cup U)
    BY FS_Subset, FS_Union
  <2>2. SumFunctionOnSet(f, U \cup {x}) = f[x] + SumFunctionOnSet(f, U)
    BY <1>2, <2>1, SumAdd
  <2>3. SumFunctionOnSet(f, (S \cup U) \cup {x}) = f[x] + SumFunctionOnSet(f, S \cup U)
    BY <1>2, <2>1, SumAdd
  <2>4. (S \cup U) \cup {x} = S \cup (U \cup {x})
    OBVIOUS
  <2>5. SumFunctionOnSet(f, S) \in Int /\ SumFunctionOnSet(f, U) \in Int /\ f[x] \in Int
    BY <1>2, <2>1, SumInt
  <2>6. SumFunctionOnSet(f, S \cup U) = SumFunctionOnSet(f, S) + SumFunctionOnSet(f, U)
    BY <1>2
  <2>7. SumFunctionOnSet(f, S \cup (U \cup {x})) = f[x] + SumFunctionOnSet(f, S \cup U)
    BY <2>3, <2>4
  <2>8. SumFunctionOnSet(f, S \cup (U \cup {x})) = SumFunctionOnSet(f, S) + SumFunctionOnSet(f, U \cup {x})
    BY <2>2, <2>5, <2>6, <2>7
  <2> QED
    BY <1>2, <2>8
<1> HIDE DEF D
<1>3. T \in D
  BY <1>1, <1>2, SubsetInduction
<1> QED
  BY <1>3 DEF D

LEMMA SumSubset ==
    ASSUME NEW S, IsFiniteSet(S), NEW T \in SUBSET S, NEW f, \A x \in S : f[x] \in Nat
    PROVE  SumFunctionOnSet(f, T) <= SumFunctionOnSet(f, S)
<1>1. IsFiniteSet(T) /\ IsFiniteSet(S \ T) /\ T \cup (S \ T) = S /\ T \cap (S \ T) = {}
  BY FS_Subset
<1>2. SumFunctionOnSet(f, S) = SumFunctionOnSet(f, T) + SumFunctionOnSet(f, S \ T)
  BY <1>1, SumUnion
<1>3. SumFunctionOnSet(f, T) \in Nat /\ SumFunctionOnSet(f, S \ T) \in Nat
  BY <1>1, SumNat
<1> QED
  BY <1>2, <1>3

(***************************************************************************)
(* Each element of S counted once.                                         *)
(***************************************************************************)
LEMMA SumOfOnes ==
    ASSUME NEW S, IsFiniteSet(S), NEW f, \A x \in S : f[x] = 1
    PROVE  SumFunctionOnSet(f, S) = Cardinality(S)
<1> DEFINE T == {U \in SUBSET S : SumFunctionOnSet(f, U) = Cardinality(U)}
<1>1. {} \in T
  BY SumEmpty, FS_EmptySet
<1>2. ASSUME NEW U \in SUBSET S, NEW x \in S, U \in T, x \notin U PROVE U \cup {x} \in T
  <2>1. IsFiniteSet(U)
    BY FS_Subset
  <2>2. SumFunctionOnSet(f, U \cup {x}) = f[x] + SumFunctionOnSet(f, U)
    BY <1>2, <2>1, SumAdd
  <2>3. Cardinality(U \cup {x}) = Cardinality(U) + 1 /\ Cardinality(U) \in Nat
    BY <1>2, <2>1, FS_AddElement, FS_CardinalityType
  <2> QED
    BY <1>2, <2>2, <2>3
<1> HIDE DEF T
<1>3. S \in T
  BY <1>1, <1>2, SubsetInduction
<1> QED
  BY <1>3 DEF T

LEMMA SumConstant ==
    ASSUME NEW S, IsFiniteSet(S), NEW k \in Int, NEW f, \A x \in S : f[x] = k
    PROVE  SumFunctionOnSet(f, S) = k * Cardinality(S)
<1> DEFINE one == [x \in S |-> 1]
           none == 0
<1>1. none \in Int /\ \A x \in S : one[x] = 1 /\ one[x] \in Int /\ f[x] = k * one[x] + none * one[x]
  OBVIOUS
<1> HIDE DEF one, none
<1>2. SumFunctionOnSet(one, S) = Cardinality(S) /\ Cardinality(S) \in Nat
  BY <1>1, SumOfOnes, FS_CardinalityType
<1>3. SumFunctionOnSet(f, S) = k * SumFunctionOnSet(one, S) + none * SumFunctionOnSet(one, S)
  BY <1>1, SumLinear
<1> QED
  BY <1>2, <1>3 DEF none

(***************************************************************************)
(* The same values under other names: b renames the elements of S.         *)
(***************************************************************************)
LEMMA SumRenamed ==
    ASSUME NEW S, IsFiniteSet(S), NEW T, NEW b \in Bijection(S, T),
           NEW f, NEW g, \A x \in S : f[x] \in Int /\ g[b[x]] = f[x]
    PROVE  SumFunctionOnSet(f, S) = SumFunctionOnSet(g, T)
<1> DEFINE Img(U) == {b[x] : x \in U}
           D == {U \in SUBSET S : SumFunctionOnSet(f, U) = SumFunctionOnSet(g, Img(U)) /\ IsFiniteSet(Img(U))}
<1>b. /\ \A x, y \in S : b[x] = b[y] => x = y
      /\ Img(S) = T
  BY DEF Bijection, Injection, Surjection, IsInjective
<1>1. {} \in D
  <2>1. Img({}) = {}
    OBVIOUS
  <2> QED
    BY <2>1, SumEmpty, FS_EmptySet
<1>2. ASSUME NEW U \in SUBSET S, NEW x \in S, U \in D, x \notin U PROVE U \cup {x} \in D
  <2>1. IsFiniteSet(U) /\ IsFiniteSet(Img(U))
    BY <1>2, FS_Subset
  <2>2. Img(U \cup {x}) = Img(U) \cup {b[x]} /\ b[x] \notin Img(U)
    BY <1>2, <1>b
  <2>3. SumFunctionOnSet(f, U \cup {x}) = f[x] + SumFunctionOnSet(f, U)
    BY <1>2, <2>1, SumAdd
  <2>4. \A y \in Img(U) \cup {b[x]} : g[y] \in Int
    BY <1>2
  <2> DEFINE I == Img(U)
  <2> HIDE DEF I
  <2>5. SumFunctionOnSet(g, I \cup {b[x]}) = g[b[x]] + SumFunctionOnSet(g, I)
    BY <2>1, <2>2, <2>4, SumAdd DEF I
  <2>6. IsFiniteSet(I \cup {b[x]})
    BY <2>1, FS_AddElement DEF I
  <2>7. SumFunctionOnSet(f, U) = SumFunctionOnSet(g, I)
    BY <1>2 DEF I
  <2> QED
    BY <2>2, <2>3, <2>5, <2>6, <2>7 DEF I
<1> HIDE DEF D
<1>3. S \in D
  BY <1>1, <1>2, SubsetInduction
<1> QED
  BY <1>3, <1>b DEF D

(***************************************************************************)
(* The sum of a sequence that continues f, of m elements, with g, of k.    *)
(***************************************************************************)
LEMMA SumContinued ==
    ASSUME NEW m \in Nat, NEW k \in Nat, NEW f, NEW g, NEW h,
           \A i \in 1..m : f[i] \in Int /\ h[i] = f[i],
           \A i \in 1..k : g[i] \in Int /\ h[m + i] = g[i]
    PROVE  SumFunctionOnSet(h, 1..(m + k)) = SumFunctionOnSet(f, 1..m) + SumFunctionOnSet(g, 1..k)
<1> DEFINE A == 1..m
           B == (m + 1)..(m + k)
           b == [i \in 1..k |-> m + i]
<1>1. 1..(m + k) = A \cup B /\ A \cap B = {} /\ IsFiniteSet(A) /\ IsFiniteSet(B) /\ IsFiniteSet(1..k)
  BY FS_Interval
<1>2. b \in Bijection(1..k, B)
  <2>1. b \in [1..k -> B] /\ \A i, j \in 1..k : b[i] = b[j] => i = j
    OBVIOUS
  <2>2. ASSUME NEW j \in B PROVE \E i \in 1..k : b[i] = j
    <3>1. j - m \in 1..k /\ b[j - m] = j
      OBVIOUS
    <3> QED
      BY <3>1
  <2> HIDE DEF b, B
  <2> QED
    BY <2>1, <2>2 DEF Bijection, Injection, Surjection, IsInjective
<1>3. \A i \in 1..k : g[i] \in Int /\ h[b[i]] = g[i]
  OBVIOUS
<1>4. ASSUME NEW j \in B PROVE h[j] \in Int
  <2>1. j - m \in 1..k /\ m + (j - m) = j
    OBVIOUS
  <2> QED
    BY <2>1
<1>5. \A j \in A \cup B : h[j] \in Int
  BY <1>4
<1> HIDE DEF A, B, b
<1>6. SumFunctionOnSet(h, A \cup B) = SumFunctionOnSet(h, A) + SumFunctionOnSet(h, B)
  BY <1>1, <1>5, SumUnion
<1>7. SumFunctionOnSet(f, A) = SumFunctionOnSet(h, A)
  BY <1>1, SumEqual DEF A
<1> DEFINE K == 1..k
<1>8. SumFunctionOnSet(g, K) = SumFunctionOnSet(h, B)
  <2>1. IsFiniteSet(K) /\ b \in Bijection(K, B) /\ \A i \in K : g[i] \in Int /\ h[b[i]] = g[i]
    BY <1>1, <1>2, <1>3
  <2> HIDE DEF K
  <2> QED
    BY ONLY <2>1, SumRenamed
<1> QED
  BY <1>1, <1>6, <1>7, <1>8 DEF A

(***************************************************************************)
(* Disjoint sets have as many elements together as they have apart.        *)
(***************************************************************************)
LEMMA SumOfSizes ==
    ASSUME NEW S, IsFiniteSet(S), NEW D,
           \A x \in S : IsFiniteSet(D[x]),
           \A x, y \in S : x # y => D[x] \cap D[y] = {},
           NEW f, \A x \in S : f[x] = Cardinality(D[x]),
           NEW W, \A e : e \in W <=> \E x \in S : e \in D[x]
    PROVE  IsFiniteSet(W) /\ SumFunctionOnSet(f, S) = Cardinality(W)
<1> DEFINE All(U) == UNION {D[x] : x \in U}
           T == {U \in SUBSET S : IsFiniteSet(All(U)) /\ SumFunctionOnSet(f, U) = Cardinality(All(U))}
<1>1. {} \in T
  <2>1. All({}) = {}
    OBVIOUS
  <2> QED
    BY <2>1, SumEmpty, FS_EmptySet
<1>2. \A x \in S : f[x] \in Int
  BY FS_CardinalityType
<1>3. ASSUME NEW U \in SUBSET S, NEW x \in S, U \in T, x \notin U PROVE U \cup {x} \in T
  <2>1. IsFiniteSet(U)
    BY FS_Subset
  <2>2. SumFunctionOnSet(f, U \cup {x}) = f[x] + SumFunctionOnSet(f, U)
    BY <1>2, <1>3, <2>1, SumAdd
  <2>3. All(U \cup {x}) = All(U) \cup D[x]
    OBVIOUS
  <2>4. All(U) \cap D[x] = {}
    BY <1>3
  <2>5. SumFunctionOnSet(f, U) = Cardinality(All(U)) /\ IsFiniteSet(All(U)) /\ IsFiniteSet(D[x])
    BY <1>3
  <2> DEFINE A == All(U)
  <2> HIDE DEF A
  <2>6. /\ IsFiniteSet(A \cup D[x])
        /\ Cardinality(A \cup D[x]) = Cardinality(A) + Cardinality(D[x]) - Cardinality(A \cap D[x])
    BY <2>5, FS_Union DEF A
  <2>7. Cardinality(A \cap D[x]) = 0
    BY <2>4, FS_EmptySet DEF A
  <2>8. Cardinality(A) \in Nat /\ Cardinality(D[x]) \in Nat
    BY <2>5, FS_CardinalityType DEF A
  <2>9. f[x] = Cardinality(D[x])
    OBVIOUS
  <2>10. SumFunctionOnSet(f, U \cup {x}) = Cardinality(A \cup D[x])
    BY <2>2, <2>5, <2>6, <2>7, <2>8, <2>9 DEF A
  <2> HIDE DEF All
  <2> QED
    BY <2>3, <2>6, <2>10 DEF A
<1> HIDE DEF T
<1>4. S \in T
  BY <1>1, <1>3, SubsetInduction
<1>5. W = All(S)
  OBVIOUS
<1> QED
  BY <1>4, <1>5 DEF T

-----------------------------------------------------------------------------
(***************************************************************************)
(* Products: that of positive numbers is positive, and each divides it.    *)
(***************************************************************************)
Product(f, S) == FoldFunctionOnSet(LAMBDA a, b : a * b, 1, f, S)

LEMMA ProductFolds ==
    ASSUME NEW f, NEW S
    PROVE  Product(f, S) = (CHOOSE g : Folds(g, TRUE, f, S))[S]
  BY DEF Product, FoldFunctionOnSet, MapThenFoldSet, Folds, First, Unit, Combine

LEMMA ProductEmpty == ASSUME NEW f PROVE Product(f, {}) = 1
<1>1. \E g : Folds(g, TRUE, f, {})
  BY FoldsExists, FS_EmptySet
<1>2. Folds(CHOOSE g : Folds(g, TRUE, f, {}), TRUE, f, {})
  BY <1>1
<1> QED
  BY <1>2, ProductFolds DEF Folds, Unit, Combine

LEMMA ProductFirst ==
    ASSUME NEW f, NEW S, IsFiniteSet(S), S # {}
    PROVE  Product(f, S) = f[First(S)] * Product(f, S \ {First(S)})
<1> DEFINE times == TRUE
           G(V) == CHOOSE g : Folds(g, times, f, V)
           W == S \ {First(S)}
<1>1. IsFiniteSet(W) /\ W \in SUBSET S
  BY FS_Subset
<1>2. Folds(G(S), times, f, S) /\ Folds(G(W), times, f, W)
  BY <1>1, FoldsExists
<1>3. Product(f, S) = G(S)[S] /\ Product(f, W) = G(W)[W]
  BY ProductFolds
<1> HIDE DEF G, times
<1>4. G(S)[W] = G(W)[W]
  BY <1>1, <1>2, FoldsUnique
<1>5. G(S)[S] = f[First(S)] * G(S)[W]
  BY <1>2 DEF Folds, Unit, Combine, times
<1> QED
  BY <1>3, <1>4, <1>5

LEMMA FactorsDivide ==
    ASSUME NEW S, IsFiniteSet(S), NEW f, \A x \in S : f[x] \in Nat \ {0}
    PROVE  /\ Product(f, S) \in Nat \ {0}
           /\ \A x \in S : \E k \in Nat \ {0} : Product(f, S) = f[x] * k
<1> DEFINE Good(U) == /\ Product(f, U) \in Nat \ {0}
                      /\ \A x \in U : \E k \in Nat \ {0} : Product(f, U) = f[x] * k
           Bad == {U \in SUBSET S : ~Good(U)}
<1> SUFFICES ASSUME ~Good(S) PROVE FALSE
  OBVIOUS
<1>1. PICK U \in Bad : \A V \in Bad : V \subseteq U => V = U
  <2>1. Bad \in SUBSET (SUBSET S) /\ Bad # {}
    OBVIOUS
  <2> HIDE DEF Bad
  <2> QED
    BY <2>1, Minimal
<1>2. U \in SUBSET S /\ ~Good(U) /\ IsFiniteSet(U)
  BY <1>1, FS_Subset
<1>3. U # {}
  BY <1>2, ProductEmpty
<1> DEFINE p == First(U)
           W == U \ {p}
<1>4. p \in U
  BY <1>3, FirstOf
<1>5. Good(W)
  BY <1>1, <1>4
<1>6. Product(f, U) = f[p] * Product(f, W)
  BY <1>2, <1>3, ProductFirst
<1> HIDE DEF p
<1>7. f[p] \in Nat \ {0} /\ Product(f, W) \in Nat \ {0}
  BY <1>2, <1>4, <1>5
<1>8. \A m, n \in Nat \ {0} : m * n \in Nat \ {0}
  OBVIOUS
<1>9. ASSUME NEW x \in W PROVE \E k \in Nat \ {0} : Product(f, U) = f[x] * k
  <2>1. PICK k \in Nat \ {0} : Product(f, W) = f[x] * k
    BY <1>5, <1>9
  <2>2. f[x] \in Nat
    BY <1>2
  <2>3. \A a, b, c \in Nat : a * (b * c) = b * (a * c)
    OBVIOUS
  <2>4. Product(f, U) = f[x] * (f[p] * k)
    BY <1>6, <1>7, <2>1, <2>2, <2>3
  <2> QED
    BY <1>7, <1>8, <2>4
<1>10. \A x \in U : x = p \/ x \in W
  OBVIOUS
<1>11. Product(f, U) \in Nat \ {0}
  BY <1>6, <1>7, <1>8
<1> QED
  BY <1>2, <1>6, <1>7, <1>9, <1>10, <1>11
-----------------------------------------------------------------------------
(***************************************************************************)
(* Sums of products: linear in each factor.                                *)
(***************************************************************************)
Dot(f, g, S) == SumFunctionOnSet([x \in S |-> f[x] * g[x]], S)

LEMMA DotInt ==
    ASSUME NEW S, IsFiniteSet(S), NEW f, NEW g, \A x \in S : f[x] \in Int /\ g[x] \in Int
    PROVE  Dot(f, g, S) \in Int
<1> DEFINE h == [x \in S |-> f[x] * g[x]]
<1>1. \A x \in S : h[x] \in Int
  OBVIOUS
<1> HIDE DEF h
<1>2. SumFunctionOnSet(h, S) \in Int
  BY <1>1, SumInt
<1> QED
  BY <1>2 DEF Dot, h

LEMMA DotSymmetric ==
    ASSUME NEW S, IsFiniteSet(S), NEW f, NEW g, \A x \in S : f[x] \in Int /\ g[x] \in Int
    PROVE  Dot(f, g, S) = Dot(g, f, S)
<1>1. \A x \in S : f[x] * g[x] = g[x] * f[x]
  OBVIOUS
<1>2. [x \in S |-> f[x] * g[x]] = [x \in S |-> g[x] * f[x]]
  BY <1>1
<1> QED
  BY <1>2 DEF Dot

LEMMA DotLinear ==
    ASSUME NEW S, IsFiniteSet(S), NEW f, NEW g, NEW h, NEW q, NEW a \in Int, NEW b \in Int,
           \A x \in S : f[x] \in Int /\ g[x] \in Int /\ q[x] \in Int /\ h[x] = a * f[x] + b * g[x]
    PROVE  Dot(h, q, S) = a * Dot(f, q, S) + b * Dot(g, q, S)
<1> DEFINE fq == [x \in S |-> f[x] * q[x]]
           gq == [x \in S |-> g[x] * q[x]]
           hq == [x \in S |-> h[x] * q[x]]
<1>1. ASSUME NEW x \in S PROVE fq[x] \in Int /\ gq[x] \in Int /\ hq[x] = a * fq[x] + b * gq[x]
  <2>1. \A k, m, n \in Int : (a * k + b * m) * n = a * (k * n) + b * (m * n)
    OBVIOUS
  <2> QED
    BY <2>1
<1> HIDE DEF fq, gq, hq
<1>2. SumFunctionOnSet(hq, S) = a * SumFunctionOnSet(fq, S) + b * SumFunctionOnSet(gq, S)
  <2>1. IsFiniteSet(S) /\ a \in Int /\ b \in Int
    OBVIOUS
  <2> QED
    BY ONLY <1>1, <2>1, SumLinear
<1> QED
  BY <1>2 DEF Dot, fq, gq, hq

LEMMA DotOfSquares ==
    ASSUME NEW S, IsFiniteSet(S), NEW f, \A x \in S : f[x] \in Int
    PROVE  /\ Dot(f, f, S) \in Nat
           /\ \A y \in S : f[y] # 0 => Dot(f, f, S) > 0
<1> DEFINE h == [x \in S |-> f[x] * f[x]]
<1>1. \A k \in Int : k * k \in Nat /\ (k # 0 => k * k > 0)
  <2> SUFFICES ASSUME NEW k \in Int PROVE k * k \in Nat /\ (k # 0 => k * k > 0)
    OBVIOUS
  <2>1. CASE k >= 0
    BY <2>1
  <2>2. CASE k < 0
    <3>1. k * k = (-k) * (-k)
      OBVIOUS
    <3>2. -k \in Nat /\ -k > 0
      BY <2>2
    <3> QED
      BY <3>1, <3>2
  <2> QED
    BY <2>1, <2>2
<1>2. \A x \in S : h[x] \in Nat /\ (f[x] # 0 => h[x] > 0)
  BY <1>1
<1> HIDE DEF h
<1>3. SumFunctionOnSet(h, S) \in Nat
  BY <1>2, SumNat
<1>4. \A y \in S : f[y] # 0 => SumFunctionOnSet(h, S) > 0
  BY <1>2, SumPositive
<1> QED
  BY <1>3, <1>4 DEF Dot, h
=============================================================================
