----------------------------- MODULE SumTheorems -----------------------------
(***************************************************************************)
(* Laws of sums over finite sets of rows.  Total is a fold that takes out  *)
(* one row after the other; the laws are proved from a least set that      *)
(* would break them, by the well-foundedness of strict inclusion.          *)
(***************************************************************************)
EXTENDS Sums, FiniteSetTheorems, TLAPS

Pick(s) == CHOOSE x \in s : TRUE

Unfolds(g, D, of) ==
  g = [s \in D |-> IF s = {} THEN 0 ELSE of[Pick(s)] + g[s \ {Pick(s)}]]

Fold(rows, of) == CHOOSE g : Unfolds(g, SUBSET rows, of)

LEMMA TotalIsFold ==
  ASSUME NEW rows, NEW of
  PROVE  Total(rows, of) = Fold(rows, of)[rows]
  BY DEF Total, MapThenSumSet, MapThenFoldSet, Fold, Unfolds, Pick

(* A family of finite sets has a least one.                                *)
LEMMA LeastSet ==
  ASSUME NEW S, IsFiniteSet(S), NEW B, B \subseteq SUBSET S, B # {}
  PROVE  \E T \in B : \A U \in B : U \subseteq T => U = T
  <1>1. B \subseteq FiniteSubsetsOf(S)
    BY FS_Subset DEF FiniteSubsetsOf
  <1>2. PICK T \in B : \A U \in B : ~ (<<U, T>> \in StrictSubsetOrdering(S))
    BY <1>1, FS_StrictSubsetOrderingWellFounded, WFMin
  <1>3. ASSUME NEW U \in B, U \subseteq T, U # T  PROVE FALSE
    <2>1. <<U, T>> \in StrictSubsetOrdering(S)
      BY <1>3 DEF StrictSubsetOrdering
    <2> QED BY <1>2, <1>3, <2>1
  <1> QED BY <1>3

LEMMA Picked ==
  ASSUME NEW s, s # {}
  PROVE  Pick(s) \in s
  BY DEF Pick

(* What a fold gives a set does not depend on the set it was begun for.    *)
LEMMA FoldsAgree ==
  ASSUME NEW S, IsFiniteSet(S), NEW T \in SUBSET S, NEW of, NEW g, NEW h,
         Unfolds(g, SUBSET S, of), Unfolds(h, SUBSET T, of)
  PROVE  g[T] = h[T]
  <1> DEFINE B == {U \in SUBSET T : g[U] # h[U]}
  <1>1. SUFFICES ASSUME B # {} PROVE FALSE
    OBVIOUS
  <1>2. PICK U \in B : \A V \in B : V \subseteq U => V = U
    <2>1. B \subseteq SUBSET T /\ IsFiniteSet(T)
      BY FS_Subset
    <2> HIDE DEF B
    <2> QED BY <1>1, <2>1, LeastSet
  <1>3. CASE U = {}
    BY <1>2, <1>3 DEF Unfolds
  <1>4. CASE U # {}
    <2> DEFINE V == U \ {Pick(U)}
    <2>1. V \subseteq U /\ V # U /\ V \in SUBSET T
      BY <1>2, <1>4, Picked
    <2>2. g[V] = h[V]
      BY <1>2, <2>1
    <2>3. g[U] = of[Pick(U)] + g[V] /\ h[U] = of[Pick(U)] + h[V]
      BY <1>2, <1>4 DEF Unfolds
    <2> QED BY <1>2, <2>2, <2>3
  <1> QED BY <1>3, <1>4

LEMMA FoldExists ==
  ASSUME NEW S, IsFiniteSet(S), NEW of
  PROVE  Unfolds(Fold(S, of), SUBSET S, of)
  <1> DEFINE B == {U \in SUBSET S : ~ Unfolds(Fold(U, of), SUBSET U, of)}
  <1>1. SUFFICES ASSUME B # {} PROVE FALSE
    OBVIOUS
  <1>2. PICK T \in B : \A V \in B : V \subseteq T => V = T
    <2>1. B \subseteq SUBSET S
      OBVIOUS
    <2> HIDE DEF B
    <2> QED BY <1>1, <2>1, LeastSet
  <1>3. ASSUME NEW U \in SUBSET T, U # T  PROVE Unfolds(Fold(U, of), SUBSET U, of)
    BY <1>2, <1>3
  <1> DEFINE of2(s) == IF s = {} THEN 0 ELSE of[Pick(s)] + Total(s \ {Pick(s)}, of)
             g == [s \in SUBSET T |-> of2(s)]
  <1>4. ASSUME NEW U \in SUBSET T, U # T  PROVE Total(U, of) = of2(U)
    <2>1. CASE U = {}
      BY <1>3, <1>4, <2>1, TotalIsFold DEF Unfolds
    <2>2. CASE U # {}
      <3> DEFINE V == U \ {Pick(U)}
      <3>1. V \in SUBSET U /\ V \in SUBSET T /\ V # T /\ IsFiniteSet(U)
        BY <1>2, <1>4, FS_Subset
      <3>2. Fold(U, of)[U] = of[Pick(U)] + Fold(U, of)[V]
        BY <1>3, <1>4, <2>2 DEF Unfolds
      <3>3. Fold(U, of)[V] = Fold(V, of)[V]
        <4>1. Unfolds(Fold(U, of), SUBSET U, of) /\ Unfolds(Fold(V, of), SUBSET V, of)
          BY <1>3, <1>4, <3>1
        <4> HIDE DEF V
        <4> QED BY <3>1, <4>1, FoldsAgree
      <3> QED BY <2>2, <3>2, <3>3, TotalIsFold
    <2> QED BY <2>1, <2>2
  <1>5. ASSUME NEW s \in SUBSET T, s # {}  PROVE g[s] = of[Pick(s)] + g[s \ {Pick(s)}]
    <2>1. s \ {Pick(s)} \in SUBSET T /\ s \ {Pick(s)} # T
      BY <1>5, Picked
    <2>2. Total(s \ {Pick(s)}, of) = of2(s \ {Pick(s)})
      BY <1>4, <2>1
    <2> HIDE DEF of2
    <2>3. g[s \ {Pick(s)}] = of2(s \ {Pick(s)}) /\ g[s] = of2(s)
      BY <2>1
    <2> QED BY <1>5, <2>2, <2>3 DEF of2
  <1>6. Unfolds(g, SUBSET T, of)
    BY <1>5 DEF Unfolds
  <1>7. Unfolds(Fold(T, of), SUBSET T, of)
    <2> HIDE DEF g
    <2> QED BY <1>6 DEF Fold
  <1> QED BY <1>2, <1>7

LEMMA TotalOfNothing ==
  ASSUME NEW of
  PROVE  Total({}, of) = 0
  <1>1. Unfolds(Fold({}, of), SUBSET {}, of)
    BY FoldExists, FS_EmptySet
  <1>2. Fold({}, of)[{}] = 0
    BY <1>1 DEF Unfolds
  <1> QED BY <1>2, TotalIsFold

LEMMA TotalPicked ==
  ASSUME NEW S, IsFiniteSet(S), S # {}, NEW of
  PROVE  Total(S, of) = of[Pick(S)] + Total(S \ {Pick(S)}, of)
  <1> DEFINE T == S \ {Pick(S)}
  <1>1. Fold(S, of)[S] = of[Pick(S)] + Fold(S, of)[T]
    <2>1. Unfolds(Fold(S, of), SUBSET S, of)
      BY FoldExists
    <2> QED BY <2>1 DEF Unfolds
  <1>2. IsFiniteSet(T) /\ T \in SUBSET S
    BY FS_Subset
  <1>3. Fold(S, of)[T] = Fold(T, of)[T]
    <2>1. Unfolds(Fold(S, of), SUBSET S, of) /\ Unfolds(Fold(T, of), SUBSET T, of)
      BY <1>2, FoldExists
    <2> QED BY <1>2, <2>1, FoldsAgree
  <1> QED BY <1>1, <1>3, TotalIsFold

LEMMA TotalType ==
  ASSUME NEW S, IsFiniteSet(S), NEW of, \A a \in S : of[a] \in Int
  PROVE  Total(S, of) \in Int
  <1> DEFINE B == {U \in SUBSET S : Total(U, of) \notin Int}
  <1>1. SUFFICES ASSUME B # {} PROVE FALSE
    OBVIOUS
  <1>2. PICK U \in B : \A V \in B : V \subseteq U => V = U
    <2>1. B \subseteq SUBSET S
      OBVIOUS
    <2> HIDE DEF B
    <2> QED BY <1>1, <2>1, LeastSet
  <1>3. CASE U = {}
    BY <1>2, <1>3, TotalOfNothing
  <1>4. CASE U # {}
    <2> DEFINE V == U \ {Pick(U)}
    <2>1. Pick(U) \in U /\ V \in SUBSET S /\ V # U /\ V \subseteq U
      BY <1>4, Picked
    <2>2. IsFiniteSet(U)
      BY FS_Subset
    <2>3. Total(V, of) \in Int /\ of[Pick(U)] \in Int
      BY <1>2, <2>1
    <2>4. Total(U, of) = of[Pick(U)] + Total(V, of)
      BY <1>4, <2>2, TotalPicked
    <2> QED BY <1>2, <2>3, <2>4
  <1> QED BY <1>3, <1>4

(* Summands may be taken in any order.                                     *)
LEMMA TotalSplit ==
  ASSUME NEW S, IsFiniteSet(S), NEW of, \A a \in S : of[a] \in Int, NEW x \in S
  PROVE  Total(S, of) = of[x] + Total(S \ {x}, of)
  <1> DEFINE B == {U \in SUBSET S : \E y \in U : Total(U, of) # of[y] + Total(U \ {y}, of)}
  <1>1. SUFFICES ASSUME B # {} PROVE FALSE
    OBVIOUS
  <1>2. PICK U \in B : \A V \in B : V \subseteq U => V = U
    <2>1. B \subseteq SUBSET S
      OBVIOUS
    <2> HIDE DEF B
    <2> QED BY <1>1, <2>1, LeastSet
  <1>3. PICK y \in U : Total(U, of) # of[y] + Total(U \ {y}, of)
    BY <1>2
  <1> DEFINE p == Pick(U)
  <1>4. p \in U /\ IsFiniteSet(U) /\ IsFiniteSet(U \ {p}) /\ IsFiniteSet((U \ {p}) \ {y})
    BY <1>3, Picked, FS_Subset, FS_RemoveElement
  <1>5. Total(U, of) = of[p] + Total(U \ {p}, of)
    BY <1>3, <1>4, TotalPicked
  <1>6. p # y
    BY <1>3, <1>5
  <1>7. Total(U \ {p}, of) = of[y] + Total((U \ {p}) \ {y}, of)
    BY <1>2, <1>4, <1>6, U \ {p} \subseteq U, U \ {p} # U
  <1>8. Total(U \ {y}, of) = of[p] + Total((U \ {y}) \ {p}, of)
    BY <1>2, <1>4, <1>6, U \ {y} \subseteq U, U \ {y} # U
  <1>9. Total((U \ {p}) \ {y}, of) = Total((U \ {y}) \ {p}, of)
    <2>1. (U \ {p}) \ {y} = (U \ {y}) \ {p}
      OBVIOUS
    <2> QED BY <2>1
  <1>10. of[p] \in Int /\ of[y] \in Int /\ Total((U \ {p}) \ {y}, of) \in Int
    BY <1>4, TotalType
  <1> HIDE DEF p, B
  <1>11. Total(U, of) = of[y] + Total(U \ {y}, of)
    BY <1>5, <1>7, <1>8, <1>9, <1>10
  <1> QED BY <1>3, <1>11

(* Rows that agree have the same total.                                    *)
LEMMA TotalSame ==
  ASSUME NEW S, IsFiniteSet(S), NEW f, NEW g, \A a \in S : f[a] = g[a]
  PROVE  Total(S, f) = Total(S, g)
  <1> DEFINE B == {U \in SUBSET S : Total(U, f) # Total(U, g)}
  <1>1. SUFFICES ASSUME B # {} PROVE FALSE
    OBVIOUS
  <1>2. PICK U \in B : \A V \in B : V \subseteq U => V = U
    <2>1. B \subseteq SUBSET S
      OBVIOUS
    <2> HIDE DEF B
    <2> QED BY <1>1, <2>1, LeastSet
  <1>3. CASE U = {}
    BY <1>2, <1>3, TotalOfNothing
  <1>4. CASE U # {}
    <2> DEFINE V == U \ {Pick(U)}
    <2>1. Pick(U) \in U /\ V \in SUBSET S /\ V # U /\ V \subseteq U /\ IsFiniteSet(U)
      BY <1>4, Picked, FS_Subset
    <2>2. Total(V, f) = Total(V, g) /\ f[Pick(U)] = g[Pick(U)]
      BY <1>2, <2>1
    <2>3. Total(U, f) = f[Pick(U)] + Total(V, f) /\ Total(U, g) = g[Pick(U)] + Total(V, g)
      BY <1>4, <2>1, TotalPicked
    <2> QED BY <1>2, <2>2, <2>3
  <1> QED BY <1>3, <1>4

(* One row changes.                                                        *)
LEMMA TotalChanged ==
  ASSUME NEW S, IsFiniteSet(S), NEW f, NEW g, NEW x \in S,
         \A a \in S : f[a] \in Int /\ g[a] \in Int,
         \A a \in S \ {x} : f[a] = g[a]
  PROVE  Total(S, g) = Total(S, f) + (g[x] - f[x])
  <1>1. IsFiniteSet(S \ {x})
    BY FS_Subset
  <1>2. Total(S \ {x}, f) = Total(S \ {x}, g) /\ Total(S \ {x}, f) \in Int
    BY <1>1, TotalSame, TotalType
  <1>3. Total(S, f) = f[x] + Total(S \ {x}, f) /\ Total(S, g) = g[x] + Total(S \ {x}, g)
    BY TotalSplit
  <1> QED BY <1>2, <1>3

LEMMA TotalNat ==
  ASSUME NEW S, IsFiniteSet(S), NEW of, \A a \in S : of[a] \in Nat
  PROVE  Total(S, of) \in Nat
  <1> DEFINE B == {U \in SUBSET S : Total(U, of) \notin Nat}
  <1>1. SUFFICES ASSUME B # {} PROVE FALSE
    OBVIOUS
  <1>2. PICK U \in B : \A V \in B : V \subseteq U => V = U
    <2>1. B \subseteq SUBSET S
      OBVIOUS
    <2> HIDE DEF B
    <2> QED BY <1>1, <2>1, LeastSet
  <1>3. CASE U = {}
    BY <1>2, <1>3, TotalOfNothing
  <1>4. CASE U # {}
    <2> DEFINE V == U \ {Pick(U)}
    <2>1. Pick(U) \in U /\ V \in SUBSET S /\ V # U /\ V \subseteq U
      BY <1>4, Picked
    <2>2. IsFiniteSet(U)
      BY FS_Subset
    <2>3. Total(V, of) \in Nat /\ of[Pick(U)] \in Nat
      BY <1>2, <2>1
    <2>4. Total(U, of) = of[Pick(U)] + Total(V, of)
      BY <1>4, <2>2, TotalPicked
    <2> QED BY <1>2, <2>3, <2>4
  <1> QED BY <1>3, <1>4

(* No summand exceeds a sum of natural numbers.                            *)
LEMMA TotalCovers ==
  ASSUME NEW S, IsFiniteSet(S), NEW of, \A a \in S : of[a] \in Nat, NEW x \in S
  PROVE  of[x] <= Total(S, of)
  <1>1. Total(S, of) = of[x] + Total(S \ {x}, of)
    BY TotalSplit
  <1>2. IsFiniteSet(S \ {x})
    BY FS_RemoveElement
  <1>3. Total(S \ {x}, of) \in Nat
    BY <1>2, TotalNat
  <1> QED BY <1>1, <1>3

(* Rows that are left out count as zeros.                                  *)
LEMMA TotalFiltered ==
  ASSUME NEW S, IsFiniteSet(S), NEW T \in SUBSET S, NEW f, NEW g,
         \A a \in S : g[a] \in Int,
         \A a \in T : f[a] = g[a], \A a \in S \ T : g[a] = 0
  PROVE  Total(T, f) = Total(S, g)
  <1> DEFINE B == {U \in SUBSET S : Total(U \cap T, f) # Total(U, g)}
  <1>1. SUFFICES ASSUME B # {} PROVE FALSE
    <2>1. S \cap T = T /\ S \notin B
      OBVIOUS
    <2>2. Total(S \cap T, f) = Total(S, g)
      BY <2>1
    <2> QED BY <2>1, <2>2
  <1>2. PICK U \in B : \A V \in B : V \subseteq U => V = U
    <2>1. B \subseteq SUBSET S
      OBVIOUS
    <2> HIDE DEF B
    <2> QED BY <1>1, <2>1, LeastSet
  <1>3. CASE U = {}
    <2>1. U \cap T = {}
      BY <1>3
    <2>2. Total(U \cap T, f) = 0 /\ Total(U, g) = 0
      BY <1>3, <2>1, TotalOfNothing
    <2> QED BY <1>2, <2>2
  <1>4. CASE U # {}
    <2> DEFINE p == Pick(U)
    <2> DEFINE V == U \ {p}
    <2>1. p \in U /\ V \in SUBSET S /\ V # U /\ V \subseteq U
          /\ IsFiniteSet(U) /\ IsFiniteSet(V) /\ IsFiniteSet(U \cap T)
      BY <1>4, Picked, FS_Subset
    <2>2. Total(V \cap T, f) = Total(V, g)
      BY <1>2, <2>1
    <2>3. Total(U, g) = g[p] + Total(V, g)
      BY <1>4, <2>1, TotalPicked
    <2>4. Total(V, g) \in Int
      BY <2>1, TotalType
    <2>5. CASE p \in T
      <3>1. p \in U \cap T /\ (U \cap T) \ {p} = V \cap T
        BY <2>1, <2>5
      <3>2. \A a \in U \cap T : f[a] \in Int
        OBVIOUS
      <3>3. Total(U \cap T, f) = f[p] + Total((U \cap T) \ {p}, f)
        <4> HIDE DEF p
        <4> QED BY <2>1, <3>1, <3>2, TotalSplit
      <3>4. f[p] = g[p]
        BY <2>5
      <3> QED BY <1>2, <2>2, <2>3, <3>1, <3>3, <3>4
    <2>6. CASE p \notin T
      <3>1. U \cap T = V \cap T /\ g[p] = 0
        BY <2>1, <2>6
      <3>2. Total(U \cap T, f) = Total(V \cap T, f)
        BY <3>1
      <3>3. Total(U, g) = Total(V, g)
        BY <2>3, <2>4, <3>1
      <3> QED BY <1>2, <2>2, <3>2, <3>3
    <2> QED BY <2>5, <2>6
  <1> QED BY <1>3, <1>4

(* A row is added.                                                         *)
LEMMA TotalExtended ==
  ASSUME NEW S, IsFiniteSet(S), NEW n, n \notin S, NEW f, NEW g,
         \A a \in S : f[a] \in Int /\ g[a] = f[a], g[n] \in Int
  PROVE  Total(S \cup {n}, g) = Total(S, f) + g[n]
  <1> DEFINE T == S \cup {n}
  <1>1. IsFiniteSet(T) /\ n \in T /\ T \ {n} = S
    BY FS_AddElement
  <1>2. \A a \in T : g[a] \in Int
    OBVIOUS
  <1> HIDE DEF T
  <1>3. Total(T, g) = g[n] + Total(S, g)
    BY <1>1, <1>2, TotalSplit
  <1>4. Total(S, g) = Total(S, f) /\ Total(S, f) \in Int
    BY TotalSame, TotalType
  <1> QED BY <1>3, <1>4 DEF T
=============================================================================
