---------------------------- MODULE SumTheorems ----------------------------
(***************************************************************************)
(* Sums over finite sets.  The induction is by a minimal counterexample: a *)
(* nonempty set of subsets of a finite set has a minimal one.              *)
(***************************************************************************)
EXTENDS FiniteSetsExt, FiniteSetTheorems, TLAPS

LEMMA MinimalSubset ==
  ASSUME NEW S, IsFiniteSet(S), NEW T, T \subseteq SUBSET S, T # {}
  PROVE  \E x \in T : \A y \in T : y \subseteq x => y = x
<1>1. IsWellFoundedOn(StrictSubsetOrdering(S), SUBSET S)
  BY FS_StrictSubsetOrderingWellFounded, FS_FiniteSubsetsOfFinite
<1>2. PICK x \in T : \A y \in T : <<y, x>> \notin StrictSubsetOrdering(S)
  BY <1>1, WFMin
<1>3. \A y \in T : y \subseteq x => y = x
  BY <1>2 DEF StrictSubsetOrdering
<1> QED
  BY <1>3

-----------------------------------------------------------------------------
(* The function a sum iterates exists, and is one *)

Chosen(s) == CHOOSE x \in s : TRUE
SumStep(f, g, s) == IF s = {} THEN 0 ELSE f[Chosen(s)] + g[s \ {Chosen(s)}]
IsIter(f, S, g) == g = [s \in SUBSET S |-> SumStep(f, g, s)]

LEMMA ChosenIsIn == \A s : s # {} => Chosen(s) \in s
BY DEF Chosen

LEMMA IterAt ==
  ASSUME NEW f, NEW S, NEW g, IsIter(f, S, g), NEW s \in SUBSET S
  PROVE  g[s] = SumStep(f, g, s)
<1> DEFINE F == [t \in SUBSET S |-> SumStep(f, g, t)]
<1>1. g = F
  BY DEF IsIter
<1>2. F[s] = SumStep(f, g, s)
  OBVIOUS
<1> HIDE DEF F
<1> QED
  BY <1>1, <1>2

LEMMA IterAgree ==
  ASSUME NEW f, NEW U, NEW V, NEW g, NEW h, IsFiniteSet(U), IsIter(f, U, g), IsIter(f, V, h),
         NEW W, W \subseteq U, W \subseteq V
  PROVE  g[W] = h[W]
<1> DEFINE T == {w \in SUBSET U : w \subseteq V /\ g[w] # h[w]}
<1> SUFFICES ASSUME T # {}
             PROVE  FALSE
  OBVIOUS
<1>1. T \subseteq SUBSET U
  OBVIOUS
<1> HIDE DEF T
<1>2. PICK w \in T : \A y \in T : y \subseteq w => y = w
  BY <1>1, MinimalSubset
<1> USE DEF T
<1>3. w \subseteq U /\ w \subseteq V /\ g[w] # h[w]
  OBVIOUS
<1>4. g[w] = SumStep(f, g, w) /\ h[w] = SumStep(f, h, w)
  BY <1>3, IterAt
<1>5. w # {}
  BY <1>3, <1>4 DEF SumStep
<1>6. w \ {Chosen(w)} \notin T
  BY <1>2, <1>5, ChosenIsIn
<1>7. g[w \ {Chosen(w)}] = h[w \ {Chosen(w)}]
  BY <1>3, <1>6
<1> QED
  BY <1>3, <1>4, <1>5, <1>7 DEF SumStep

LEMMA IterExists ==
  ASSUME NEW f, NEW S, IsFiniteSet(S)
  PROVE  \E g : IsIter(f, S, g)
<1> DEFINE T == {U \in SUBSET S : ~ \E g : IsIter(f, U, g)}
<1> SUFFICES ASSUME T # {}
             PROVE  FALSE
  OBVIOUS
<1>0. T \subseteq SUBSET S
  OBVIOUS
<1> HIDE DEF T
<1>1. PICK U \in T : \A y \in T : y \subseteq U => y = U
  BY <1>0, MinimalSubset
<1> USE DEF T
<1>2. U \subseteq S /\ \A g : ~IsIter(f, U, g)
  OBVIOUS
<1> DEFINE sub(V) == CHOOSE g : IsIter(f, V, g)
<1>3. \A V : V \subseteq U /\ V # U => IsIter(f, V, sub(V))
  BY <1>1, <1>2
<1> DEFINE h == [s \in SUBSET U |-> IF s = {} THEN 0
                                    ELSE f[Chosen(s)] + sub(s \ {Chosen(s)})[s \ {Chosen(s)}]]
<1> HIDE DEF sub, T
<1>4. \A V : V \subseteq U /\ V # U => h[V] = sub(V)[V]
  <2> SUFFICES ASSUME NEW V, V \subseteq U, V # U
               PROVE  h[V] = sub(V)[V]
    OBVIOUS
  <2>1. sub(V)[V] = SumStep(f, sub(V), V)
    BY <1>3, IterAt
  <2>2. CASE V = {}
    BY <2>1, <2>2 DEF SumStep
  <2>3. CASE V # {}
    <3> DEFINE W == V \ {Chosen(V)}
    <3>1. W \subseteq V /\ W \subseteq U /\ W # U /\ IsFiniteSet(V)
      BY <1>2, <2>3, ChosenIsIn, FS_Subset
    <3>2. sub(V)[W] = sub(W)[W]
      BY <1>3, <3>1, IterAgree
    <3>3. h[V] = f[Chosen(V)] + sub(W)[W]
      BY <2>3
    <3> QED
      BY <2>1, <2>3, <3>2, <3>3 DEF SumStep
  <2> QED
    BY <2>2, <2>3
<1>5. \A s \in SUBSET U : h[s] = SumStep(f, h, s)
  <2> SUFFICES ASSUME NEW s \in SUBSET U, s # {}
               PROVE  h[s] = SumStep(f, h, s)
    BY DEF SumStep
  <2>1. s \ {Chosen(s)} \subseteq U /\ s \ {Chosen(s)} # U
    BY ChosenIsIn
  <2>2. h[s \ {Chosen(s)}] = sub(s \ {Chosen(s)})[s \ {Chosen(s)}]
    BY <1>4, <2>1
  <2>3. h[s] = f[Chosen(s)] + sub(s \ {Chosen(s)})[s \ {Chosen(s)}]
    OBVIOUS
  <2> HIDE DEF h
  <2> QED
    BY <2>2, <2>3 DEF SumStep
<1>6. h = [s \in SUBSET U |-> h[s]]
  OBVIOUS
<1> HIDE DEF h
<1>7. h = [s \in SUBSET U |-> SumStep(f, h, s)]
  BY <1>5, <1>6
<1> QED
  BY <1>2, <1>7 DEF IsIter

LEMMA SumIsIter ==
  ASSUME NEW f, NEW S, IsFiniteSet(S)
  PROVE  \E g : IsIter(f, S, g) /\ SumFunctionOnSet(f, S) = g[S]
<1> DEFINE g == CHOOSE iter : IsIter(f, S, iter)
<1>1. SumFunctionOnSet(f, S) = g[S]
  BY DEF SumFunctionOnSet, FoldFunctionOnSet, MapThenFoldSet, IsIter, SumStep, Chosen
<1>2. IsIter(f, S, g)
  BY IterExists
<1> QED
  BY <1>1, <1>2

-----------------------------------------------------------------------------
(* Sums, whatever the order *)

LEMMA SumEmpty ==
  ASSUME NEW f
  PROVE  SumFunctionOnSet(f, {}) = 0
<1>1. PICK g : IsIter(f, {}, g) /\ SumFunctionOnSet(f, {}) = g[{}]
  BY SumIsIter, FS_EmptySet
<1> QED
  BY <1>1, IterAt DEF SumStep

LEMMA SumUnfold ==
  ASSUME NEW f, NEW S, IsFiniteSet(S), S # {}
  PROVE  SumFunctionOnSet(f, S) = f[Chosen(S)] + SumFunctionOnSet(f, S \ {Chosen(S)})
<1> DEFINE W == S \ {Chosen(S)}
<1>1. IsFiniteSet(W)
  BY FS_Subset
<1>2. PICK g : IsIter(f, S, g) /\ SumFunctionOnSet(f, S) = g[S]
  BY SumIsIter
<1>3. PICK h : IsIter(f, W, h) /\ SumFunctionOnSet(f, W) = h[W]
  BY <1>1, SumIsIter
<1>4. g[W] = h[W]
  BY <1>2, <1>3, IterAgree
<1>5. g[S] = SumStep(f, g, S)
  BY <1>2, IterAt
<1> QED
  BY <1>2, <1>3, <1>4, <1>5 DEF SumStep

LEMMA SumType ==
  ASSUME NEW S, IsFiniteSet(S), NEW f, \A x \in S : f[x] \in Int
  PROVE  SumFunctionOnSet(f, S) \in Int
<1> DEFINE T == {U \in SUBSET S : SumFunctionOnSet(f, U) \notin Int}
<1> SUFFICES ASSUME T # {}
             PROVE  FALSE
  OBVIOUS
<1>0. T \subseteq SUBSET S
  OBVIOUS
<1> HIDE DEF T
<1>1. PICK U \in T : \A y \in T : y \subseteq U => y = U
  BY <1>0, MinimalSubset
<1> USE DEF T
<1>2. U \subseteq S /\ IsFiniteSet(U) /\ SumFunctionOnSet(f, U) \notin Int
  BY FS_Subset
<1>3. U # {}
  BY <1>2, SumEmpty
<1>4. U \ {Chosen(U)} \notin T
  BY <1>1, <1>3, ChosenIsIn
<1>5. SumFunctionOnSet(f, U \ {Chosen(U)}) \in Int /\ f[Chosen(U)] \in Int
  BY <1>2, <1>3, <1>4, ChosenIsIn
<1>6. SumFunctionOnSet(f, U) = f[Chosen(U)] + SumFunctionOnSet(f, U \ {Chosen(U)})
  BY <1>2, <1>3, SumUnfold
<1> QED
  BY <1>2, <1>5, <1>6

LEMMA SumZero ==
  ASSUME NEW S, IsFiniteSet(S), NEW f, \A x \in S : f[x] = 0
  PROVE  SumFunctionOnSet(f, S) = 0
<1> DEFINE T == {U \in SUBSET S : SumFunctionOnSet(f, U) # 0}
<1> SUFFICES ASSUME T # {}
             PROVE  FALSE
  OBVIOUS
<1>0. T \subseteq SUBSET S
  OBVIOUS
<1> HIDE DEF T
<1>1. PICK U \in T : \A y \in T : y \subseteq U => y = U
  BY <1>0, MinimalSubset
<1> USE DEF T
<1>2. U \subseteq S /\ IsFiniteSet(U) /\ SumFunctionOnSet(f, U) # 0
  BY FS_Subset
<1>3. U # {}
  BY <1>2, SumEmpty
<1>4. U \ {Chosen(U)} \notin T
  BY <1>1, <1>3, ChosenIsIn
<1>5. SumFunctionOnSet(f, U \ {Chosen(U)}) = 0 /\ f[Chosen(U)] = 0
  BY <1>2, <1>3, <1>4, ChosenIsIn
<1> QED
  BY <1>2, <1>3, <1>5, SumUnfold

\* Any element may be the first.
THEOREM SumRemove ==
  ASSUME NEW S, IsFiniteSet(S), NEW f, \A x \in S : f[x] \in Int, NEW x \in S
  PROVE  SumFunctionOnSet(f, S) = f[x] + SumFunctionOnSet(f, S \ {x})
<1> DEFINE Sum(U) == SumFunctionOnSet(f, U)
<1> DEFINE T == {U \in SUBSET S : \E y \in U : Sum(U) # f[y] + Sum(U \ {y})}
<1> SUFFICES ASSUME T # {}
             PROVE  FALSE
  OBVIOUS
<1>0. T \subseteq SUBSET S
  OBVIOUS
<1> HIDE DEF T
<1>1. PICK U \in T : \A y \in T : y \subseteq U => y = U
  BY <1>0, MinimalSubset
<1> USE DEF T
<1>2. PICK y \in U : Sum(U) # f[y] + Sum(U \ {y})
  OBVIOUS
<1> DEFINE z == Chosen(U)
<1>3. U \subseteq S /\ IsFiniteSet(U) /\ z \in U
  BY <1>2, FS_Subset, ChosenIsIn
<1>4. Sum(U) = f[z] + Sum(U \ {z})
  BY <1>2, <1>3, SumUnfold
<1>5. z # y
  BY <1>2, <1>4
<1>6. U \ {z} \notin T /\ U \ {y} \notin T
  BY <1>1, <1>3
<1>7. Sum(U \ {z}) = f[y] + Sum((U \ {z}) \ {y})
  BY <1>2, <1>3, <1>5, <1>6
<1>8. Sum(U \ {y}) = f[z] + Sum((U \ {y}) \ {z})
  BY <1>2, <1>3, <1>5, <1>6
<1>9. (U \ {z}) \ {y} = (U \ {y}) \ {z}
  OBVIOUS
<1>10. f[y] \in Int /\ f[z] \in Int /\ Sum((U \ {z}) \ {y}) \in Int
  <2>1. (U \ {z}) \ {y} \subseteq S /\ IsFiniteSet((U \ {z}) \ {y})
    BY <1>3, FS_Subset
  <2> QED
    BY <1>2, <1>3, <2>1, SumType
<1> HIDE DEF Sum, z, T
<1>11. Sum(U) = f[z] + (f[y] + Sum((U \ {z}) \ {y})) /\ Sum(U \ {y}) = f[z] + Sum((U \ {z}) \ {y})
  BY <1>4, <1>7, <1>8, <1>9
<1> QED
  BY <1>2, <1>10, <1>11

\* One summand more.
THEOREM SumAdd ==
  ASSUME NEW S, IsFiniteSet(S), NEW f, NEW x, x \notin S, \A y \in S \cup {x} : f[y] \in Int
  PROVE  SumFunctionOnSet(f, S \cup {x}) = f[x] + SumFunctionOnSet(f, S)
<1>1. IsFiniteSet(S \cup {x}) /\ (S \cup {x}) \ {x} = S
  BY FS_AddElement
<1> QED
  BY <1>1, SumRemove

\* Equal summands.
THEOREM SumSame ==
  ASSUME NEW S, IsFiniteSet(S), NEW f, NEW g, \A y \in S : f[y] = g[y]
  PROVE  SumFunctionOnSet(f, S) = SumFunctionOnSet(g, S)
<1> DEFINE T == {U \in SUBSET S : SumFunctionOnSet(f, U) # SumFunctionOnSet(g, U)}
<1> SUFFICES ASSUME T # {}
             PROVE  FALSE
  OBVIOUS
<1>0. T \subseteq SUBSET S
  OBVIOUS
<1> HIDE DEF T
<1>1. PICK U \in T : \A y \in T : y \subseteq U => y = U
  BY <1>0, MinimalSubset
<1> USE DEF T
<1>2. U \subseteq S /\ IsFiniteSet(U) /\ SumFunctionOnSet(f, U) # SumFunctionOnSet(g, U)
  BY FS_Subset
<1>3. U # {}
  BY <1>2, SumEmpty
<1>4. Chosen(U) \in U
  BY <1>3, ChosenIsIn
<1>5. SumFunctionOnSet(f, U \ {Chosen(U)}) = SumFunctionOnSet(g, U \ {Chosen(U)})
  BY <1>1, <1>2, <1>4
<1>6. f[Chosen(U)] = g[Chosen(U)]
  BY <1>2, <1>4
<1> QED
  BY <1>2, <1>3, <1>5, <1>6, SumUnfold

\* One summand changes.
THEOREM SumChange ==
  ASSUME NEW S, IsFiniteSet(S), NEW f, NEW g, NEW x \in S,
         \A y \in S : f[y] \in Int, g[x] \in Int, \A y \in S \ {x} : g[y] = f[y]
  PROVE  SumFunctionOnSet(g, S) = SumFunctionOnSet(f, S) - f[x] + g[x]
<1>1. SumFunctionOnSet(f, S) = f[x] + SumFunctionOnSet(f, S \ {x})
  BY SumRemove
<1>2. SumFunctionOnSet(g, S) = g[x] + SumFunctionOnSet(g, S \ {x})
  BY SumRemove
<1>3. IsFiniteSet(S \ {x})
  BY FS_RemoveElement
<1>4. SumFunctionOnSet(g, S \ {x}) = SumFunctionOnSet(f, S \ {x})
  BY <1>3, SumSame
<1>5. SumFunctionOnSet(f, S \ {x}) \in Int
  BY <1>3, SumType
<1> QED
  BY <1>1, <1>2, <1>4, <1>5

\* Summands that are not above others.
THEOREM SumLess ==
  ASSUME NEW S, IsFiniteSet(S), NEW f, NEW g,
         \A y \in S : f[y] \in Int /\ g[y] \in Int /\ f[y] <= g[y]
  PROVE  /\ SumFunctionOnSet(f, S) \in Int /\ SumFunctionOnSet(g, S) \in Int
         /\ SumFunctionOnSet(f, S) <= SumFunctionOnSet(g, S)
<1> DEFINE T == {U \in SUBSET S : ~(SumFunctionOnSet(f, U) <= SumFunctionOnSet(g, U))}
<1>0. SumFunctionOnSet(f, S) \in Int /\ SumFunctionOnSet(g, S) \in Int
  BY SumType
<1> SUFFICES ASSUME T # {}
             PROVE  FALSE
  BY <1>0
<1>1. T \subseteq SUBSET S
  OBVIOUS
<1> HIDE DEF T
<1>2. PICK U \in T : \A y \in T : y \subseteq U => y = U
  BY <1>1, MinimalSubset
<1> USE DEF T
<1>3. U \subseteq S /\ IsFiniteSet(U) /\ ~(SumFunctionOnSet(f, U) <= SumFunctionOnSet(g, U))
  BY FS_Subset
<1>4. U # {}
  <2>1. SumFunctionOnSet(f, {}) = 0 /\ SumFunctionOnSet(g, {}) = 0
    BY SumEmpty
  <2> QED
    BY <1>3, <2>1
<1>5. Chosen(U) \in U
  BY <1>4, ChosenIsIn
<1> DEFINE W == U \ {Chosen(U)}
<1>6. SumFunctionOnSet(f, W) <= SumFunctionOnSet(g, W)
  BY <1>2, <1>3, <1>5
<1>7. SumFunctionOnSet(f, W) \in Int /\ SumFunctionOnSet(g, W) \in Int
  <2>1. W \subseteq S /\ IsFiniteSet(W)
    BY <1>3, FS_Subset
  <2> HIDE DEF W
  <2> QED
    BY <2>1, SumType
<1>8. /\ SumFunctionOnSet(f, U) = f[Chosen(U)] + SumFunctionOnSet(f, W)
      /\ SumFunctionOnSet(g, U) = g[Chosen(U)] + SumFunctionOnSet(g, W)
  BY <1>3, <1>4, SumUnfold
<1> HIDE DEF T, W
<1> QED
  BY <1>3, <1>5, <1>6, <1>7, <1>8

\* No summand is below zero: neither is the sum, and no summand is above it.
THEOREM SumNat ==
  ASSUME NEW S, IsFiniteSet(S), NEW f, \A y \in S : f[y] \in Nat
  PROVE  /\ SumFunctionOnSet(f, S) \in Nat
         /\ \A x \in S : f[x] <= SumFunctionOnSet(f, S)
<1> DEFINE T == {U \in SUBSET S : SumFunctionOnSet(f, U) \notin Nat}
<1>0. T \subseteq SUBSET S /\ \A U : U \in T <=> U \subseteq S /\ SumFunctionOnSet(f, U) \notin Nat
  OBVIOUS
<1> HIDE DEF T
<1>1. T = {}
  <2> SUFFICES ASSUME T # {}
               PROVE  FALSE
    OBVIOUS
  <2>1. PICK U \in T : \A y \in T : y \subseteq U => y = U
    BY <1>0, MinimalSubset
  <2>2. U \subseteq S /\ IsFiniteSet(U) /\ SumFunctionOnSet(f, U) \notin Nat
    BY <1>0, FS_Subset
  <2>3. U # {}
    BY <2>2, SumEmpty
  <2>4. Chosen(U) \in U
    BY <2>3, ChosenIsIn
  <2>5. SumFunctionOnSet(f, U \ {Chosen(U)}) \in Nat
    BY <1>0, <2>1, <2>2, <2>4
  <2> QED
    BY <2>2, <2>3, <2>4, <2>5, SumUnfold
<1>2. SumFunctionOnSet(f, S) \in Nat
  BY <1>0, <1>1
<1>3. ASSUME NEW x \in S
      PROVE  f[x] <= SumFunctionOnSet(f, S)
  <2>1. SumFunctionOnSet(f, S \ {x}) \in Nat
    BY <1>0, <1>1
  <2>2. SumFunctionOnSet(f, S) = f[x] + SumFunctionOnSet(f, S \ {x})
    BY SumRemove
  <2> QED
    BY <2>1, <2>2
<1> QED
  BY <1>2, <1>3

\* The summands of two sets without a common element.
THEOREM SumUnion ==
  ASSUME NEW S, IsFiniteSet(S), NEW R, IsFiniteSet(R), R \cap S = {}, NEW f, \A y \in R \cup S : f[y] \in Int
  PROVE  SumFunctionOnSet(f, R \cup S) = SumFunctionOnSet(f, R) + SumFunctionOnSet(f, S)
<1> DEFINE Sum(U) == SumFunctionOnSet(f, U)
<1> DEFINE T == {U \in SUBSET S : Sum(R \cup U) # Sum(R) + Sum(U)}
<1>0. T \subseteq SUBSET S /\ \A U : U \in T <=> U \subseteq S /\ Sum(R \cup U) # Sum(R) + Sum(U)
  OBVIOUS
<1>1. Sum(R) \in Int
  BY SumType
<1> HIDE DEF T
<1> SUFFICES ASSUME T # {}
             PROVE  FALSE
  BY <1>0
<1>2. PICK U \in T : \A y \in T : y \subseteq U => y = U
  BY <1>0, MinimalSubset
<1>3. U \subseteq S /\ IsFiniteSet(U) /\ IsFiniteSet(R \cup U) /\ Sum(R \cup U) # Sum(R) + Sum(U)
  BY <1>0, <1>2, FS_Subset, FS_Union
<1>4. U # {}
  <2> SUFFICES ASSUME U = {}
               PROVE  FALSE
    OBVIOUS
  <2>1. R \cup U = R /\ Sum(U) = 0
    BY SumEmpty
  <2> QED
    BY <1>1, <1>3, <2>1
<1> DEFINE z == Chosen(U)
<1>5. z \in U /\ z \notin R
  BY <1>3, <1>4, ChosenIsIn
<1>6. U \ {z} \notin T /\ U \ {z} \subseteq S
  BY <1>2, <1>3, <1>5
<1>7. Sum(R \cup (U \ {z})) = Sum(R) + Sum(U \ {z})
  BY <1>0, <1>6
<1>8. Sum(U) = f[z] + Sum(U \ {z})
  BY <1>3, <1>4, SumUnfold
<1>9. Sum(R \cup U) = f[z] + Sum((R \cup U) \ {z})
  <2>1. \A y \in R \cup U : f[y] \in Int
    BY <1>3
  <2> QED
    BY <1>3, <1>5, <2>1, SumRemove
<1>10. (R \cup U) \ {z} = R \cup (U \ {z})
  BY <1>5
<1>11. f[z] \in Int /\ Sum(U \ {z}) \in Int
  <2>1. IsFiniteSet(U \ {z}) /\ \A y \in U \ {z} : f[y] \in Int
    BY <1>3, FS_Subset
  <2> QED
    BY <1>3, <1>5, <2>1, SumType
<1> HIDE DEF Sum, z
<1>12. Sum(R \cup U) = f[z] + (Sum(R) + Sum(U \ {z}))
  BY <1>7, <1>9, <1>10
<1> QED
  BY <1>1, <1>3, <1>8, <1>11, <1>12

\* One summand at most that is not zero.
THEOREM SumSingle ==
  ASSUME NEW S, IsFiniteSet(S), NEW f, NEW x \in S, f[x] \in Int, \A y \in S \ {x} : f[y] = 0
  PROVE  SumFunctionOnSet(f, S) = f[x]
<1>1. \A y \in S : f[y] \in Int
  OBVIOUS
<1>2. SumFunctionOnSet(f, S) = f[x] + SumFunctionOnSet(f, S \ {x})
  BY <1>1, SumRemove
<1>3. SumFunctionOnSet(f, S \ {x}) = 0
  BY FS_RemoveElement, SumZero
<1> QED
  BY <1>2, <1>3

\* The sum of sums.
THEOREM SumPlus ==
  ASSUME NEW S, IsFiniteSet(S), NEW f, NEW g, NEW h,
         \A x \in S : f[x] \in Int /\ g[x] \in Int /\ h[x] = f[x] + g[x]
  PROVE  SumFunctionOnSet(h, S) = SumFunctionOnSet(f, S) + SumFunctionOnSet(g, S)
<1> DEFINE Adds(U) == SumFunctionOnSet(h, U) = SumFunctionOnSet(f, U) + SumFunctionOnSet(g, U)
           T == {U \in SUBSET S : ~Adds(U)}
<1>0. T \subseteq SUBSET S /\ \A U : U \in T <=> U \subseteq S /\ ~Adds(U)
  OBVIOUS
<1> HIDE DEF T
<1> SUFFICES ASSUME T # {}
             PROVE  FALSE
  BY <1>0
<1>1. PICK U \in T : \A y \in T : y \subseteq U => y = U
  BY <1>0, MinimalSubset
<1>2. U \subseteq S /\ IsFiniteSet(U) /\ ~Adds(U)
  BY <1>0, <1>1, FS_Subset
<1>3. U # {}
  <2>1. Adds({})
    BY SumEmpty
  <2> HIDE DEF Adds
  <2> QED
    BY <1>2, <2>1
<1> DEFINE z == Chosen(U)
           W == U \ {z}
<1>4. z \in U
  BY <1>3, ChosenIsIn
<1>5. Adds(W)
  <2> HIDE DEF Adds
  <2> QED
    BY <1>0, <1>1, <1>2, <1>4
<1>6. /\ SumFunctionOnSet(f, U) = f[z] + SumFunctionOnSet(f, W)
      /\ SumFunctionOnSet(g, U) = g[z] + SumFunctionOnSet(g, W)
      /\ SumFunctionOnSet(h, U) = h[z] + SumFunctionOnSet(h, W)
  BY <1>2, <1>3, SumUnfold
<1>7. SumFunctionOnSet(f, W) \in Int /\ SumFunctionOnSet(g, W) \in Int
  <2>1. W \subseteq S /\ IsFiniteSet(W)
    BY <1>2, FS_Subset
  <2> HIDE DEF W
  <2> QED
    BY <2>1, SumType
<1>8. f[z] \in Int /\ g[z] \in Int /\ h[z] = f[z] + g[z]
  BY <1>2, <1>4
<1> HIDE DEF z, W
<1> QED
  BY <1>2, <1>5, <1>6, <1>7, <1>8

\* Summands that are all the same.
THEOREM SumConstant ==
  ASSUME NEW S, IsFiniteSet(S), NEW f, NEW n \in Nat, \A x \in S : f[x] = n
  PROVE  SumFunctionOnSet(f, S) = n * Cardinality(S)
<1> DEFINE T == {U \in SUBSET S : SumFunctionOnSet(f, U) # n * Cardinality(U)}
<1>0. T \subseteq SUBSET S /\ \A U : U \in T <=> U \subseteq S /\ SumFunctionOnSet(f, U) # n * Cardinality(U)
  OBVIOUS
<1> HIDE DEF T
<1> SUFFICES ASSUME T # {}
             PROVE  FALSE
  BY <1>0
<1>1. PICK U \in T : \A y \in T : y \subseteq U => y = U
  BY <1>0, MinimalSubset
<1>2. U \subseteq S /\ IsFiniteSet(U) /\ SumFunctionOnSet(f, U) # n * Cardinality(U)
  BY <1>0, <1>1, FS_Subset
<1>3. U # {}
  <2> SUFFICES ASSUME U = {} PROVE FALSE
    OBVIOUS
  <2>1. SumFunctionOnSet(f, U) = 0 /\ Cardinality(U) = 0
    BY SumEmpty, FS_EmptySet
  <2>2. n * 0 = 0
    OBVIOUS
  <2> QED
    BY <1>2, <2>1, <2>2
<1>4. Chosen(U) \in U
  BY <1>3, ChosenIsIn
<1>5. SumFunctionOnSet(f, U \ {Chosen(U)}) = n * Cardinality(U \ {Chosen(U)})
  BY <1>0, <1>1, <1>2, <1>4
<1>6. Cardinality(U \ {Chosen(U)}) = Cardinality(U) - 1 /\ Cardinality(U) \in Nat \ {0}
  BY <1>2, <1>3, <1>4, FS_RemoveElement, FS_CardinalityType, FS_EmptySet
<1>7. \A k \in Nat \ {0} : n * k = n + n * (k - 1)
  OBVIOUS
<1>8. SumFunctionOnSet(f, U) = n + n * (Cardinality(U) - 1)
  BY <1>2, <1>3, <1>4, <1>5, <1>6, SumUnfold
<1> QED
  BY <1>2, <1>6, <1>7, <1>8

-----------------------------------------------------------------------------
(* Natural numbers *)

\* A set that has zero, and the successor of each of its numbers, has every
\* number.
THEOREM UpTo ==
  ASSUME NEW S, 0 \in S, \A n \in Nat : n \in S => n + 1 \in S
  PROVE  \A n \in Nat : n \in S
<1> DEFINE T == Nat \ S
<1> SUFFICES ASSUME T # {}
             PROVE  FALSE
  OBVIOUS
<1>1. PICK n \in T : \A m \in T : <<m, n>> \notin OpToRel(<, Nat)
  BY NatLessThanWellFounded, WFMin
<1>2. n \in Nat /\ n # 0 /\ n \notin S
  OBVIOUS
<1>3. n - 1 \in Nat /\ n - 1 < n /\ (n - 1) + 1 = n
  BY <1>2
<1>4. n - 1 \in T
  BY <1>2, <1>3
<1> QED
  BY <1>1, <1>2, <1>3, <1>4 DEF OpToRel

\* A nonempty set of numbers has its minimum.
THEOREM MinIsIn ==
  ASSUME NEW S, S \subseteq Nat, S # {}
  PROVE  Min(S) \in S
<1>1. PICK n \in S : \A m \in S : <<m, n>> \notin OpToRel(<, Nat)
  BY NatLessThanWellFounded, WFMin
<1>2. \A m \in S : m \in Nat /\ n \in Nat /\ ~(m < n)
  BY <1>1 DEF OpToRel
<1>3. \A m \in S : n <= m
  BY <1>2
<1> QED
  BY <1>3 DEF Min

=============================================================================
