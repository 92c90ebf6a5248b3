------------------------------ MODULE TableTheorems ----------------------------
(***************************************************************************)
(* What the proofs need of sums, of recursion and of tables.               *)
(*                                                                         *)
(* The induction theorems of the library take an operator, which the       *)
(* provers cannot instantiate.  Here a claim is a set: of subsets, of      *)
(* which WFMin gives a smallest one without it, or of numbers.  A summand  *)
(* and the step of a recursion are functions, so that the lemmas can be    *)
(* cited for any of the models.  A table is a sequence of rows.            *)
(***************************************************************************)
EXTENDS FiniteSetsExt, FiniteSetTheorems, NaturalsInduction, WellFoundedInduction,
        SequenceTheorems, TLAPS

Total(f, S) == MapThenSumSet(LAMBDA x : f[x], S)

Pick(s) == CHOOSE x \in s : TRUE

(* g is the fold of f over the subsets of D.                               *)
Adds(f, D, g) ==
    g = [s \in SUBSET D |-> IF s = {} THEN 0 ELSE f[Pick(s)] + g[s \ {Pick(s)}]]

(* A total is what the fold of the community modules computes.             *)
LEMMA TotalIsFold ==
    ASSUME NEW f, NEW S
    PROVE  Total(f, S) = (CHOOSE g : Adds(f, S, g))[S]
BY DEF Total, MapThenSumSet, MapThenFoldSet, Adds, Pick

(* Induction over the subsets of a finite set.                             *)
LEMMA SmallestSubset ==
    ASSUME NEW D, IsFiniteSet(D), NEW T, T \subseteq SUBSET D, T # {}
    PROVE  \E s \in T : \A t \in T : t \subseteq s => t = s
<1>1. IsWellFoundedOn(StrictSubsetOrdering(D), SUBSET D)
  BY FS_StrictSubsetOrderingWellFounded, FS_FiniteSubsetsOfFinite
<1>2. PICK s \in T : \A t \in T : <<t, s>> \notin StrictSubsetOrdering(D)
  BY <1>1, WFMin, Zenon
<1>3. ASSUME NEW t \in T, t \subseteq s, t # s
      PROVE  FALSE
  BY <1>2, <1>3 DEF StrictSubsetOrdering
<1> QED
  BY <1>3

(* The fold takes an element of the set.                                   *)
LEMMA PickIn == ASSUME NEW s, s # {} PROVE Pick(s) \in s
  BY DEF Pick

(* The value of a fold at one subset.                                      *)
LEMMA AddsAt ==
    ASSUME NEW f, NEW D, NEW g, Adds(f, D, g), NEW s \in SUBSET D
    PROVE  g[s] = IF s = {} THEN 0 ELSE f[Pick(s)] + g[s \ {Pick(s)}]
  BY DEF Adds

(* Two folds agree where they are both defined.                            *)
LEMMA AddsAgree ==
    ASSUME NEW D, IsFiniteSet(D), NEW f, NEW e, NEW C, NEW g, NEW h,
           Adds(f, D, g), Adds(e, C, h),
           NEW s \in SUBSET D, s \subseteq C, \A x \in s : f[x] = e[x]
    PROVE  g[s] = h[s]
<1> DEFINE T == {t \in SUBSET s : g[t] # h[t]}
<1> SUFFICES ASSUME T # {} PROVE FALSE
  OBVIOUS
<1>1. PICK t \in T : \A u \in T : u \subseteq t => u = t
  <2>1. T \subseteq SUBSET D
    OBVIOUS
  <2> HIDE DEF T
  <2> QED
    BY <2>1, SmallestSubset
<1>2. t # {}
  <2>1. g[{}] = 0 /\ h[{}] = 0
    <3>1. {} \in SUBSET D /\ {} \in SUBSET C
      OBVIOUS
    <3> QED
      BY <3>1, AddsAt
  <2>2. g[t] # h[t]
    BY <1>1
  <2> QED
    BY <2>1, <2>2
<1>3. /\ g[t] = f[Pick(t)] + g[t \ {Pick(t)}]
      /\ h[t] = e[Pick(t)] + h[t \ {Pick(t)}]
  <2>1. t \in SUBSET D /\ t \in SUBSET C
    OBVIOUS
  <2> QED
    BY <1>2, <2>1, AddsAt
<1>4. Pick(t) \in t
  BY <1>2, PickIn
<1>5. g[t \ {Pick(t)}] = h[t \ {Pick(t)}]
  BY <1>1, <1>4
<1> QED
  BY <1>1, <1>3, <1>4, <1>5

(* A finite set has a fold: the recursion of the community modules is not  *)
(* void.                                                                   *)
LEMMA AddsExists ==
    ASSUME NEW D, IsFiniteSet(D), NEW f
    PROVE  \E g : Adds(f, D, g)
<1> DEFINE T == {s \in SUBSET D : ~\E g : Adds(f, s, g)}
<1> SUFFICES ASSUME T # {} PROVE FALSE
  OBVIOUS
<1>1. PICK s \in T : \A t \in T : t \subseteq s => t = s
  <2> T \subseteq SUBSET D
    OBVIOUS
  <2> HIDE DEF T
  <2> QED
    BY SmallestSubset
<1>2. \A t \in SUBSET s : IsFiniteSet(t)
  BY FS_Subset
<1> DEFINE Fold(t) == CHOOSE g : Adds(f, t, g)
           rest == s \ {Pick(s)}
           F == [t \in SUBSET s |-> IF t # s THEN Fold(t)[t]
                                    ELSE IF s = {} THEN 0 ELSE f[Pick(s)] + Fold(rest)[rest]]
<1>3. \A t \in SUBSET s : t # s => Adds(f, t, Fold(t))
  BY <1>1
<1>4. s # {} => rest \in SUBSET s /\ rest # s
  BY PickIn
<1>5. ASSUME NEW t \in SUBSET s
      PROVE  F[t] = IF t = {} THEN 0 ELSE f[Pick(t)] + F[t \ {Pick(t)}]
  <2>1. CASE t = s
    BY <1>4, <2>1
  <2>2. CASE t # s /\ t = {}
    <3>1. Fold(t)[t] = 0
      BY <1>3, <2>2, AddsAt
    <3> QED
      BY <2>2, <3>1
  <2>3. CASE t # s /\ t # {}
    <3> DEFINE u == t \ {Pick(t)}
    <3>1. u \in SUBSET s /\ u # s /\ u \in SUBSET t
      BY <2>3, PickIn
    <3>2. Adds(f, t, Fold(t)) /\ Adds(f, u, Fold(u)) /\ IsFiniteSet(t)
      BY <1>2, <1>3, <2>3, <3>1
    <3>3. Fold(t)[t] = f[Pick(t)] + Fold(t)[u]
      BY <2>3, <3>2, AddsAt
    <3>4. Fold(t)[u] = Fold(u)[u]
      <4> HIDE DEF Fold, u
      <4> QED
        BY <3>1, <3>2, AddsAgree
    <3>5. F[t] = Fold(t)[t] /\ F[u] = Fold(u)[u]
      BY <2>3, <3>1
    <3> QED
      BY <2>3, <3>3, <3>4, <3>5
  <2> QED
    BY <2>1, <2>2, <2>3
<1>6. Adds(f, s, F)
  <2>1. F = [t \in SUBSET s |-> F[t]]
    OBVIOUS
  <2> HIDE DEF F
  <2>2. [t \in SUBSET s |-> F[t]] = [t \in SUBSET s |-> IF t = {} THEN 0 ELSE f[Pick(t)] + F[t \ {Pick(t)}]]
    BY <1>5
  <2> QED
    BY <2>1, <2>2 DEF Adds
<1> QED
  BY <1>1, <1>6

(* A total as the value of a fold that exists.                             *)
LEMMA TotalAdds ==
    ASSUME NEW f, NEW S, IsFiniteSet(S)
    PROVE  \E g : Adds(f, S, g) /\ Total(f, S) = g[S]
  BY AddsExists, TotalIsFold

(* A total depends on what is summed only.                                 *)
LEMMA TotalSame ==
    ASSUME NEW f, NEW e, NEW S, IsFiniteSet(S), \A x \in S : f[x] = e[x]
    PROVE  Total(f, S) = Total(e, S)
<1>1. PICK g : Adds(f, S, g) /\ Total(f, S) = g[S]
  BY TotalAdds
<1>2. PICK h : Adds(e, S, h) /\ Total(e, S) = h[S]
  BY TotalAdds
<1> QED
  BY <1>1, <1>2, AddsAgree

(* Nothing adds up to 0.                                                   *)
LEMMA TotalEmpty == ASSUME NEW f PROVE Total(f, {}) = 0
<1>1. PICK g : Adds(f, {}, g) /\ Total(f, {}) = g[{}]
  BY TotalAdds, FS_EmptySet
<1> QED
  BY <1>1, AddsAt

(* One step of the fold.                                                   *)
LEMMA TotalPick ==
    ASSUME NEW f, NEW S, IsFiniteSet(S), S # {}
    PROVE  Total(f, S) = f[Pick(S)] + Total(f, S \ {Pick(S)})
<1> DEFINE R == S \ {Pick(S)}
<1>1. IsFiniteSet(R)
  BY FS_RemoveElement
<1>2. PICK g : Adds(f, S, g) /\ Total(f, S) = g[S]
  BY TotalAdds
<1>3. PICK h : Adds(f, R, h) /\ Total(f, R) = h[R]
  BY <1>1, TotalAdds
<1>4. g[R] = h[R]
  <2> HIDE DEF R
  <2>1. R \in SUBSET S
    BY DEF R
  <2> QED
    BY <1>2, <1>3, <2>1, AddsAgree
<1> QED
  BY <1>2, <1>3, <1>4, AddsAt

(* The total of integers is an integer.                                    *)
LEMMA TotalInt ==
    ASSUME NEW f, NEW S, IsFiniteSet(S), \A x \in S : f[x] \in Int
    PROVE  Total(f, S) \in Int
<1> DEFINE T == {s \in SUBSET S : Total(f, s) \notin Int}
<1> SUFFICES ASSUME T # {} PROVE FALSE
  OBVIOUS
<1>1. PICK s \in T : \A t \in T : t \subseteq s => t = s
  <2> T \subseteq SUBSET S
    OBVIOUS
  <2> HIDE DEF T
  <2> QED
    BY SmallestSubset
<1>2. s # {}
  <2>1. Total(f, s) \notin Int /\ Total(f, {}) = 0
    BY <1>1, TotalEmpty
  <2> QED
    BY <2>1
<1>3. Pick(s) \in s /\ IsFiniteSet(s)
  BY <1>2, PickIn, FS_Subset
<1>4. Total(f, s \ {Pick(s)}) \in Int
  BY <1>1, <1>3
<1> QED
  BY <1>1, <1>2, <1>3, <1>4, TotalPick

(* The total of naturals is a natural.                                     *)
LEMMA TotalNat ==
    ASSUME NEW f, NEW S, IsFiniteSet(S), \A x \in S : f[x] \in Nat
    PROVE  Total(f, S) \in Nat
<1> DEFINE T == {s \in SUBSET S : Total(f, s) \notin Nat}
<1> SUFFICES ASSUME T # {} PROVE FALSE
  OBVIOUS
<1>1. PICK s \in T : \A t \in T : t \subseteq s => t = s
  <2> T \subseteq SUBSET S
    OBVIOUS
  <2> HIDE DEF T
  <2> QED
    BY SmallestSubset
<1>2. s # {}
  <2>1. Total(f, s) \notin Nat /\ Total(f, {}) = 0
    BY <1>1, TotalEmpty
  <2> QED
    BY <2>1
<1>3. Pick(s) \in s /\ IsFiniteSet(s)
  BY <1>2, PickIn, FS_Subset
<1>4. Total(f, s \ {Pick(s)}) \in Nat
  BY <1>1, <1>3
<1> QED
  BY <1>1, <1>2, <1>3, <1>4, TotalPick

(* Any element may be the one that is taken out.                           *)
LEMMA TotalTake ==
    ASSUME NEW f, NEW S, IsFiniteSet(S), \A x \in S : f[x] \in Int, NEW x \in S
    PROVE  Total(f, S) = f[x] + Total(f, S \ {x})
<1> DEFINE T == {s \in SUBSET S : \E y \in s : Total(f, s) # f[y] + Total(f, s \ {y})}
<1> SUFFICES ASSUME T # {} PROVE FALSE
  OBVIOUS
<1>1. PICK s \in T : \A t \in T : t \subseteq s => t = s
  <2> T \subseteq SUBSET S
    OBVIOUS
  <2> HIDE DEF T
  <2> QED
    BY SmallestSubset
<1>2. PICK y \in s : Total(f, s) # f[y] + Total(f, s \ {y})
  OBVIOUS
<1> DEFINE p == Pick(s)
<1>3. /\ p \in s /\ s \in SUBSET S
      /\ IsFiniteSet(s) /\ IsFiniteSet(s \ {p}) /\ IsFiniteSet(s \ {y}) /\ IsFiniteSet((s \ {p}) \ {y})
  BY <1>1, <1>2, PickIn, FS_Subset, FS_RemoveElement
<1>4. Total(f, s) = f[p] + Total(f, s \ {p})
  BY <1>2, <1>3, TotalPick
<1>5. y # p
  BY <1>2, <1>4
<1>6. s \ {p} \notin T /\ s \ {y} \notin T
  BY <1>1, <1>2, <1>3
<1>7. Total(f, s \ {p}) = f[y] + Total(f, (s \ {p}) \ {y})
  BY <1>2, <1>3, <1>5, <1>6
<1>8. Total(f, s \ {y}) = f[p] + Total(f, (s \ {y}) \ {p})
  BY <1>2, <1>3, <1>5, <1>6
<1>9. (s \ {p}) \ {y} = (s \ {y}) \ {p}
  OBVIOUS
<1>10. Total(f, (s \ {p}) \ {y}) \in Int /\ f[p] \in Int /\ f[y] \in Int
  BY <1>3, TotalInt
<1>11. \A a, b, c \in Int : a + (b + c) = b + (a + c)
  OBVIOUS
<1> HIDE DEF p
<1>12. f[p] + (f[y] + Total(f, (s \ {p}) \ {y})) = f[y] + (f[p] + Total(f, (s \ {p}) \ {y}))
  BY <1>10, <1>11
<1> QED
  BY <1>2, <1>4, <1>7, <1>8, <1>9, <1>12

(* One more element adds its term.                                         *)
LEMMA TotalAdd ==
    ASSUME NEW f, NEW S, IsFiniteSet(S), NEW x, x \notin S, \A y \in S \cup {x} : f[y] \in Int
    PROVE  Total(f, S \cup {x}) = f[x] + Total(f, S)
<1>1. IsFiniteSet(S \cup {x}) /\ x \in S \cup {x}
  BY FS_AddElement
<1>2. (S \cup {x}) \ {x} = S
  OBVIOUS
<1>3. Total(f, S \cup {x}) = f[x] + Total(f, (S \cup {x}) \ {x})
  BY <1>1, TotalTake
<1> QED
  BY <1>2, <1>3

(* Two disjoint sets add up separately.                                    *)
LEMMA TotalSplit ==
    ASSUME NEW f, NEW A, NEW B, IsFiniteSet(A), IsFiniteSet(B), A \cap B = {},
           \A x \in A \cup B : f[x] \in Int
    PROVE  Total(f, A \cup B) = Total(f, A) + Total(f, B)
<1> DEFINE T == {b \in SUBSET B : Total(f, A \cup b) # Total(f, A) + Total(f, b)}
<1> SUFFICES ASSUME T # {} PROVE FALSE
  OBVIOUS
<1>1. PICK b \in T : \A t \in T : t \subseteq b => t = b
  <2> T \subseteq SUBSET B
    OBVIOUS
  <2> HIDE DEF T
  <2> QED
    BY SmallestSubset
<1>2. Total(f, A \cup b) # Total(f, A) + Total(f, b) /\ b \in SUBSET B
  OBVIOUS
<1>3. Total(f, A) \in Int
  BY TotalInt
<1>4. b # {}
  <2>1. Total(f, {}) = 0 /\ A \cup {} = A
    BY TotalEmpty
  <2>2. Total(f, A) = Total(f, A) + 0
    BY <1>3
  <2> QED
    BY <1>2, <2>1, <2>2
<1>5. PICK x : x \in b
  BY <1>4
<1> DEFINE c == b \ {x}
<1>6. IsFiniteSet(b) /\ IsFiniteSet(c) /\ IsFiniteSet(A \cup b) /\ IsFiniteSet(A \cup c)
  BY <1>2, FS_Subset, FS_RemoveElement, FS_Union
<1>7. Total(f, A \cup c) = Total(f, A) + Total(f, c)
  BY <1>1, <1>2, <1>5
<1>8. Total(f, b) = f[x] + Total(f, c)
  BY <1>2, <1>5, <1>6, TotalTake
<1>9. Total(f, A \cup b) = f[x] + Total(f, A \cup c)
  <2>1. (A \cup b) \ {x} = A \cup c /\ x \in A \cup b /\ \A y \in A \cup b : f[y] \in Int
    BY <1>2, <1>5
  <2> HIDE DEF c
  <2>2. Total(f, A \cup b) = f[x] + Total(f, (A \cup b) \ {x})
    BY <1>6, <2>1, TotalTake
  <2> QED
    BY <2>1, <2>2
<1>10. Total(f, c) \in Int /\ f[x] \in Int
  BY <1>2, <1>5, <1>6, TotalInt
<1> HIDE DEF c
<1> QED
  BY <1>2, <1>3, <1>7, <1>8, <1>9, <1>10

(* Zeros add up to 0.                                                      *)
LEMMA TotalZero ==
    ASSUME NEW f, NEW S, IsFiniteSet(S), \A x \in S : f[x] = 0
    PROVE  Total(f, S) = 0
<1> DEFINE T == {s \in SUBSET S : Total(f, s) # 0}
<1> SUFFICES ASSUME T # {} PROVE FALSE
  OBVIOUS
<1>1. PICK s \in T : \A t \in T : t \subseteq s => t = s
  <2> T \subseteq SUBSET S
    OBVIOUS
  <2> HIDE DEF T
  <2> QED
    BY SmallestSubset
<1>2. s # {}
  <2>1. Total(f, s) # 0 /\ Total(f, {}) = 0
    BY <1>1, TotalEmpty
  <2> QED
    BY <2>1
<1>3. Pick(s) \in s /\ IsFiniteSet(s)
  BY <1>2, PickIn, FS_Subset
<1>4. Total(f, s \ {Pick(s)}) = 0 /\ f[Pick(s)] = 0
  BY <1>1, <1>3
<1>5. Total(f, s) = f[Pick(s)] + Total(f, s \ {Pick(s)})
  BY <1>2, <1>3, TotalPick
<1> QED
  BY <1>1, <1>4, <1>5

(* A part is not more than the whole, of what is not negative.             *)
LEMMA TotalPart ==
    ASSUME NEW f, NEW S, IsFiniteSet(S), NEW A, A \subseteq S, \A x \in S : f[x] \in Nat
    PROVE  Total(f, A) <= Total(f, S)
<1>1. IsFiniteSet(A) /\ IsFiniteSet(S \ A)
  BY FS_Subset
<1>2. Total(f, A) \in Nat /\ Total(f, S \ A) \in Nat
  BY <1>1, TotalNat
<1>3. A \cup (S \ A) = S /\ A \cap (S \ A) = {}
  OBVIOUS
<1>4. Total(f, A \cup (S \ A)) = Total(f, A) + Total(f, S \ A)
  BY <1>1, <1>3, TotalSplit
<1>5. Total(f, S) = Total(f, A) + Total(f, S \ A)
  BY <1>3, <1>4
<1> QED
  BY <1>2, <1>5

(* One summand changes.                                                    *)
LEMMA TotalChange ==
    ASSUME NEW f, NEW e, NEW S, IsFiniteSet(S), NEW x \in S,
           \A y \in S : f[y] \in Int /\ e[y] \in Int,
           \A y \in S \ {x} : e[y] = f[y]
    PROVE  Total(e, S) = Total(f, S) + e[x] - f[x]
<1> DEFINE R == S \ {x}
<1>1. IsFiniteSet(R)
  BY FS_RemoveElement
<1>2. Total(e, S) = e[x] + Total(e, R) /\ Total(f, S) = f[x] + Total(f, R)
  BY TotalTake
<1>3. Total(e, R) = Total(f, R)
  BY <1>1, TotalSame
<1>4. Total(f, R) \in Int /\ e[x] \in Int /\ f[x] \in Int
  BY <1>1, TotalInt
<1> HIDE DEF R
<1> QED
  BY <1>2, <1>3, <1>4

(* Larger terms make a larger total.                                       *)
LEMMA TotalMonotone ==
    ASSUME NEW f, NEW e, NEW S, IsFiniteSet(S), \A x \in S : f[x] \in Int /\ e[x] \in Int /\ f[x] <= e[x]
    PROVE  Total(f, S) <= Total(e, S)
<1> DEFINE d == [x \in S |-> e[x] - f[x]]
           T == {s \in SUBSET S : Total(e, s) # Total(f, s) + Total(d, s)}
<1>0. Total(e, S) = Total(f, S) + Total(d, S)
  <2> SUFFICES ASSUME T # {} PROVE FALSE
    OBVIOUS
  <2>1. PICK s \in T : \A t \in T : t \subseteq s => t = s
    <3> T \subseteq SUBSET S
      OBVIOUS
    <3> HIDE DEF T
    <3> QED
      BY SmallestSubset
  <2>2. s \in SUBSET S /\ Total(e, s) # Total(f, s) + Total(d, s)
    OBVIOUS
  <2>3. s # {}
    <3>1. Total(e, {}) = 0 /\ Total(f, {}) = 0 /\ Total(d, {}) = 0
      BY TotalEmpty
    <3> HIDE DEF d, T
    <3> QED
      BY <2>2, <3>1
  <2> DEFINE p == Pick(s)
             r == s \ {p}
  <2>4. p \in s /\ IsFiniteSet(s) /\ IsFiniteSet(r)
    BY <2>2, <2>3, PickIn, FS_Subset, FS_RemoveElement
  <2>5. Total(e, r) = Total(f, r) + Total(d, r)
    BY <2>1, <2>2, <2>4
  <2>6. /\ Total(e, s) = e[p] + Total(e, r) /\ Total(f, s) = f[p] + Total(f, r)
        /\ Total(d, s) = d[p] + Total(d, r)
    BY <2>3, <2>4, TotalPick
  <2>7. Total(f, r) \in Int /\ Total(d, r) \in Int /\ e[p] \in Int /\ f[p] \in Int /\ d[p] = e[p] - f[p]
    BY <2>2, <2>4, TotalInt
  <2> HIDE DEF p, r, d
  <2> QED
    BY <2>2, <2>5, <2>6, <2>7
<1>1. \A x \in S : d[x] \in Nat
  OBVIOUS
<1>2. Total(d, S) \in Nat /\ Total(f, S) \in Int
  BY <1>1, TotalNat, TotalInt
<1> QED
  BY <1>0, <1>2

(* What A had is gathered at one of its elements.                          *)
LEMMA TotalGather ==
    ASSUME NEW f, NEW e, NEW D, IsFiniteSet(D), NEW A, A \subseteq D, NEW x \in A,
           \A y \in D : f[y] \in Int /\ e[y] \in Int,
           e[x] = Total(f, A), \A y \in A \ {x} : e[y] = 0,
           \A y \in D \ A : e[y] = f[y]
    PROVE  Total(e, D) = Total(f, D)
<1>1. IsFiniteSet(A) /\ IsFiniteSet(D \ A) /\ IsFiniteSet(A \ {x})
  BY FS_Subset
<1>2. D = A \cup (D \ A) /\ A \cap (D \ A) = {}
  OBVIOUS
<1>3. Total(e, D) = Total(e, A) + Total(e, D \ A)
  BY <1>1, <1>2, TotalSplit
<1>4. Total(f, D) = Total(f, A) + Total(f, D \ A)
  BY <1>1, <1>2, TotalSplit
<1>5. Total(e, D \ A) = Total(f, D \ A)
  BY <1>1, TotalSame
<1>6. Total(e, A) = e[x] + Total(e, A \ {x})
  <2>1. \A y \in A : e[y] \in Int
    OBVIOUS
  <2>2. \A u \in A : Total(e, A) = e[u] + Total(e, A \ {u})
    BY ONLY <1>1, <2>1, TotalTake
  <2> QED
    BY <2>2
<1>7. Total(e, A \ {x}) = 0
  BY <1>1, TotalZero
<1>8. Total(f, A) \in Int
  BY <1>1, TotalInt
<1> QED
  BY <1>3, <1>4, <1>5, <1>6, <1>7, <1>8

(* What A had is taken away.                                               *)
LEMMA TotalClear ==
    ASSUME NEW f, NEW e, NEW D, IsFiniteSet(D), NEW A, A \subseteq D,
           \A y \in D : f[y] \in Int /\ e[y] \in Int,
           \A y \in A : e[y] = 0, \A y \in D \ A : e[y] = f[y]
    PROVE  Total(f, D) = Total(e, D) + Total(f, A)
<1>1. IsFiniteSet(A) /\ IsFiniteSet(D \ A)
  BY FS_Subset
<1>2. D = A \cup (D \ A) /\ A \cap (D \ A) = {}
  OBVIOUS
<1>3. Total(e, D) = Total(e, A) + Total(e, D \ A)
  BY <1>1, <1>2, TotalSplit
<1>4. Total(f, D) = Total(f, A) + Total(f, D \ A)
  BY <1>1, <1>2, TotalSplit
<1>5. Total(e, D \ A) = Total(f, D \ A)
  BY <1>1, TotalSame
<1>7. Total(e, A) = 0
  BY <1>1, TotalZero
<1>8. Total(f, A) \in Int /\ Total(f, D \ A) \in Int
  BY <1>1, TotalInt
<1> QED
  BY <1>3, <1>4, <1>5, <1>7, <1>8

(* No term is larger than the sum.                                         *)
LEMMA TotalAtLeast ==
    ASSUME NEW f, NEW S, IsFiniteSet(S), \A x \in S : f[x] \in Nat, NEW x \in S
    PROVE  f[x] <= Total(f, S)
<1>1. Total(f, S) = f[x] + Total(f, S \ {x})
  BY TotalTake
<1>2. Total(f, S \ {x}) \in Nat
  BY FS_RemoveElement, TotalNat
<1> QED
  BY <1>1, <1>2

(* What all but one are 0 adds up to that one.                             *)
LEMMA TotalOne ==
    ASSUME NEW f, NEW S, IsFiniteSet(S), NEW k \in Nat,
           \A x \in S : f[x] \in {0, k}, \A x, y \in S : f[x] # 0 /\ f[y] # 0 => x = y
    PROVE  Total(f, S) \in Nat /\ Total(f, S) <= k
<1>1. CASE \A x \in S : f[x] = 0
  <2>1. Total(f, S) = 0
    BY ONLY <1>1, IsFiniteSet(S), TotalZero
  <2> QED
    BY <2>1
<1>2. ASSUME NEW x \in S, f[x] # 0
      PROVE  Total(f, S) \in Nat /\ Total(f, S) <= k
  <2>1. \A y \in S : f[y] \in Int
    OBVIOUS
  <2>2. Total(f, S) = f[x] + Total(f, S \ {x})
    BY <2>1, TotalTake
  <2>3. IsFiniteSet(S \ {x}) /\ \A y \in S \ {x} : f[y] = 0
    BY <1>2, FS_RemoveElement
  <2>4. Total(f, S \ {x}) = 0
    BY <2>3, TotalZero
  <2> QED
    BY <2>2, <2>4
<1> QED
  BY <1>1, <1>2

------------------------------------------------------------------------------
(* Recursion on the natural numbers, for a step that is a function.        *)

(* Induction, for a set of numbers.                                        *)
LEMMA AllNumbers ==
    ASSUME NEW T, 0 \in T, \A n \in Nat \ {0} : n - 1 \in T => n \in T
    PROVE  \A n \in Nat : n \in T
<1> DEFINE R == Nat \ T
<1> SUFFICES ASSUME R # {} PROVE FALSE
  OBVIOUS
<1>1. PICK x \in R : \A y \in R : <<y, x>> \notin OpToRel(<, Nat)
  <2> R \subseteq Nat
    OBVIOUS
  <2> QED
    BY WFMin, NatLessThanWellFounded, Zenon
<1>2. x # 0 /\ x - 1 \in Nat /\ x - 1 < x /\ x \in Nat
  OBVIOUS
<1>3. x - 1 \notin R
  <2>1. <<x - 1, x>> \in OpToRel(<, Nat)
    BY <1>2 DEF OpToRel
  <2> QED
    BY <1>1, <2>1
<1> QED
  BY <1>2, <1>3

(* The first n + 1 values.                                                 *)
Values(F, z, n, g) ==
    /\ DOMAIN g = 0 .. n
    /\ g[0] = z
    /\ \A k \in 1 .. n : g[k] = F[g[k - 1]]

(* They agree where there are both.                                        *)
LEMMA ValuesAgree ==
    ASSUME NEW F, NEW z, NEW n \in Nat, NEW m \in Nat, NEW g, NEW h,
           Values(F, z, n, g), Values(F, z, m, h), NEW k \in Nat, k <= n, k <= m
    PROVE  g[k] = h[k]
<1> DEFINE T == {i \in Nat : i <= n /\ i <= m => g[i] = h[i]}
<1>1. 0 \in T
  BY DEF Values
<1>2. ASSUME NEW i \in Nat \ {0}, i - 1 \in T PROVE i \in T
  <2> SUFFICES ASSUME i <= n, i <= m PROVE g[i] = h[i]
    OBVIOUS
  <2>1. i \in 1 .. n /\ i \in 1 .. m
    OBVIOUS
  <2>2. g[i] = F[g[i - 1]] /\ h[i] = F[h[i - 1]]
    BY <2>1 DEF Values
  <2>3. g[i - 1] = h[i - 1]
    BY <1>2
  <2> QED
    BY <2>2, <2>3
<1>3. \A i \in Nat : i \in T
  <2> HIDE DEF T
  <2> QED
    BY <1>1, <1>2, AllNumbers
<1> QED
  BY <1>3

(* There are first values, however many.                                   *)
LEMMA ValuesExist ==
    ASSUME NEW F, NEW z
    PROVE  \A n \in Nat : \E g : Values(F, z, n, g)
<1> DEFINE T == {n \in Nat : \E g : Values(F, z, n, g)}
<1>1. 0 \in T
  <2>1. Values(F, z, 0, [i \in 0 .. 0 |-> z])
    BY DEF Values
  <2> QED
    BY <2>1
<1>2. ASSUME NEW n \in Nat \ {0}, n - 1 \in T PROVE n \in T
  <2>1. PICK g : Values(F, z, n - 1, g)
    BY <1>2
  <2> DEFINE h == [i \in 0 .. n |-> IF i = n THEN F[g[n - 1]] ELSE g[i]]
  <2>2. h[0] = z
    BY <2>1 DEF Values
  <2>3. ASSUME NEW k \in 1 .. n PROVE h[k] = F[h[k - 1]]
    <3>1. CASE k = n
      <4>1. n - 1 \in 0 .. n /\ n - 1 # n
        OBVIOUS
      <4> QED
        BY <3>1, <4>1
    <3>2. CASE k # n
      <4>1. k \in 1 .. (n - 1) /\ k - 1 \in 0 .. n /\ k - 1 # n /\ k \in 0 .. n
        BY <3>2
      <4>2. g[k] = F[g[k - 1]]
        BY <2>1, <4>1 DEF Values
      <4> QED
        BY <3>2, <4>1, <4>2
    <3> QED
      BY <3>1, <3>2
  <2>4. Values(F, z, n, h)
    <3>1. DOMAIN h = 0 .. n
      OBVIOUS
    <3> HIDE DEF h
    <3> QED
      BY <2>2, <2>3, <3>1 DEF Values
  <2> HIDE DEF h
  <2> QED
    BY <2>4
<1>3. \A i \in Nat : i \in T
  <2> HIDE DEF T
  <2> QED
    BY <1>1, <1>2, AllNumbers
<1> QED
  BY <1>3

(* The recursive definition has a solution.                                *)
LEMMA RecursionExists ==
    ASSUME NEW F, NEW z
    PROVE  \E f : f = [n \in Nat |-> IF n = 0 THEN z ELSE F[f[n - 1]]]
<1> DEFINE g(n) == CHOOSE h : Values(F, z, n, h)
           f == [n \in Nat |-> g(n)[n]]
<1>1. \A n \in Nat : Values(F, z, n, g(n))
  <2> SUFFICES ASSUME NEW n \in Nat PROVE Values(F, z, n, g(n))
    OBVIOUS
  <2>1. \E h : Values(F, z, n, h)
    BY ValuesExist
  <2> QED
    BY <2>1
<1>2. \A n \in Nat : f[n] = g(n)[n]
  OBVIOUS
<1> HIDE DEF g
<1>3. ASSUME NEW n \in Nat PROVE f[n] = IF n = 0 THEN z ELSE F[f[n - 1]]
  <2>1. CASE n = 0
    BY <1>1, <1>2, <2>1 DEF Values
  <2>2. CASE n # 0
    <3>1. n \in 1 .. n /\ n - 1 \in Nat /\ n - 1 <= n /\ n - 1 <= n - 1
      BY <2>2
    <3>2. g(n)[n] = F[g(n)[n - 1]]
      BY <1>1, <3>1 DEF Values
    <3>3. Values(F, z, n, g(n)) /\ Values(F, z, n - 1, g(n - 1))
      BY <1>1, <3>1
    <3>4. g(n)[n - 1] = g(n - 1)[n - 1]
      BY ONLY <3>1, <3>3, ValuesAgree, n \in Nat
    <3> QED
      BY <1>2, <2>2, <3>1, <3>2, <3>4
  <2> QED
    BY <2>1, <2>2
<1>4. DOMAIN f = Nat
  OBVIOUS
<1>5. f = [n \in Nat |-> IF n = 0 THEN z ELSE F[f[n - 1]]]
  <2>1. f = [n \in Nat |-> f[n]]
    OBVIOUS
  <2> HIDE DEF f
  <2> QED
    BY <1>3, <2>1
<1> QED
  BY <1>5

------------------------------------------------------------------------------
(* Tables as sequences.                                                    *)

(* A table is a function on its ids.                                       *)
LEMMA Table ==
    ASSUME NEW S, NEW q \in Seq(S)
    PROVE  /\ Len(q) \in Nat /\ DOMAIN q = 1 .. Len(q)
           /\ q \in [1 .. Len(q) -> S] /\ \A i \in DOMAIN q : q[i] \in S
  BY LenProperties, ElementOfSeq

(* A function on the ids of a table is a table of the same length.         *)
LEMMA IsTable ==
    ASSUME NEW S, NEW q \in Seq(S), NEW f, f \in [DOMAIN q -> S]
    PROVE  f \in Seq(S) /\ Len(f) = Len(q) /\ DOMAIN f = DOMAIN q
<1>1. Len(q) \in Nat /\ DOMAIN q = 1 .. Len(q)
  BY Table
<1>2. f \in Seq(S)
  BY <1>1, SeqDef
<1>3. DOMAIN f = DOMAIN q
  OBVIOUS
<1> QED
  BY <1>1, <1>2, <1>3, LenProperties

(* INSERT: the rows stay, the new one has the next id.                     *)
LEMMA Longer ==
    ASSUME NEW S, NEW q \in Seq(S), NEW e \in S
    PROVE  /\ Append(q, e) \in Seq(S)
           /\ Len(Append(q, e)) = Len(q) + 1
           /\ Append(q, e)[Len(q) + 1] = e
           /\ \A i \in DOMAIN q : Append(q, e)[i] = q[i]
           /\ DOMAIN Append(q, e) = DOMAIN q \cup {Len(q) + 1}
           /\ Len(q) + 1 \notin DOMAIN q
  BY AppendProperties, Table

(* UPDATE of one row.                                                      *)
LEMMA RowChanged ==
    ASSUME NEW S, NEW q \in Seq(S), NEW i \in DOMAIN q, NEW e \in S
    PROVE  /\ [q EXCEPT ![i] = e] \in Seq(S)
           /\ Len([q EXCEPT ![i] = e]) = Len(q)
           /\ DOMAIN [q EXCEPT ![i] = e] = DOMAIN q
           /\ [q EXCEPT ![i] = e][i] = e
           /\ \A k \in DOMAIN q \ {i} : [q EXCEPT ![i] = e][k] = q[k]
<1>1. [q EXCEPT ![i] = e] \in [DOMAIN q -> S]
  BY Table
<1> QED
  BY <1>1, IsTable, Table

------------------------------------------------------------------------------
(* Least and greatest numbers, and what a recursion comes to.              *)

(* A set of numbers has a least one, which Min is.                         *)
LEMMA LeastNumber ==
    ASSUME NEW S, S \subseteq Nat, S # {}
    PROVE  Min(S) \in S /\ \A x \in S : Min(S) <= x
<1>1. PICK x \in S : \A y \in S : <<y, x>> \notin OpToRel(<, Nat)
  BY WFMin, NatLessThanWellFounded, Zenon
<1>2. \A y \in S : ~(y < x)
  BY <1>1 DEF OpToRel
<1>3. \A y \in S : x <= y
  BY <1>2
<1> QED
  BY <1>3 DEF Min

(* A finite one has a greatest, which Max is.                              *)
LEMMA GreatestNumber ==
    ASSUME NEW S, S \subseteq Nat, IsFiniteSet(S), S # {}
    PROVE  Max(S) \in S /\ \A x \in S : x <= Max(S)
<1> DEFINE T == {s \in SUBSET S : s # {} /\ ~\E x \in s : \A y \in s : x >= y}
<1>1. T = {}
  <2> SUFFICES ASSUME T # {} PROVE FALSE
    OBVIOUS
  <2>1. PICK s \in T : \A t \in T : t \subseteq s => t = s
    <3>1. T \subseteq SUBSET S
      OBVIOUS
    <3> HIDE DEF T
    <3> QED
      BY ONLY <3>1, T # {}, IsFiniteSet(S), SmallestSubset
  <2>2. PICK x : x \in s
    OBVIOUS
  <2>3. s \ {x} \notin T
    BY <2>1, <2>2
  <2>4. s \ {x} # {}
    BY <2>1, <2>2
  <2>5. PICK z \in s \ {x} : \A y \in s \ {x} : z >= y
    BY <2>3, <2>4
  <2>6. x \in Nat /\ z \in Nat /\ \A y \in s : y \in Nat
    BY <2>2, <2>5
  <2>7. \A y \in s : (IF x >= z THEN x ELSE z) >= y
    BY <2>5, <2>6
  <2> QED
    BY <2>1, <2>2, <2>5, <2>7
<1>2. PICK x \in S : \A y \in S : x >= y
  BY <1>1
<1> QED
  BY <1>2 DEF Max

(* The greater of two numbers, as the models take it.                      *)
LEMMA MaxOfTwo ==
    ASSUME NEW a \in Int, NEW b \in Int
    PROVE  Max({a, b}) \in {a, b} /\ Max({a, b}) >= a /\ Max({a, b}) >= b
<1>1. \E x \in {a, b} : \A y \in {a, b} : x >= y
  OBVIOUS
<1> QED
  BY <1>1 DEF Max

(* Induction along the values of a recursion.                              *)
LEMMA StepsKeep ==
    ASSUME NEW T, NEW N \in Nat, NEW g, <<0, g[0]>> \in T,
           \A k \in 1 .. N : <<k - 1, g[k - 1]>> \in T => <<k, g[k]>> \in T
    PROVE  \A k \in 0 .. N : <<k, g[k]>> \in T
<1> DEFINE W == {k \in Nat : k <= N => <<k, g[k]>> \in T}
<1>1. 0 \in W
  OBVIOUS
<1>2. ASSUME NEW k \in Nat \ {0}, k - 1 \in W PROVE k \in W
  BY <1>2
<1> HIDE DEF W
<1>3. \A k \in Nat : k \in W
  BY <1>1, <1>2, AllNumbers
<1> QED
  BY <1>3 DEF W

Recurs(g, N, base, Step) ==
    g = [k \in 0 .. N |-> IF k = 0 THEN base ELSE Step[<<k - 1, g[k - 1]>>]]

(* A recursion over the first numbers has a solution, if its steps stay in *)
(* the domain of what they apply.                                          *)
LEMMA StepsExist ==
    ASSUME NEW T, NEW N \in Nat, NEW base, NEW Step, <<0, base>> \in T,
           \A k \in 1 .. N : \A v : <<k - 1, v>> \in T => <<k, Step[<<k - 1, v>>]>> \in T
    PROVE  \E g : (\A k \in 0 .. N : <<k, g[k]>> \in T) /\ Recurs(g, N, base, Step)
<1>1. PICK G : G = [x \in T |-> IF x[1] < N THEN <<x[1] + 1, Step[x]>> ELSE x]
  OBVIOUS
<1>2. PICK first : first = <<0, base>>
  OBVIOUS
<1> DEFINE Is(f, H, y) == f = [n \in Nat |-> IF n = 0 THEN y ELSE H[f[n - 1]]]
<1>3. PICK f : Is(f, G, first)
  <2>1. \A H, y : \E f : Is(f, H, y)
    BY RecursionExists
  <2> HIDE DEF Is
  <2> QED
    BY ONLY <2>1
<1>4. f[0] = first /\ \A n \in Nat \ {0} : f[n] = G[f[n - 1]]
  BY <1>3
<1> DEFINE W == {n \in Nat : n <= N => f[n] \in T /\ f[n] = <<n, f[n][2]>>}
<1>5. 0 \in W
  BY <1>2, <1>4
<1>6. ASSUME NEW n \in Nat \ {0}, n - 1 \in W
      PROVE  n \in W /\ (n <= N => f[n][2] = Step[<<n - 1, f[n - 1][2]>>])
  <2> SUFFICES ASSUME n <= N
               PROVE  /\ f[n] \in T /\ f[n] = <<n, f[n][2]>>
                      /\ f[n][2] = Step[<<n - 1, f[n - 1][2]>>]
    OBVIOUS
  <2>1. f[n - 1] \in T /\ f[n - 1] = <<n - 1, f[n - 1][2]>>
    BY <1>6
  <2>2. f[n - 1][1] = n - 1
    BY <2>1
  <2>3. G[f[n - 1]] = <<n, Step[f[n - 1]]>>
    BY <1>1, <2>1, <2>2
  <2>4. f[n] = <<n, Step[<<n - 1, f[n - 1][2]>>]>>
    BY <1>4, <2>1, <2>3
  <2>5. n \in 1 .. N
    OBVIOUS
  <2>6. <<n, Step[<<n - 1, f[n - 1][2]>>]>> \in T
    BY <2>1, <2>5
  <2> QED
    BY <2>4, <2>6
<1>7. \A n \in Nat : n \in W
  <2> HIDE DEF W
  <2> QED
    BY <1>5, <1>6, AllNumbers
<1> DEFINE g == [k \in 0 .. N |-> f[k][2]]
<1>8. \A k \in 0 .. N : <<k, g[k]>> \in T
  BY <1>7
<1>9. ASSUME NEW k \in 0 .. N PROVE g[k] = IF k = 0 THEN base ELSE Step[<<k - 1, g[k - 1]>>]
  <2>1. CASE k = 0
    BY <1>2, <1>4, <2>1
  <2>2. CASE k # 0
    <3>1. k \in Nat \ {0} /\ k - 1 \in 0 .. N /\ k - 1 \in W
      BY <1>7, <2>2
    <3>2. f[k][2] = Step[<<k - 1, f[k - 1][2]>>]
      BY <1>6, <3>1
    <3> QED
      BY <2>2, <3>1, <3>2
  <2> QED
    BY <2>1, <2>2
<1>10. g = [k \in 0 .. N |-> IF k = 0 THEN base ELSE Step[<<k - 1, g[k - 1]>>]]
  <2>1. g = [k \in 0 .. N |-> g[k]]
    OBVIOUS
  <2> HIDE DEF g
  <2> QED
    BY <1>9, <2>1
<1> HIDE DEF g
<1> QED
  BY <1>8, <1>10 DEF Recurs
================================================================================
