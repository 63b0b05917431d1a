------------------------------ MODULE Sales_proofs ------------------------------
(***************************************************************************)
(* Theorems about the sales figures: InfluencerSales, for any number of    *)
(* orders, coupons, influencers, months, reversals and rollbacks, and      *)
(* DashboardMetrics, for any orders, prices, products, days and            *)
(* recalculations.                                                         *)
(*                                                                         *)
(* Both need facts about sums over finite sets, which are proved first, by *)
(* looking at a smallest set for which they fail.                          *)
(***************************************************************************)
EXTENDS InfluencerSales, DashboardMetrics, FiniteSetTheorems, WellFoundedInduction, TLAPS

-----------------------------------------------------------------------------
(* Sums over finite sets                                                   *)

(* The sum of the values of f over S, as the models take it.               *)
SumOver(f, S) == MapThenSumSet(LAMBDA x : f[x], S)

Pick(s) == CHOOSE x \in s : TRUE

(* g is the recursive function by which the sum is defined, on the subsets *)
(* of S. *)
IsFold(g, f, S) ==
  g = [s \in SUBSET S |-> IF s = {} THEN 0 ELSE f[Pick(s)] + g[s \ {Pick(s)}]]

(* A nonempty family of subsets of a finite set has a minimal member.      *)
(* With the family of the counterexamples this is induction over S.        *)
LEMMA MinimalSubset ==
  ASSUME NEW S, IsFiniteSet(S), NEW T \in SUBSET SUBSET S, T # {}
  PROVE  \E A \in T : \A B \in T : B \subseteq A => B = A
<1>1. IsWellFoundedOn(StrictSubsetOrdering(S), FiniteSubsetsOf(S))
  BY FS_StrictSubsetOrderingWellFounded
<1>2. T \subseteq FiniteSubsetsOf(S)
  BY FS_FiniteSubsetsOfFinite
<1>3. PICK A \in T : \A B \in T : ~(<<B, A>> \in StrictSubsetOrdering(S))
  BY <1>1, <1>2, WFMin
<1> QED
  BY <1>3 DEF StrictSubsetOrdering

LEMMA PickStep ==
  ASSUME NEW s, s # {}
  PROVE  Pick(s) \in s /\ s \ {Pick(s)} \subseteq s /\ s \ {Pick(s)} # s
  BY DEF Pick

(* Two such functions agree where both are defined. *)
LEMMA FoldUnique ==
  ASSUME NEW f, NEW S, NEW T, NEW g, NEW h, NEW U,
         IsFiniteSet(U), U \subseteq S, U \subseteq T,
         IsFold(g, f, S), IsFold(h, f, T)
  PROVE  g[U] = h[U]
<1> DEFINE Bad == {s \in SUBSET U : g[s] # h[s]}
<1>1. CASE Bad = {}
  BY <1>1
<1>2. CASE Bad # {}
  <2>0. Bad \in SUBSET SUBSET U
    OBVIOUS
  <2> HIDE DEF Bad
  <2>1. PICK A \in Bad : \A B \in Bad : B \subseteq A => B = A
    BY <1>2, <2>0, MinimalSubset
  <2> USE DEF Bad
  <2>2. /\ g[A] = IF A = {} THEN 0 ELSE f[Pick(A)] + g[A \ {Pick(A)}]
        /\ h[A] = IF A = {} THEN 0 ELSE f[Pick(A)] + h[A \ {Pick(A)}]
    <3>1. A \in SUBSET S /\ A \in SUBSET T
      OBVIOUS
    <3>2. g[A] = IF A = {} THEN 0 ELSE f[Pick(A)] + g[A \ {Pick(A)}]
      BY <3>1 DEF IsFold
    <3>3. h[A] = IF A = {} THEN 0 ELSE f[Pick(A)] + h[A \ {Pick(A)}]
      BY <3>1 DEF IsFold
    <3> QED
      BY <3>2, <3>3
  <2>3. A # {} /\ g[A \ {Pick(A)}] # h[A \ {Pick(A)}]
    BY <2>2
  <2> QED
    BY <2>1, <2>3, PickStep
<1> QED
  BY <1>1, <1>2

LEMMA FoldExists ==
  ASSUME NEW f, NEW S, IsFiniteSet(S)
  PROVE  \E g : IsFold(g, f, S)
<1> DEFINE Bad == {s \in SUBSET S : ~\E g : IsFold(g, f, s)}
           fold(s) == CHOOSE g : IsFold(g, f, s)
<1>1. CASE Bad = {}
  BY <1>1
<1>2. CASE Bad # {}
  <2>0. Bad \in SUBSET SUBSET S
    OBVIOUS
  <2> HIDE DEF Bad
  <2>1. PICK A \in Bad : \A B \in Bad : B \subseteq A => B = A
    BY <1>2, <2>0, MinimalSubset
  <2> USE DEF Bad
  <2>2. ASSUME NEW s \in SUBSET A, s # A
        PROVE  IsFold(fold(s), f, s) /\ IsFiniteSet(s)
    <3>1. s \notin Bad /\ s \in SUBSET S
      BY <2>1, <2>2
    <3>2. \E g : IsFold(g, f, s)
      BY <3>1
    <3>3. IsFiniteSet(s)
      BY <3>1, FS_Subset
    <3> QED
      BY <3>2, <3>3
  <2> HIDE DEF fold
  <2> DEFINE G == [s \in SUBSET A |->
                     IF s = {} THEN 0
                     ELSE f[Pick(s)] + fold(s \ {Pick(s)})[s \ {Pick(s)}]]
  <2>3. ASSUME NEW s \in SUBSET A, s # A
        PROVE  G[s] = fold(s)[s]
    <3>1. fold(s)[s] = IF s = {} THEN 0 ELSE f[Pick(s)] + fold(s)[s \ {Pick(s)}]
      BY <2>2, <2>3 DEF IsFold
    <3>2. CASE s = {}
      BY <3>1, <3>2
    <3>3. CASE s # {}
      <4> DEFINE r == s \ {Pick(s)}
      <4>1. r \in SUBSET A /\ r # A /\ r \subseteq s
        BY <3>3, PickStep
      <4>2. IsFold(fold(r), f, r) /\ IsFold(fold(s), f, s) /\ IsFiniteSet(r)
        BY <2>2, <2>3, <4>1
      <4> HIDE DEF r
      <4>3. fold(s)[r] = fold(r)[r]
        BY <4>1, <4>2, FoldUnique
      <4>4. G[s] = f[Pick(s)] + fold(r)[r]
        BY <3>3 DEF r
      <4>5. fold(s)[s] = f[Pick(s)] + fold(s)[r]
        BY <3>1, <3>3 DEF r
      <4> QED
        BY <4>3, <4>4, <4>5
    <3> QED
      BY <3>2, <3>3
  <2> HIDE DEF G
  <2>4. ASSUME NEW s \in SUBSET A
        PROVE  G[s] = IF s = {} THEN 0 ELSE f[Pick(s)] + G[s \ {Pick(s)}]
    <3>1. CASE s = {}
      BY <3>1 DEF G
    <3>2. CASE s # {}
      <4> DEFINE r == s \ {Pick(s)}
      <4>1. r \in SUBSET A /\ r # A
        BY <3>2, PickStep
      <4>2. G[s] = f[Pick(s)] + fold(r)[r]
        BY <3>2 DEF G
      <4> HIDE DEF r
      <4>3. G[r] = fold(r)[r]
        BY <2>3, <4>1
      <4>4. G[s] = f[Pick(s)] + G[r]
        BY <4>2, <4>3
      <4> QED
        BY <3>2, <4>4 DEF r
    <3> QED
      BY <3>1, <3>2
  <2>5. G = [s \in SUBSET A |-> IF s = {} THEN 0 ELSE f[Pick(s)] + G[s \ {Pick(s)}]]
    <3>1. G = [s \in SUBSET A |-> G[s]]
      BY DEF G
    <3> QED
      BY <2>4, <3>1
  <2>6. IsFold(G, f, A)
    BY <2>5 DEF IsFold
  <2> QED
    BY <2>1, <2>6
<1> QED
  BY <1>1, <1>2

(* The recursion of the sum. *)
LEMMA SumUnfold ==
  ASSUME NEW f, NEW S, IsFiniteSet(S)
  PROVE  SumOver(f, S) = IF S = {} THEN 0
                         ELSE f[Pick(S)] + SumOver(f, S \ {Pick(S)})
<1> DEFINE fold(s) == CHOOSE g : IsFold(g, f, s)
<1>1. ASSUME NEW s PROVE SumOver(f, s) = fold(s)[s]
  BY DEF SumOver, MapThenSumSet, MapThenFoldSet, IsFold, Pick
<1>2. ASSUME NEW s, IsFiniteSet(s) PROVE IsFold(fold(s), f, s)
  BY <1>2, FoldExists
<1> HIDE DEF fold
<1>3. fold(S)[S] = IF S = {} THEN 0 ELSE f[Pick(S)] + fold(S)[S \ {Pick(S)}]
  BY <1>2 DEF IsFold
<1>4. CASE S = {}
  BY <1>1, <1>3, <1>4
<1>5. CASE S # {}
  <2> DEFINE r == S \ {Pick(S)}
  <2>1. IsFiniteSet(r) /\ r \subseteq S /\ r \subseteq r
    BY FS_Subset
  <2> HIDE DEF r
  <2>2. fold(S)[r] = fold(r)[r]
    BY <1>2, <2>1, FoldUnique
  <2>3. SumOver(f, S) = f[Pick(S)] + SumOver(f, r)
    BY <1>1, <1>3, <1>5, <2>2 DEF r
  <2> QED
    BY <1>5, <2>3 DEF r
<1> QED
  BY <1>4, <1>5

LEMMA SumEmpty ==
  ASSUME NEW f
  PROVE  SumOver(f, {}) = 0
BY SumUnfold, FS_EmptySet

(* Induction over a finite set: what holds of {} and, with one element     *)
(* less, of every nonempty subset, holds of all subsets. *)
LEMMA SubsetInduction ==
  ASSUME NEW S, IsFiniteSet(S), NEW Good, {} \in Good,
         \A s \in SUBSET S : s # {} /\ s \ {Pick(s)} \in Good => s \in Good
  PROVE  \A s \in SUBSET S : s \in Good
<1> DEFINE Bad == {s \in SUBSET S : s \notin Good}
<1>1. Bad \in SUBSET SUBSET S
  OBVIOUS
<1>2. ASSUME Bad # {} PROVE FALSE
  <2> HIDE DEF Bad
  <2>1. PICK A \in Bad : \A B \in Bad : B \subseteq A => B = A
    BY <1>1, <1>2, MinimalSubset
  <2> USE DEF Bad
  <2>2. A # {} /\ A \in SUBSET S /\ A \notin Good
    OBVIOUS
  <2>3. A \ {Pick(A)} \in SUBSET S /\ A \ {Pick(A)} \subseteq A /\ A \ {Pick(A)} # A
    BY <2>2, PickStep
  <2>4. A \ {Pick(A)} \in Good
    BY <2>1, <2>3
  <2> QED
    BY <2>2, <2>4
<1> QED
  BY <1>2

LEMMA SumType ==
  ASSUME NEW D, NEW f \in [D -> Int], NEW S \in SUBSET D, IsFiniteSet(S)
  PROVE  SumOver(f, S) \in Int
<1> DEFINE Good == {s \in SUBSET S : SumOver(f, s) \in Int}
<1>1. {} \in Good
  BY SumEmpty
<1>2. ASSUME NEW s \in SUBSET S, s # {}, s \ {Pick(s)} \in Good PROVE s \in Good
  <2>1. SumOver(f, s) = f[Pick(s)] + SumOver(f, s \ {Pick(s)})
    BY <1>2, SumUnfold, FS_Subset
  <2>2. f[Pick(s)] \in Int /\ SumOver(f, s \ {Pick(s)}) \in Int
    BY <1>2, PickStep
  <2> QED
    BY <2>1, <2>2
<1> HIDE DEF Good
<1>3. S \in Good
  BY <1>1, <1>2, SubsetInduction
<1> QED
  BY <1>3 DEF Good

(* One value changes by d, and the sum with it.                            *)
LEMMA SumChange ==
  ASSUME NEW S, IsFiniteSet(S), NEW f \in [S -> Int], NEW i \in S, NEW d \in Int
  PROVE  SumOver([f EXCEPT ![i] = f[i] + d], S) = SumOver(f, S) + d
<1> DEFINE g == [f EXCEPT ![i] = f[i] + d]
<1>0. g \in [S -> Int] /\ g[i] = f[i] + d /\ \A j \in S \ {i} : g[j] = f[j]
  OBVIOUS
<1> HIDE DEF g
<1> DEFINE Good == {s \in SUBSET S :
                      SumOver(g, s) = SumOver(f, s) + (IF i \in s THEN d ELSE 0)}
<1>1. {} \in Good
  BY SumEmpty
<1>2. ASSUME NEW s \in SUBSET S, s # {}, s \ {Pick(s)} \in Good PROVE s \in Good
  <2> DEFINE x == Pick(s)
             r == s \ {Pick(s)}
  <2>1. x \in s /\ x \in S /\ r \in SUBSET S /\ IsFiniteSet(s) /\ IsFiniteSet(r)
    BY <1>2, PickStep, FS_Subset
  <2>2. SumOver(f, s) = f[x] + SumOver(f, r) /\ SumOver(g, s) = g[x] + SumOver(g, r)
    BY <1>2, <2>1, SumUnfold
  <2>3. SumOver(f, r) \in Int /\ SumOver(g, r) \in Int
    BY <1>0, <2>1, SumType
  <2>4. SumOver(g, r) = SumOver(f, r) + (IF i \in r THEN d ELSE 0)
    BY <1>2
  <2>5. f[x] \in Int /\ g[x] \in Int
    BY <1>0, <2>1
  <2>6. CASE x = i
    BY <1>0, <2>1, <2>2, <2>3, <2>4, <2>5, <2>6
  <2>7. CASE x # i
    BY <1>0, <2>1, <2>2, <2>3, <2>4, <2>5, <2>7
  <2> QED
    BY <2>6, <2>7
<1> HIDE DEF Good
<1>3. S \in Good
  BY <1>1, <1>2, SubsetInduction
<1> QED
  BY <1>3 DEF Good, g

LEMMA SumZero ==
  ASSUME NEW S, IsFiniteSet(S)
  PROVE  SumOver([x \in S |-> 0], S) = 0
<1> DEFINE f == [x \in S |-> 0]
           Good == {s \in SUBSET S : SumOver(f, s) = 0}
<1>1. {} \in Good
  BY SumEmpty
<1>2. ASSUME NEW s \in SUBSET S, s # {}, s \ {Pick(s)} \in Good PROVE s \in Good
  <2>1. SumOver(f, s) = f[Pick(s)] + SumOver(f, s \ {Pick(s)})
    BY <1>2, SumUnfold, FS_Subset
  <2>2. f[Pick(s)] = 0 /\ SumOver(f, s \ {Pick(s)}) = 0
    BY <1>2, PickStep
  <2> QED
    BY <2>1, <2>2
<1> HIDE DEF Good
<1>3. S \in Good
  BY <1>1, <1>2, SubsetInduction
<1> QED
  BY <1>3 DEF Good

(* Any element may be taken off first. *)
LEMMA SumRemove ==
  ASSUME NEW D, IsFiniteSet(D), NEW f \in [D -> Int]
  PROVE  \A s \in SUBSET D : \A x \in s : SumOver(f, s) = f[x] + SumOver(f, s \ {x})
<1> DEFINE Bad == {s \in SUBSET D : \E x \in s : SumOver(f, s) # f[x] + SumOver(f, s \ {x})}
<1>1. ASSUME Bad # {} PROVE FALSE
  <2>0. Bad \in SUBSET SUBSET D
    OBVIOUS
  <2> HIDE DEF Bad
  <2>1. PICK s \in Bad : \A B \in Bad : B \subseteq s => B = s
    BY <1>1, <2>0, MinimalSubset
  <2> USE DEF Bad
  <2>2. PICK x \in s : SumOver(f, s) # f[x] + SumOver(f, s \ {x})
    OBVIOUS
  <2>3. PICK y : y = Pick(s)
    OBVIOUS
  <2>4. y \in s /\ s \in SUBSET D /\ IsFiniteSet(s)
    BY <2>2, <2>3, PickStep, FS_Subset
  <2>5. SumOver(f, s) = f[y] + SumOver(f, s \ {y})
    BY <2>2, <2>3, <2>4, SumUnfold
  <2>6. x # y
    BY <2>2, <2>5
  <2>7. s \ {x} \notin Bad /\ s \ {y} \notin Bad
    BY <2>1, <2>2, <2>4
  <2>8. SumOver(f, s \ {y}) = f[x] + SumOver(f, (s \ {y}) \ {x})
    BY <2>2, <2>4, <2>6, <2>7
  <2>9. SumOver(f, s \ {x}) = f[y] + SumOver(f, (s \ {x}) \ {y})
    BY <2>2, <2>4, <2>6, <2>7
  <2>10. PICK r \in SUBSET D : r = (s \ {x}) \ {y} /\ r = (s \ {y}) \ {x}
    BY <2>4, (s \ {x}) \ {y} = (s \ {y}) \ {x}
  <2>11. SumOver(f, r) \in Int /\ f[x] \in Int /\ f[y] \in Int
    BY <2>2, <2>4, <2>10, SumType, FS_Subset
  <2>12. SumOver(f, s \ {y}) = f[x] + SumOver(f, r) /\ SumOver(f, s \ {x}) = f[y] + SumOver(f, r)
    BY <2>8, <2>9, <2>10
  <2>13. PICK a \in Int, b \in Int, c \in Int : a = f[x] /\ b = f[y] /\ c = SumOver(f, r)
    BY <2>11
  <2>14. SumOver(f, s) = b + (a + c) /\ f[x] + SumOver(f, s \ {x}) = a + (b + c)
    BY <2>5, <2>12, <2>13
  <2> QED
    BY <2>2, <2>14
<1> QED
  BY <1>1

(* Sums of disjoint sets add up. *)
LEMMA SumDisjoint ==
  ASSUME NEW D, IsFiniteSet(D), NEW f \in [D -> Int],
         NEW S \in SUBSET D, NEW T \in SUBSET D, S \cap T = {}
  PROVE  SumOver(f, S \cup T) = SumOver(f, S) + SumOver(f, T)
<1> DEFINE Good == {u \in SUBSET D :
                      u \subseteq S \cup T =>
                        SumOver(f, u) = SumOver(f, u \cap S) + SumOver(f, u \cap T)}
<1>1. {} \in Good
  <2>1. {} \cap S = {} /\ {} \cap T = {}
    OBVIOUS
  <2> QED
    BY <2>1, SumEmpty
<1>2. ASSUME NEW u \in SUBSET D, u # {}, u \ {Pick(u)} \in Good PROVE u \in Good
  <2> SUFFICES ASSUME u \subseteq S \cup T
               PROVE  SumOver(f, u) = SumOver(f, u \cap S) + SumOver(f, u \cap T)
    OBVIOUS
  <2>1. PICK x \in u : x = Pick(u)
    BY <1>2, PickStep
  <2>2. SumOver(f, u) = f[x] + SumOver(f, u \ {x})
    BY <2>1, SumRemove
  <2>3. SumOver(f, u \ {x}) = SumOver(f, (u \ {x}) \cap S) + SumOver(f, (u \ {x}) \cap T)
    BY <1>2, <2>1
  <2>4. /\ SumOver(f, (u \ {x}) \cap S) \in Int /\ SumOver(f, (u \ {x}) \cap T) \in Int
        /\ f[x] \in Int
    BY <2>1, FS_Subset, SumType
  <2>5. CASE x \in S
    <3>1. (u \ {x}) \cap S = (u \cap S) \ {x} /\ (u \ {x}) \cap T = u \cap T
      BY <2>5
    <3>2. SumOver(f, u \cap S) = f[x] + SumOver(f, (u \cap S) \ {x})
      BY <2>1, <2>5, SumRemove
    <3>3. PICK a \in Int, b \in Int, c \in Int :
            a = f[x] /\ b = SumOver(f, (u \cap S) \ {x}) /\ c = SumOver(f, u \cap T)
      BY <2>4, <3>1
    <3>4. SumOver(f, u \ {x}) = b + c
      BY <2>3, <3>1, <3>3
    <3> QED
      BY <2>2, <3>2, <3>3, <3>4
  <2>6. CASE x \in T
    <3>1. (u \ {x}) \cap T = (u \cap T) \ {x} /\ (u \ {x}) \cap S = u \cap S
      BY <2>6
    <3>2. SumOver(f, u \cap T) = f[x] + SumOver(f, (u \cap T) \ {x})
      BY <2>1, <2>6, SumRemove
    <3>3. PICK a \in Int, b \in Int, c \in Int :
            a = f[x] /\ b = SumOver(f, (u \cap T) \ {x}) /\ c = SumOver(f, u \cap S)
      BY <2>4, <3>1
    <3>4. SumOver(f, u \ {x}) = c + b
      BY <2>3, <3>1, <3>3
    <3> QED
      BY <2>2, <3>2, <3>3, <3>4
  <2> QED
    BY <2>1, <2>5, <2>6
<1> HIDE DEF Good
<1>3. S \cup T \in Good
  BY <1>1, <1>2, SubsetInduction
<1>4. (S \cup T) \cap S = S /\ (S \cup T) \cap T = T
  OBVIOUS
<1> QED
  BY <1>3, <1>4 DEF Good

(* A sum of positive numbers is positive unless it is empty. *)
LEMMA SumPositive ==
  ASSUME NEW D, IsFiniteSet(D), NEW f \in [D -> Nat \ {0}], NEW S \in SUBSET D
  PROVE  SumOver(f, S) \in Nat /\ (SumOver(f, S) = 0 <=> S = {})
<1> DEFINE Good == {s \in SUBSET D : SumOver(f, s) \in Nat /\ (SumOver(f, s) = 0 <=> s = {})}
<1>1. {} \in Good
  BY SumEmpty
<1>2. ASSUME NEW s \in SUBSET D, s # {}, s \ {Pick(s)} \in Good PROVE s \in Good
  <2>1. SumOver(f, s) = f[Pick(s)] + SumOver(f, s \ {Pick(s)})
    BY <1>2, SumUnfold, FS_Subset
  <2>2. f[Pick(s)] \in Nat \ {0} /\ SumOver(f, s \ {Pick(s)}) \in Nat
    BY <1>2, PickStep
  <2> QED
    BY <1>2, <2>1, <2>2
<1> HIDE DEF Good
<1>3. S \in Good
  BY <1>1, <1>2, SubsetInduction
<1> QED
  BY <1>3 DEF Good

(* Shares that are rounded down lose less than one each. *)
LEMMA FloorSum ==
  ASSUME NEW D, IsFiniteSet(D), NEW a \in [D -> Nat], NEW q \in [D -> Nat],
         NEW A \in Nat \ {0},
         \A x \in D : A * q[x] <= 100 * a[x] /\ 100 * a[x] <= A * q[x] + A
  PROVE  /\ A * SumOver(q, D) <= 100 * SumOver(a, D)
         /\ 100 * SumOver(a, D) <= A * (SumOver(q, D) + Cardinality(D))
<1> DEFINE Good == {s \in SUBSET D :
                      /\ A * SumOver(q, s) <= 100 * SumOver(a, s)
                      /\ 100 * SumOver(a, s) <= A * (SumOver(q, s) + Cardinality(s))}
<1>1. {} \in Good
  BY SumEmpty, FS_EmptySet
<1>2. ASSUME NEW s \in SUBSET D, s # {}, s \ {Pick(s)} \in Good PROVE s \in Good
  <2>1. PICK x \in s : x = Pick(s)
    BY <1>2, PickStep
  <2>2. PICK r \in SUBSET D : r = s \ {x}
    OBVIOUS
  <2>3. IsFiniteSet(s) /\ IsFiniteSet(r)
    BY FS_Subset
  <2>4. SumOver(q, s) = q[x] + SumOver(q, r) /\ SumOver(a, s) = a[x] + SumOver(a, r)
    BY <1>2, <2>1, <2>2, <2>3, SumUnfold
  <2>5. Cardinality(r) = Cardinality(s) - 1 /\ Cardinality(s) \in Nat
    BY <2>1, <2>2, <2>3, FS_RemoveElement, FS_CardinalityType
  <2>6. SumOver(q, r) \in Int /\ SumOver(a, r) \in Int
    BY <2>3, SumType
  <2>7. /\ A * SumOver(q, r) <= 100 * SumOver(a, r)
        /\ 100 * SumOver(a, r) <= A * (SumOver(q, r) + Cardinality(r))
    BY <1>2, <2>1, <2>2
  <2>8. PICK qx \in Int, ax \in Int, Q \in Int, B \in Int, n \in Int :
          /\ qx = q[x] /\ ax = a[x] /\ Q = SumOver(q, r) /\ B = SumOver(a, r)
          /\ n = Cardinality(r)
    BY <2>1, <2>5, <2>6
  <2>9. A * (qx + Q) = A * qx + A * Q
    OBVIOUS
  <2>10. A * ((qx + Q) + (n + 1)) = A * qx + A + A * (Q + n)
    OBVIOUS
  <2>11. A * qx <= 100 * ax /\ 100 * ax <= A * qx + A
    BY <2>1, <2>8
  <2>12. A * (qx + Q) <= 100 * (ax + B)
    BY <2>7, <2>8, <2>9, <2>11
  <2>13. 100 * (ax + B) <= A * ((qx + Q) + (n + 1))
    BY <2>7, <2>8, <2>10, <2>11
  <2>14. Cardinality(s) = n + 1
    BY <2>5, <2>8
  <2> QED
    BY <2>4, <2>8, <2>12, <2>13, <2>14
<1> HIDE DEF Good
<1>3. D \in Good
  BY <1>1, <1>2, SubsetInduction
<1> QED
  BY <1>3 DEF Good

-----------------------------------------------------------------------------
(* InfluencerSales: types and clashes                                      *)

(* The transactions that will clash once the row with key k exists. *)
Exposed(k) == {c \in Coupons : /\ tx[c].at = "sales" /\ tx[c].kind = "confirm"
                               /\ tx[c].row = k /\ ~tx[c].found}

(* Before a row exists nothing has clashed on it; afterwards, those        *)
(* that have clashed and those that still may are fewer than the coupons.  *)
ClashInv ==
  \A k \in SalesRows :
    IF k \in records THEN clashes[k] + Cardinality(Exposed(k)) < Cardinality(Coupons)
                     ELSE clashes[k] = 0

IInv == TypeOK /\ ClashInv

LEMMA ExposedFinite ==
  /\ Cardinality(Coupons) \in Nat
  /\ \A k \in SalesRows : IsFiniteSet(Exposed(k)) /\ Cardinality(Exposed(k)) \in Nat
  BY SalesAssumption, FS_CardinalityType, FS_Subset DEF Exposed

LEMMA InitIInv == Init => IInv
<1> SUFFICES ASSUME Init
             PROVE  IInv
  OBVIOUS
<1>1. TypeOK
  BY SalesAssumption DEF Init, TypeOK, Months, SalesRows
<1>2. ClashInv
  BY DEF Init, ClashInv
<1> QED
  BY <1>1, <1>2 DEF IInv

(* A step that leaves the tables alone keeps the invariant if no           *)
(* transaction becomes exposed by it. *)
LEMMA QuietStep ==
  ASSUME IInv, TypeOK', UNCHANGED <<records, clashes>>,
         \A k \in records : Exposed(k)' \subseteq Exposed(k)
  PROVE  IInv'
<1>1. ASSUME NEW k \in SalesRows, k \in records
      PROVE  clashes[k] + Cardinality(Exposed(k)') < Cardinality(Coupons)
  <2>1. Cardinality(Exposed(k)') <= Cardinality(Exposed(k)) /\ Cardinality(Exposed(k)') \in Nat
    BY <1>1, ExposedFinite, FS_Subset, FS_CardinalityType
  <2>2. clashes[k] + Cardinality(Exposed(k)) < Cardinality(Coupons) /\ clashes[k] \in Nat
    BY <1>1 DEF IInv, ClashInv, TypeOK
  <2> QED
    BY <1>1, <2>1, <2>2, ExposedFinite
<1>2. ClashInv'
  <2> SUFFICES ASSUME NEW k \in SalesRows
               PROVE  IF k \in records
                      THEN clashes[k] + Cardinality(Exposed(k)') < Cardinality(Coupons)
                      ELSE clashes[k] = 0
    BY DEF ClashInv
  <2> QED
    BY <1>1 DEF IInv, ClashInv
<1> QED
  BY <1>2 DEF IInv

LEMMA OrderStep ==
  ASSUME IInv, NEW o \in CouponOrders,
         Deliver(o) \/ \E c \in Coupons : CreateCouponOrder(o, c)
  PROVE  IInv'
<1>1. order' \in [CouponOrders -> OrderRow \cup {NoRow}]
  <2>1. ASSUME NEW c \in Coupons, CreateCouponOrder(o, c)
        PROVE  order' \in [CouponOrders -> OrderRow \cup {NoRow}]
    BY <2>1 DEF CreateCouponOrder, IInv, TypeOK, OrderRow
  <2>2. CASE Deliver(o)
    <3>1. order[o] \in OrderRow
      BY <2>2 DEF Deliver, IInv, TypeOK, NoRow
    <3>2. [order[o] EXCEPT !.at = "confirming"] \in OrderRow
      BY <3>1 DEF OrderRow
    <3> QED
      BY <2>2, <3>2 DEF Deliver, IInv, TypeOK
  <2> QED
    BY <2>1, <2>2
<1>2. UNCHANGED <<month, tx, tables, counters>>
  BY DEF CreateCouponOrder, Deliver
<1>3. TypeOK'
  BY <1>1, <1>2 DEF IInv, TypeOK, tables, counters
<1> QED
  BY <1>2, <1>3, QuietStep DEF tables, Exposed

LEMMA BeginStep ==
  ASSUME IInv, NEW o \in CouponOrders, BeginConfirm(o) \/ BeginRevert(o)
  PROVE  IInv'
<1>1. order[o] \in OrderRow
  BY DEF BeginConfirm, BeginRevert, IInv, TypeOK, NoRow
<1> DEFINE c == order[o].coupon
<1>2. PICK t \in Tx : t.at = "coupon" /\ tx' = [tx EXCEPT ![c] = t]
  <2>1. month \in Months /\ order[o].month \in Months
    BY <1>1 DEF IInv, TypeOK, OrderRow
  <2>2. PICK kind \in {"confirm", "revert"}, i \in Influencers, m \in Months :
          tx' = [tx EXCEPT ![c] = [at |-> "coupon", kind |-> kind, order |-> o,
                                   row |-> <<i, m>>, found |-> FALSE]]
    BY <2>1 DEF BeginConfirm, BeginRevert, Begin, SaleMonth
  <2>3. <<i, m>> \in SalesRows
    BY DEF SalesRows
  <2> QED
    BY <2>2, <2>3 DEF Tx
<1>3. c \in Coupons
  BY <1>1 DEF OrderRow
<1>4. order' \in [CouponOrders -> OrderRow \cup {NoRow}]
  <2>1. [order[o] EXCEPT !.at = "confirmed"] \in OrderRow
    BY <1>1 DEF OrderRow
  <2> QED
    BY <2>1 DEF BeginConfirm, BeginRevert, IInv, TypeOK
<1> HIDE DEF c
<1>5. tx' \in [Coupons -> Tx \cup {NoTx}]
  BY <1>2, <1>3 DEF IInv, TypeOK
<1>6. reverts' \in 0..MaxReverts
  BY SalesAssumption DEF BeginConfirm, BeginRevert, counters, IInv, TypeOK
<1>7. UNCHANGED <<month, tables, faults>>
  BY DEF BeginConfirm, BeginRevert, counters
<1>8. TypeOK'
  BY <1>4, <1>5, <1>6, <1>7 DEF IInv, TypeOK, tables
<1>9. \A k \in records : Exposed(k)' \subseteq Exposed(k)
  BY <1>2, <1>3 DEF IInv, TypeOK, Exposed
<1> QED
  BY <1>7, <1>8, <1>9, QuietStep DEF tables

LEMMA FindStep ==
  ASSUME IInv, NEW c \in Coupons, FindRecord(c)
  PROVE  IInv'
<1>1. tx[c] \in Tx /\ tx[c].at = "coupon"
  BY DEF FindRecord, IInv, TypeOK, NoTx
<1>2. PICK t \in Tx : /\ tx' = [tx EXCEPT ![c] = t]
                      /\ t.row = tx[c].row /\ (t.found <=> t.row \in records)
  <2>1. [tx[c] EXCEPT !.at = "sales", !.found = RowFound(tx[c].row)] \in Tx
    <3>1. RowFound(tx[c].row) \in BOOLEAN
      BY SMT DEF RowFound
    <3>2. ASSUME NEW r \in BOOLEAN
          PROVE  [tx[c] EXCEPT !.at = "sales", !.found = r] \in Tx
      BY <1>1 DEF Tx
    <3> QED
      BY <3>1, <3>2
  <2>2. /\ [tx[c] EXCEPT !.at = "sales", !.found = RowFound(tx[c].row)].row = tx[c].row
        /\ [tx[c] EXCEPT !.at = "sales", !.found = RowFound(tx[c].row)].found
             = RowFound(tx[c].row)
    BY <1>1 DEF Tx
  <2>3. tx' = [tx EXCEPT ![c] =
                 [tx[c] EXCEPT !.at = "sales", !.found = RowFound(tx[c].row)]]
    BY DEF FindRecord, IInv, TypeOK
  <2> QED
    BY <2>1, <2>2, <2>3 DEF RowFound
<1>3. TypeOK'
  BY <1>2 DEF FindRecord, IInv, TypeOK, tables, counters
<1>4. \A k \in records : Exposed(k)' \subseteq Exposed(k)
  BY <1>2 DEF IInv, TypeOK, Exposed
<1> QED
  BY <1>3, <1>4, QuietStep DEF FindRecord, tables

(* A transaction that ends is no longer exposed. *)
LEMMA EndExposed ==
  ASSUME TypeOK, NEW c \in Coupons, tx' = [tx EXCEPT ![c] = NoTx]
  PROVE  /\ tx' \in [Coupons -> Tx \cup {NoTx}]
         /\ \A k \in SalesRows : Exposed(k)' = Exposed(k) \ {c}
  BY DEF TypeOK, Exposed, NoTx

LEMMA RollbackStep ==
  ASSUME IInv, NEW c \in Coupons, Rollback(c)
  PROVE  IInv'
<1>1. faults' \in 0..MaxFaults
  BY SalesAssumption DEF Rollback, IInv, TypeOK
<1>2. TypeOK'
  BY <1>1, EndExposed DEF Rollback, IInv, TypeOK, tables
<1>3. \A k \in records : Exposed(k)' \subseteq Exposed(k)
  BY EndExposed DEF Rollback, IInv, TypeOK
<1> QED
  BY <1>2, <1>3, QuietStep DEF Rollback, tables

LEMMA CommitStep ==
  ASSUME IInv, NEW c \in Coupons, Commit(c)
  PROVE  IInv'
<1>1. /\ tx[c] \in Tx /\ tx[c].at = "sales" /\ tx' = [tx EXCEPT ![c] = NoTx]
      /\ UNCHANGED <<month, order, counters>>
  BY DEF Commit, IInv, TypeOK, NoTx
<1>2. Sign(tx[c].kind) \in Int
  BY DEF Sign
<1>n. PICK n \in SalesRows : n = tx[c].row
  BY <1>1 DEF Tx
<1> USE <1>n
<1>3. CASE UpdateRecord(c) \/ SkipRecord(c)
  <2>1. used' \in [Coupons -> Int] /\ total' \in [SalesRows -> Int] /\ skipped' \in Nat
    BY <1>2, <1>3 DEF UpdateRecord, SkipRecord, IInv, TypeOK
  <2>2. UNCHANGED <<records, clashes>>
    BY <1>3 DEF UpdateRecord, SkipRecord
  <2>3. TypeOK'
    BY <1>1, <2>1, <2>2, EndExposed DEF IInv, TypeOK, counters
  <2>4. \A k \in records : Exposed(k)' \subseteq Exposed(k)
    BY <1>1, EndExposed DEF IInv, TypeOK
  <2> QED
    BY <2>2, <2>3, <2>4, QuietStep
<1>4. CASE CreateRecord(c)
  <2>1. /\ c \in Exposed(n) /\ n \notin records /\ records' = records \cup {n}
        /\ UNCHANGED <<clashes, skipped>>
    BY <1>1, <1>4 DEF CreateRecord, Exposed
  <2>2. used' \in [Coupons -> Int] /\ total' \in [SalesRows -> Int]
    BY <1>2, <1>4 DEF CreateRecord, IInv, TypeOK
  <2>3. TypeOK'
    BY <1>1, <1>2, <2>1, <2>2, EndExposed DEF IInv, TypeOK, counters
  <2>4. Cardinality(Exposed(n)') < Cardinality(Coupons)
    <3>1. Exposed(n)' = Exposed(n) \ {c} /\ Exposed(n) \subseteq Coupons
      BY <1>1, <1>2, EndExposed DEF IInv, Exposed
    <3>2. Cardinality(Exposed(n) \ {c}) = Cardinality(Exposed(n)) - 1
      BY <1>2, <2>1, ExposedFinite, FS_RemoveElement
    <3>3. Cardinality(Exposed(n)) <= Cardinality(Coupons)
      BY <3>1, SalesAssumption, FS_Subset
    <3>4. PICK x \in Nat : x = Cardinality(Exposed(n))
      BY ExposedFinite
    <3>5. PICK a \in Nat : a = Cardinality(Coupons)
      BY ExposedFinite
    <3>6. Cardinality(Exposed(n)') = x - 1
      BY <3>1, <3>2, <3>4
    <3> QED
      BY <3>3, <3>4, <3>5, <3>6
  <2>5. clashes[n] = 0 /\ n \in records'
    BY <1>2, <2>1 DEF IInv, ClashInv
  <2>6. Cardinality(Exposed(n)') \in Nat
    <3>1. Exposed(n)' = Exposed(n) \ {c}
      BY <1>1, <1>2, EndExposed DEF IInv
    <3>2. IsFiniteSet(Exposed(n) \ {c})
      BY <1>2, ExposedFinite, FS_RemoveElement
    <3> QED
      BY <3>1, <3>2, FS_CardinalityType
  <2>7. ASSUME NEW k \in SalesRows, k # n
        PROVE  Cardinality(Exposed(k)') = Cardinality(Exposed(k)) /\ (k \in records' <=> k \in records)
    <3>1. c \notin Exposed(k)
      BY <2>7 DEF Exposed
    <3>2. Exposed(k)' = Exposed(k) \ {c}
      BY <1>1, EndExposed DEF IInv
    <3>3. Exposed(k)' = Exposed(k)
      BY <3>1, <3>2
    <3> QED
      BY <2>1, <2>7, <3>3
  <2>8. ClashInv'
    <3> SUFFICES ASSUME NEW k \in SalesRows
                 PROVE  IF k \in records'
                        THEN clashes'[k] + Cardinality(Exposed(k)') < Cardinality(Coupons)
                        ELSE clashes'[k] = 0
      BY DEF ClashInv
    <3>1. CASE k = n
      BY <2>1, <2>4, <2>5, <2>6, <3>1, ExposedFinite
    <3>2. CASE k # n
      BY <2>1, <2>7, <3>2 DEF IInv, ClashInv
    <3> QED
      BY <3>1, <3>2
  <2> QED
    BY <2>3, <2>8 DEF IInv
<1>5. CASE Clash(c)
  <2>1. /\ c \in Exposed(n) /\ n \in records /\ UNCHANGED <<records, total, skipped>>
        /\ clashes' = [clashes EXCEPT ![n] = @ + 1]
    BY <1>1, <1>5 DEF Clash, Exposed
  <2>2. used' \in [Coupons -> Int] /\ clashes' \in [SalesRows -> Nat]
    BY <1>2, <1>5, <2>1 DEF Clash, AfterClash, IInv, TypeOK
  <2>3. TypeOK'
    BY <1>1, <2>1, <2>2, EndExposed DEF IInv, TypeOK, counters
  <2>4. Cardinality(Exposed(n)') = Cardinality(Exposed(n)) - 1
    <3>1. Exposed(n)' = Exposed(n) \ {c}
      BY <1>1, EndExposed DEF IInv
    <3>2. Cardinality(Exposed(n) \ {c}) = Cardinality(Exposed(n)) - 1
      BY <2>1, ExposedFinite, FS_RemoveElement
    <3> QED
      BY <3>1, <3>2
  <2>5. ASSUME NEW k \in SalesRows, k # n
        PROVE  Cardinality(Exposed(k)') = Cardinality(Exposed(k)) /\ clashes'[k] = clashes[k]
    <3>1. c \notin Exposed(k)
      BY <2>5 DEF Exposed
    <3>2. Exposed(k)' = Exposed(k) \ {c}
      BY <1>1, EndExposed DEF IInv
    <3>3. Exposed(k)' = Exposed(k)
      BY <3>1, <3>2
    <3> QED
      BY <2>1, <2>5, <3>3 DEF IInv, TypeOK
  <2>6. clashes'[n] = clashes[n] + 1 /\ clashes[n] \in Nat
    BY <1>2, <2>1 DEF IInv, TypeOK
  <2>7. ClashInv'
    <3> SUFFICES ASSUME NEW k \in SalesRows
                 PROVE  IF k \in records
                        THEN clashes'[k] + Cardinality(Exposed(k)') < Cardinality(Coupons)
                        ELSE clashes'[k] = 0
      BY <2>1 DEF ClashInv
    <3>1. CASE k = n
      BY <2>1, <2>4, <2>6, <3>1, ExposedFinite DEF IInv, ClashInv
    <3>2. CASE k # n
      BY <2>5, <3>2 DEF IInv, ClashInv
    <3> QED
      BY <3>1, <3>2
  <2> QED
    BY <2>3, <2>7 DEF IInv
<1> QED
  BY <1>3, <1>4, <1>5 DEF Commit

LEMMA NextIInv == IInv /\ [Next]_vars => IInv'
<1> SUFFICES ASSUME IInv, [Next]_vars
             PROVE  IInv'
  OBVIOUS
<1>1. CASE NextMonth
  <2>1. TypeOK'
    BY <1>1, SalesAssumption DEF NextMonth, IInv, TypeOK, Months, tables, counters
  <2> QED
    BY <1>1, <2>1, QuietStep DEF NextMonth, tables, Exposed
<1>2. CASE UNCHANGED vars
  <2>1. TypeOK'
    BY <1>2 DEF vars, IInv, TypeOK
  <2> QED
    BY <1>2, <2>1, QuietStep DEF vars, Exposed
<1> QED
  BY <1>1, <1>2, OrderStep, BeginStep, FindStep, CommitStep, RollbackStep DEF Next

THEOREM SpecIInv == Spec => []IInv
  BY InitIInv, NextIInv, PTL DEF Spec

(* Every variable keeps its type. *)
THEOREM SalesTypeCorrect == Spec => []TypeOK
<1>1. IInv => TypeOK
  BY DEF IInv
<1> QED
  BY <1>1, SpecIInv, PTL

(* Fewer confirmations for an influencer and a month are lost to the       *)
(* unique index of InfluencerMonthlySales than there are coupons.          *)
THEOREM FewClashes == Spec => []ClashesBounded
<1>1. IInv => ClashesBounded
  <2> SUFFICES ASSUME IInv, NEW k \in SalesRows, clashes[k] > 0
               PROVE  clashes[k] < Cardinality(Coupons)
    BY DEF ClashesBounded
  <2>1. clashes[k] + Cardinality(Exposed(k)) < Cardinality(Coupons) /\ clashes[k] \in Nat
    BY DEF IInv, ClashInv, TypeOK
  <2> QED
    BY <2>1, ExposedFinite
<1> QED
  BY <1>1, SpecIInv, PTL

-----------------------------------------------------------------------------
(* InfluencerSales: the sums                                               *)

(* Only a row that exists has sales, and a transaction that has found its  *)
(* row finds it there when it ends. *)
RowsStand ==
  /\ \A k \in SalesRows \ records : total[k] = 0
  /\ \A c \in Coupons :
       tx[c].at = "sales" /\ tx[c].found => tx[c].row \in records

SalesInv == RowsStand /\ SalesAgree

LEMMA RowsFinite == IsFiniteSet(SalesRows) /\ IsFiniteSet(Coupons)
<1>1. IsFiniteSet(Months) /\ IsFiniteSet(Influencers) /\ IsFiniteSet(Coupons)
  BY SalesAssumption, FS_Interval DEF Months
<1> QED
  BY <1>1, FS_Product DEF SalesRows

LEMMA SumOfRows ==
  ASSUME NEW S, IsFiniteSet(S), NEW f \in [S -> Int]
  PROVE  SumOf(f) = SumOver(f, S) /\ SumOf(f) \in Int
<1>1. SumOf(f) = SumOver(f, S)
  BY DEF SumOf, SumOver
<1>2. S \in SUBSET S
  OBVIOUS
<1>3. SumOver(f, S) \in Int
  BY <1>2, SumType
<1> QED
  BY <1>1, <1>3

LEMMA SumOfChange ==
  ASSUME NEW S, IsFiniteSet(S), NEW f \in [S -> Int], NEW i \in S, NEW d \in Int
  PROVE  SumOf([f EXCEPT ![i] = f[i] + d]) = SumOf(f) + d
<1>1. [f EXCEPT ![i] = f[i] + d] \in [S -> Int]
  OBVIOUS
<1>2. SumOf([f EXCEPT ![i] = f[i] + d]) = SumOver([f EXCEPT ![i] = f[i] + d], S)
  BY <1>1, SumOfRows
<1>3. SumOf(f) = SumOver(f, S)
  BY SumOfRows
<1>4. SumOver([f EXCEPT ![i] = f[i] + d], S) = SumOver(f, S) + d
  BY SumChange
<1> QED
  BY <1>2, <1>3, <1>4

(* The sums of the next state are those of its tables. *)
LEMMA NextSums ==
  SumOf(total)' = SumOf(total') /\ SumOf(used)' = SumOf(used')
BY DEF SumOf, MapThenSumSet, MapThenFoldSet

(* A transaction ends with the row of its coupon changed by d, that of the *)
(* sales by e, and the skipped reversals by the difference.                *)
LEMMA TablesStep ==
  ASSUME TypeOK, SalesAgree, NEW c \in Coupons, NEW n \in SalesRows,
         NEW d \in Int, NEW e \in Int,
         used' = [used EXCEPT ![c] = used[c] + d],
         total' = [total EXCEPT ![n] = total[n] + e],
         skipped' = skipped + (e - d)
  PROVE  SalesAgree'
<1>1. IsFiniteSet(SalesRows) /\ IsFiniteSet(Coupons)
  BY RowsFinite
<1>2. used \in [Coupons -> Int] /\ total \in [SalesRows -> Int] /\ skipped \in Nat
  BY DEF TypeOK
<1>3. SumOf(total') = SumOf(total) + e
  BY <1>1, <1>2, SumOfChange, ZenonT(60)
<1>6. SumOf(used') = SumOf(used) + d
  BY <1>1, <1>2, SumOfChange, ZenonT(60)
<1>4. SumOf(total) \in Int /\ SumOf(used) \in Int
  BY <1>1, <1>2, SumOfRows
<1>5. SumOf(total') = SumOf(used') + skipped'
  BY <1>2, <1>3, <1>4, <1>6 DEF SalesAgree
<1> QED
  BY <1>5, NextSums DEF SalesAgree

LEMMA CommitKeepsSales ==
  ASSUME IInv, SalesInv, NEW c \in Coupons, Commit(c)
  PROVE  SalesInv'
<1>1. /\ tx[c] \in Tx /\ tx[c].at = "sales"
      /\ tx' = [tx EXCEPT ![c] = NoTx]
      /\ TypeOK /\ RowsStand /\ SalesAgree
  BY DEF Commit, IInv, TypeOK, NoTx, SalesInv
<1>2. PICK n \in SalesRows : n = tx[c].row
  BY <1>1 DEF Tx
<1>3. records \subseteq records' =>
        \A b \in Coupons : tx'[b].at = "sales" /\ tx'[b].found => tx'[b].row \in records'
  BY <1>1 DEF RowsStand, TypeOK, NoTx
<1>4. ASSUME UpdateRecord(c) PROVE SalesInv'
  <2>1. PICK d \in Int : d = Sign(tx[c].kind)
    BY DEF Sign
  <2>2. /\ used' = [used EXCEPT ![c] = used[c] + d]
        /\ total' = [total EXCEPT ![n] = total[n] + d]
        /\ UNCHANGED <<records, skipped>> /\ n \in records
    BY <1>1, <1>2, <1>4, <2>1 DEF UpdateRecord, RowsStand
  <2>3. skipped' = skipped + (d - d)
    BY <1>1, <2>2 DEF TypeOK
  <2>4. SalesAgree'
    BY <1>1, <2>2, <2>3, TablesStep
  <2>5. RowsStand'
    BY <1>1, <1>3, <2>2 DEF RowsStand, TypeOK
  <2> QED
    BY <2>4, <2>5 DEF SalesInv
<1>5. ASSUME CreateRecord(c) PROVE SalesInv'
  <2>1. /\ used' = [used EXCEPT ![c] = used[c] + 1]
        /\ total' = [total EXCEPT ![n] = 1] /\ n \notin records
        /\ records' = records \cup {n} /\ skipped' = skipped
    BY <1>2, <1>5 DEF CreateRecord
  <2>2. total[n] = 0
    BY <1>1, <2>1 DEF RowsStand
  <2>3. PICK d \in Int : d = 1
    OBVIOUS
  <2>6. /\ used' = [used EXCEPT ![c] = used[c] + d]
        /\ total' = [total EXCEPT ![n] = total[n] + d]
        /\ skipped' = skipped + (d - d)
    BY <1>1, <2>1, <2>2, <2>3 DEF TypeOK
  <2>4. SalesAgree'
    BY <1>1, <2>6, TablesStep
  <2>5. RowsStand'
    BY <1>1, <1>3, <2>1 DEF RowsStand, TypeOK
  <2> QED
    BY <2>4, <2>5 DEF SalesInv
<1>6. ASSUME Clash(c) PROVE SalesInv'
  <2>1. /\ used' = [used EXCEPT ![c] = used[c]] /\ UNCHANGED <<records, total, skipped>>
    BY <1>6 DEF Clash, AfterClash
  <2>2. used' = used
    BY <1>1, <2>1 DEF TypeOK
  <2>3. SalesAgree' /\ RowsStand'
    BY <1>1, <1>3, <2>1, <2>2, NextSums DEF SalesAgree, RowsStand
  <2> QED
    BY <2>3 DEF SalesInv
<1>7. ASSUME SkipRecord(c) PROVE SalesInv'
  <2> DEFINE u == used[c]
  <2>1. /\ used' = [used EXCEPT ![c] = u - 1] /\ UNCHANGED <<records, total>>
        /\ skipped' = skipped + 1
    BY <1>7 DEF SkipRecord
  <2>4. u \in Int /\ total[n] \in Int /\ skipped \in Nat /\ total \in [SalesRows -> Int]
    BY <1>1 DEF TypeOK
  <2>5. PICK d \in Int, e \in Int : d = -1 /\ e = 0
    OBVIOUS
  <2> HIDE DEF u
  <2>6. u - 1 = u + d /\ skipped' = skipped + (e - d) /\ total[n] = total[n] + e
    BY <2>1, <2>4, <2>5
  <2>7. used' = [used EXCEPT ![c] = used[c] + d]
    BY <2>1, <2>6 DEF u
  <2>8. total' = [total EXCEPT ![n] = total[n] + e]
    BY <2>1, <2>4, <2>6
  <2>2. SalesAgree'
    BY <1>1, <2>6, <2>7, <2>8, TablesStep
  <2>3. RowsStand'
    BY <1>1, <1>3, <2>1 DEF RowsStand
  <2> QED
    BY <2>2, <2>3 DEF SalesInv
<1> QED
  BY <1>4, <1>5, <1>6, <1>7 DEF Commit

(* The other steps leave the tables alone; FindRecord sets found as the    *)
(* table has it. *)
LEMMA OtherKeepsSales ==
  ASSUME IInv, SalesInv, UNCHANGED tables,
         \A c \in Coupons :
           tx'[c].at = "sales" /\ tx'[c].found =>
             tx'[c].row \in records \/ tx'[c] = tx[c]
  PROVE  SalesInv'
  BY NextSums DEF SalesInv, SalesAgree, RowsStand, tables

LEMMA NextSalesInv ==
  ASSUME IInv, SalesInv, [Next]_vars
  PROVE  SalesInv'
<1> USE DEF IInv, TypeOK
<1>1. ASSUME UNCHANGED <<tables, tx>> PROVE SalesInv'
  BY <1>1, OtherKeepsSales
<1>2. ASSUME NEW o \in CouponOrders, BeginConfirm(o) \/ BeginRevert(o) PROVE SalesInv'
  <2>1. /\ UNCHANGED tables
        /\ \E t : t.at = "coupon" /\ tx' = [tx EXCEPT ![order[o].coupon] = t]
    BY <1>2 DEF BeginConfirm, BeginRevert, Begin
  <2>2. PICK t : t.at = "coupon" /\ tx' = [tx EXCEPT ![order[o].coupon] = t]
    BY <2>1
  <2>3. ASSUME NEW c \in Coupons PROVE tx'[c].at = "coupon" \/ tx'[c] = tx[c]
    BY <2>2
  <2> QED
    BY <2>1, <2>3, OtherKeepsSales
<1>3. ASSUME NEW c \in Coupons, FindRecord(c) PROVE SalesInv'
  <2>1. tx[c] \in Tx /\ UNCHANGED tables
    BY <1>3 DEF FindRecord, NoTx
  <2>2. /\ \A b \in Coupons \ {c} : tx'[b] = tx[b]
        /\ tx'[c].row = tx[c].row
        /\ tx'[c].found = (tx[c].row \in records)
    BY <1>3, <2>1 DEF FindRecord, RowFound, Tx
  <2> QED
    BY <2>1, <2>2, OtherKeepsSales
<1>4. ASSUME NEW c \in Coupons, Rollback(c) PROVE SalesInv'
  <2>1. UNCHANGED tables /\ tx' = [tx EXCEPT ![c] = NoTx]
    BY <1>4 DEF Rollback
  <2>2. \A b \in Coupons : tx'[b].at = "none" \/ tx'[b] = tx[b]
    BY <2>1 DEF NoTx
  <2> QED
    BY <2>1, <2>2, OtherKeepsSales
<1>5. ASSUME NEW c \in Coupons, Commit(c) PROVE SalesInv'
  BY <1>5, CommitKeepsSales, NextIInv
<1> QED
  BY <1>1, <1>2, <1>3, <1>4, <1>5
  DEF Next, vars, CreateCouponOrder, Deliver, NextMonth, tables

THEOREM SpecSalesInv == Spec => []SalesInv
<1>1. Init => SalesInv
  <2> SUFFICES ASSUME Init PROVE SalesInv
    OBVIOUS
  <2>1. IsFiniteSet(SalesRows) /\ IsFiniteSet(Coupons)
    BY RowsFinite
  <2>2. /\ total = [k \in SalesRows |-> 0] /\ total \in [SalesRows -> Int]
        /\ used = [c \in Coupons |-> 0] /\ used \in [Coupons -> Int] /\ skipped = 0
    BY DEF Init
  <2>3. SumOf(total) = 0 /\ SumOf(used) = 0
    BY <2>1, <2>2, SumOfRows, SumZero
  <2>4. SalesAgree
    BY <2>2, <2>3 DEF SalesAgree
  <2>5. RowsStand
    BY DEF Init, RowsStand, NoTx
  <2> QED
    BY <2>4, <2>5 DEF SalesInv
<1>2. IInv /\ SalesInv /\ [Next]_vars => SalesInv'
  BY NextSalesInv
<1> QED
  BY <1>1, <1>2, SpecIInv, PTL DEF Spec

(* The sales of the influencers are those of the coupons, but for the      *)
(* reversals that have found no row: SalesAgree.                           *)
THEOREM SalesOfCouponsAgree == Spec => []SalesAgree
<1>1. SalesInv => SalesAgree
  BY DEF SalesInv
<1> QED
  BY <1>1, SpecSalesInv, PTL

-----------------------------------------------------------------------------
(* DashboardMetrics                                                        *)

Created == {o \in Orders : day[o] # 0}

(* The order is being worked on by the recalculation it was completed with. *)
InHand(j, o) == o \in j.for /\ j.at \in {"find", "readDay", "writeDay"}

(* A recalculation has read orders that exist, of its day if it is about   *)
(* to write that.  It works for one order, of its day and completed before *)
(* it began.  What is sold on that day it has read or missed; the order it *)
(* works for it has read.                                                  *)
JobFits(j) ==
  /\ j.read.orders \subseteq Created
  /\ j.at = "writeDay" => j.read.orders \subseteq CreatedOn(j.day)
  /\ j.for # {} => j.at \in {"find", "readDay", "writeDay"}
  /\ \A o, b \in j.for : o = b
  /\ \A o \in j.for : o \in sold /\ day[o] = j.day
  /\ j.at = "writeDay" =>
       \A o \in CreatedOn(j.day) : status[o] = "COMPLETED" =>
         o \in j.read.sales \/ (o \in j.missed /\ o \notin j.for)

JobsFit == \A w \in Jobs : job[w] # Idle => JobFits(job[w])

OrdersFit == \A o \in Orders : day[o] = 0 => status[o] = "CREATED"

ProductsFit == \A p \in Products : product[p].orders \subseteq Created \cap OfProduct(p)

(* The rows of the products, but for those in P, are parts of the month's. *)
Parts(P) == \A p \in Products \ P : product[p].sales = monthly.sales \cap OfProduct(p)

(* A recalculation that is alone has all orders as they are. *)
AloneFits(w) ==
  job[w] # Idle /\ job[w].alone =>
    /\ \A v \in Jobs \ {w} : job[v] = Idle
    /\ job[w].at \in {"writeMonth", "writeProducts"} => job[w].read = RowOf(Created)
    /\ job[w].at \in {"readProducts", "writeProducts"} => monthly = RowOf(Created)
    /\ job[w].at = "writeProducts" => Parts(job[w].todo)

CleanFits == clean => (\A w \in Jobs : job[w] = Idle) /\ Parts({})

DashInv ==
  /\ DashboardTypeOK /\ SaleCounted /\ OrdersFit /\ JobsFit /\ ProductsFit
  /\ (\A w \in Jobs : AloneFits(w)) /\ CleanFits

-----------------------------------------------------------------------------
(* Orders change. *)

LEMMA IdleIsNone == Idle \notin Job /\ EmptyRow \in Row
  BY DEF Idle, Job, Stages, EmptyRow, Row

LEMMA TheJob ==
  ASSUME DashInv, NEW w \in Jobs, NEW s \in Stages, job[w].at = s
  PROVE  job[w] \in Job /\ job[w] # Idle /\ JobFits(job[w]) /\ ~clean
<1>1. job[w] # Idle
  BY DEF Idle, Stages
<1> QED
  BY <1>1 DEF DashInv, DashboardTypeOK, JobsFit, CleanFits

(* A recalculation that has been disturbed is the same but for two fields. *)
DisturbedOne(j, O) ==
  [j EXCEPT !.missed = IF j.at = "writeDay" THEN @ \cup O ELSE {}, !.alone = FALSE]

LEMMA DisturbedJobs ==
  ASSUME DashboardTypeOK, NEW O \in SUBSET Orders, NEW v \in Jobs
  PROVE  /\ job[v] = Idle => Disturbed(job, O)[v] = Idle
         /\ job[v] # Idle => /\ Disturbed(job, O)[v] = DisturbedOne(job[v], O)
                             /\ DisturbedOne(job[v], O) \in Job
<1>1. job[v] # Idle => job[v] \in Job
  BY DEF DashboardTypeOK
<1>2. job[v] = Idle => Disturbed(job, O)[v] = Idle
  BY DEF Disturbed
<1>3. job[v] # Idle => Disturbed(job, O)[v] = DisturbedOne(job[v], O)
  BY DEF Disturbed, DisturbedOne
<1>4. job[v] \in Job => DisturbedOne(job[v], O) \in Job
  BY DEF DisturbedOne, Job
<1> QED
  BY <1>1, <1>2, <1>3, <1>4

(* How orders change: the orders O, which get a day or another status, and *)
(* only those not paid before are completed. *)
OrdersMove(O) ==
  /\ \A o \in Orders : day[o] # 0 => day'[o] = day[o]
  /\ sold \subseteq sold'
  /\ \A o \in Orders : day'[o] # day[o] => status'[o] = "CREATED"
  /\ \A o \in Orders : status'[o] = "COMPLETED" =>
       status[o] = "COMPLETED" \/ (o \notin sold /\ o \in O)

LEMMA DisturbedFits ==
  ASSUME OrdersFit, NEW j \in Job, JobFits(j), NEW O \in SUBSET Orders, OrdersMove(O)
  PROVE  JobFits(DisturbedOne(j, O))'
<1> DEFINE k == DisturbedOne(j, O)
<1>1. /\ k.at = j.at /\ k.for = j.for /\ k.day = j.day /\ k.read = j.read /\ k.todo = j.todo
      /\ k.at = "writeDay" => k.missed = j.missed \cup O
  BY DEF DisturbedOne, Job
<1>2. /\ j.for \subseteq Orders /\ j.day \in Days /\ j.read \in Row
  BY DEF Job
<1>3. /\ Created \subseteq Created' /\ CreatedOn(j.day) \subseteq CreatedOn(j.day)'
  BY <1>2, MetricsAssumption DEF Created, CreatedOn, OrdersMove, Days
<1>4. \A o \in j.for : o \in sold' /\ day'[o] = j.day
  BY <1>2, MetricsAssumption DEF JobFits, OrdersMove, Days
<1>5. ASSUME j.at = "writeDay", NEW o \in Orders, day'[o] = j.day, status'[o] = "COMPLETED"
      PROVE  o \in j.read.sales \/ (o \in j.missed \cup O /\ o \notin j.for)
  <2>1. day[o] = j.day
    BY <1>5 DEF OrdersMove
  <2>2. CASE status[o] = "COMPLETED"
    BY <1>5, <2>1, <2>2 DEF JobFits, CreatedOn
  <2>3. CASE o \notin sold /\ o \in O
    BY <2>3 DEF JobFits
  <2> QED
    BY <1>5, <2>2, <2>3 DEF OrdersMove
<1> HIDE DEF k
<1>6. /\ k.read.orders \subseteq Created'
      /\ k.at = "writeDay" => k.read.orders \subseteq CreatedOn(k.day)'
  BY <1>1, <1>3 DEF JobFits
<1>7. /\ k.for # {} => k.at \in {"find", "readDay", "writeDay"}
      /\ \A o, b \in k.for : o = b
  BY <1>1 DEF JobFits
<1>8. k.at = "writeDay" =>
        \A o \in CreatedOn(k.day)' : status'[o] = "COMPLETED" =>
          o \in k.read.sales \/ (o \in k.missed /\ o \notin k.for)
  BY <1>1, <1>5 DEF CreatedOn
<1>9. JobFits(k)'
  BY <1>1, <1>4, <1>6, <1>7, <1>8 DEF JobFits
<1> QED
  BY <1>9 DEF k

(* Orders change, rows do not.  Recalculation w (if any) is at its first   *)
(* or second stage now; the others are disturbed. *)
LEMMA OrdersStep ==
  ASSUME DashInv, NEW O \in SUBSET Orders, OrdersMove(O), NEW W \in SUBSET Jobs,
         day' \in [Orders -> 0..today], status' \in [Orders -> OrderStatus],
         \A o \in Orders : day'[o] = 0 => status'[o] = "CREATED",
         UNCHANGED <<today, rows, excused>>, started' \in 0..MaxRecalculations,
         sold' \subseteq Orders,
         job' = [v \in Jobs |-> job'[v]],
         \A v \in Jobs \ W : job'[v] = Disturbed(job, O)[v],
         \A w \in W : /\ job'[w] \in Job /\ JobFits(job[w])' /\ job'[w].at \in {"find", "expire", "readDay"}
                      /\ job'[w].alone => \A v \in Jobs \ {w} : job[v] = Idle /\ v \notin W
                      /\ job[w] = Idle \/ job[w].for = {},
         \A o \in Orders : status'[o] = "COMPLETED" /\ status[o] # "COMPLETED" =>
           \E w \in W : o \in job'[w].for /\ job'[w].at = "find",
         clean' = FALSE \/ (clean' = clean /\ W = {})
  PROVE  DashInv'
<1>1. ASSUME NEW v \in Jobs
      PROVE  /\ job'[v] \in Job \cup {Idle}
             /\ job'[v] # Idle => JobFits(job[v])'
             /\ v \notin W /\ job[v] = Idle => job'[v] = Idle
             /\ v \notin W /\ job[v] # Idle =>
                  /\ job'[v] \in Job /\ job'[v].at = job[v].at
                  /\ job'[v].for = job[v].for /\ ~job'[v].alone
  <2>1. CASE v \in W
    BY <2>1
  <2>2. CASE v \notin W /\ job[v] = Idle
    BY <2>2, DisturbedJobs DEF DashInv
  <2>3. CASE v \notin W /\ job[v] # Idle
    <3>1. job[v] \in Job /\ JobFits(job[v])
      BY <2>3 DEF DashInv, JobsFit, DashboardTypeOK
    <3>2. PICK j \in Job : j = job[v]
      BY <3>1
    <3>3. job'[v] = DisturbedOne(j, O) /\ DisturbedOne(j, O) \in Job
      BY <2>3, <3>2, DisturbedJobs DEF DashInv
    <3>4. JobFits(DisturbedOne(j, O))'
      BY <3>1, <3>2, DisturbedFits DEF DashInv
    <3>5. JobFits(job[v])'
      BY <3>3, <3>4
    <3>6. /\ DisturbedOne(j, O).at = j.at /\ DisturbedOne(j, O).for = j.for
          /\ ~DisturbedOne(j, O).alone
      BY DEF DisturbedOne, Job
    <3> QED
      BY <2>3, <3>2, <3>3, <3>5, <3>6
  <2> QED
    BY <2>1, <2>2, <2>3
<1>2. DashboardTypeOK'
  <2>1. \A d \in Days : CreatedOn(d) \subseteq CreatedOn(d)'
    BY MetricsAssumption DEF CreatedOn, OrdersMove, Days
  <2>2. job' \in [Jobs -> Job \cup {Idle}]
    BY <1>1
  <2>3. clean' \in BOOLEAN
    BY DEF DashInv, DashboardTypeOK
  <2> QED
    BY <2>1, <2>2, <2>3 DEF DashInv, DashboardTypeOK, rows
<1>3. SaleCounted'
  <2> SUFFICES ASSUME NEW o \in Orders, status'[o] = "COMPLETED"
               PROVE  \/ o \in daily'[day'[o]].sales
                      \/ o \in excused'
                      \/ \E w \in Jobs : /\ job'[w] # Idle /\ o \in job'[w].for
                                         /\ job'[w].at \in {"find", "readDay", "writeDay"}
    BY DEF SaleCounted
  <2>1. CASE status[o] # "COMPLETED"
    BY <2>1, IdleIsNone
  <2>2. CASE status[o] = "COMPLETED"
    <3>1. day'[o] = day[o]
      BY <2>2 DEF DashInv, OrdersFit, OrdersMove
    <3>2. CASE o \in daily[day[o]].sales \/ o \in excused
      BY <3>1, <3>2 DEF rows
    <3>3. ASSUME NEW w \in Jobs, job[w] # Idle, o \in job[w].for,
                 job[w].at \in {"find", "readDay", "writeDay"}
          PROVE  job'[w] # Idle /\ o \in job'[w].for
                 /\ job'[w].at \in {"find", "readDay", "writeDay"}
      BY <1>1, <3>3, IdleIsNone
    <3> QED
      BY <2>2, <3>2, <3>3 DEF DashInv, SaleCounted
  <2> QED
    BY <2>1, <2>2
<1>4. OrdersFit'
  BY DEF OrdersFit
<1>5. JobsFit'
  BY <1>1 DEF JobsFit
<1>6. ProductsFit'
  <2>1. Created \subseteq Created' /\ product' = product
    BY DEF Created, OrdersMove, rows
  <2> QED
    BY <2>1 DEF DashInv, ProductsFit, OfProduct
<1>7. ASSUME NEW w \in Jobs PROVE AloneFits(w)'
  <2>1. CASE w \in W
    BY <1>1, <2>1 DEF AloneFits
  <2>2. CASE w \notin W
    BY <1>1, <2>2 DEF AloneFits
  <2> QED
    BY <2>1, <2>2
<1>8. CleanFits'
  BY <1>1 DEF DashInv, CleanFits, Parts, rows, OfProduct
<1> QED
  BY <1>2, <1>3, <1>4, <1>5, <1>6, <1>7, <1>8 DEF DashInv

NewJob(s, O, d) ==
  [at |-> s, for |-> O, day |-> d, read |-> EmptyRow, todo |-> {}, missed |-> {},
   alone |-> \A v \in Jobs : job[v] = Idle]

LEMMA NewJobs ==
  ASSUME NEW s \in Stages, NEW O \in SUBSET Orders, NEW d \in Days
  PROVE  /\ NewJob(s, O, d) \in Job
         /\ NewJob(s, O, d).at = s /\ NewJob(s, O, d).for = O
         /\ NewJob(s, O, d).day = d /\ NewJob(s, O, d).read = EmptyRow
         /\ NewJob(s, O, d).alone => \A v \in Jobs : job[v] = Idle
<1> DEFINE a == \A v \in Jobs : job[v] = Idle
           j == [at |-> s, for |-> O, day |-> d, read |-> EmptyRow, todo |-> {},
                 missed |-> {}, alone |-> a]
<1>1. NewJob(s, O, d) = j
  BY DEF NewJob
<1>2. a \in BOOLEAN /\ (a => \A v \in Jobs : job[v] = Idle)
  OBVIOUS
<1> HIDE DEF a
<1>3. j \in Job
  BY <1>2, IdleIsNone DEF Job
<1>4. j.at = s /\ j.for = O /\ j.day = d /\ j.read = EmptyRow /\ j.alone = a
  OBVIOUS
<1> HIDE DEF j
<1> QED
  BY <1>1, <1>2, <1>3, <1>4

LEMMA StartedIs ==
  ASSUME NEW w, NEW s, NEW O, NEW d
  PROVE  Started(w, s, O, d) = [Disturbed(job, {}) EXCEPT ![w] = NewJob(s, O, d)]
  BY DEF Started, NewJob

LEMMA DaysAreNumbers == (\A d \in Days : d \in Nat /\ d \in Int /\ d # 0) /\ 1 \in Days
  BY MetricsAssumption DEF Days

LEMMA CreateOrderKeepsDashInv ==
  ASSUME DashInv, NEW o \in Orders, CreateOrder(o)
  PROVE  DashInv'
<1>1. /\ day' = [day EXCEPT ![o] = today] /\ day[o] = 0 /\ status[o] = "CREATED"
      /\ UNCHANGED <<today, status, rows, excused, clean, started>>
      /\ sold' = sold /\ sold' \subseteq Orders
      /\ job' = Disturbed(job, {o})
      /\ day \in [Orders -> 0..today] /\ today \in Days
  BY DEF CreateOrder, DashInv, DashboardTypeOK, OrdersFit
<1>2. OrdersMove({o}) /\ day' \in [Orders -> 0..today]
  BY <1>1, DaysAreNumbers DEF OrdersMove
<1>3. \A b \in Orders : day'[b] = 0 => status'[b] = "CREATED"
  BY <1>1, DaysAreNumbers DEF DashInv, OrdersFit
<1>4. /\ job' = [v \in Jobs |-> job'[v]] /\ {} \in SUBSET Jobs /\ {o} \in SUBSET Orders
      /\ status' \in [Orders -> OrderStatus] /\ started' \in 0..MaxRecalculations
      /\ \A v \in Jobs \ {} : job'[v] = Disturbed(job, {o})[v]
  BY <1>1 DEF Disturbed, DashInv, DashboardTypeOK
<1> QED
  BY <1>1, <1>2, <1>3, <1>4, OrdersStep

LEMMA StatusKeepsDashInv ==
  ASSUME DashInv, NEW O \in SUBSET Orders, \A o \in O : day[o] # 0,
         status' \in [Orders -> OrderStatus],
         \A o \in Orders \ O : status'[o] = status[o],
         \A o \in O : status'[o] = "OTHER",
         UNCHANGED <<today, day, sold, rows, excused, clean, started>>,
         job' = Disturbed(job, O)
  PROVE  DashInv'
<1>1. OrdersMove(O)
  BY DEF OrdersMove
<1>2. \A b \in Orders : day'[b] = 0 => status'[b] = "CREATED"
  BY DEF DashInv, OrdersFit
<1>3. /\ job' = [v \in Jobs |-> job'[v]] /\ {} \in SUBSET Jobs
      /\ \A v \in Jobs \ {} : job'[v] = Disturbed(job, O)[v]
  BY DEF Disturbed
<1>4. /\ day' \in [Orders -> 0..today] /\ started' \in 0..MaxRecalculations
      /\ sold' \subseteq Orders
      /\ \A o \in Orders : ~(status'[o] = "COMPLETED" /\ status[o] # "COMPLETED")
  BY DEF DashInv, DashboardTypeOK
<1> QED
  BY <1>1, <1>2, <1>3, <1>4, OrdersStep, ZenonT(60)

LEMMA ReportKeepsDashInv ==
  ASSUME DashInv, NEW o \in Orders, Report(o)
  PROVE  DashInv'
<1>1. /\ {o} \in SUBSET Orders /\ \A b \in {o} : day[b] # 0
      /\ status' \in [Orders -> OrderStatus]
      /\ \A b \in Orders \ {o} : status'[b] = status[b]
      /\ \A b \in {o} : status'[b] = "OTHER"
      /\ UNCHANGED <<today, day, sold, rows, excused, clean, started>>
      /\ job' = Disturbed(job, {o})
  BY DEF Report, DashInv, DashboardTypeOK, OrderStatus
<1> QED
  BY <1>1, StatusKeepsDashInv

LEMMA Expiring ==
  ASSUME DashboardTypeOK, NEW d \in Int, NEW O \in SUBSET Unpaid(d), SetExpired(O)
  PROVE  /\ O \in SUBSET Orders /\ \A o \in O : day[o] # 0
         /\ status' \in [Orders -> OrderStatus]
         /\ \A o \in Orders \ O : status'[o] = status[o]
         /\ \A o \in O : status'[o] = "OTHER"
<1>1. O \in SUBSET Orders /\ \A o \in O : day[o] # 0
  BY DEF Unpaid, DashboardTypeOK
<1> QED
  BY <1>1 DEF SetExpired, DashboardTypeOK, OrderStatus

LEMMA ExpireOrdersKeepsDashInv ==
  ASSUME DashInv, ExpireOrders
  PROVE  DashInv'
<1>1. PICK O \in SUBSET Unpaid(today) :
        /\ SetExpired(O) /\ job' = Disturbed(job, O)
        /\ UNCHANGED <<today, day, sold, rows, excused, clean, started>>
  BY DEF ExpireOrders
<1>2. today \in Int
  BY DaysAreNumbers DEF DashInv, DashboardTypeOK
<1>3. /\ O \in SUBSET Orders /\ \A o \in O : day[o] # 0
      /\ status' \in [Orders -> OrderStatus]
      /\ \A o \in Orders \ O : status'[o] = status[o]
      /\ \A o \in O : status'[o] = "OTHER"
  BY <1>1, <1>2, Expiring DEF DashInv
<1> QED
  BY <1>1, <1>3, StatusKeepsDashInv

LEMMA CompleteKeepsDashInv ==
  ASSUME DashInv, NEW w \in Jobs, NEW o \in Orders, Complete(w, o)
  PROVE  DashInv'
<1>1. /\ day[o] # 0 /\ o \notin sold /\ job[w] = Idle /\ sold' = sold \cup {o}
      /\ status' = [status EXCEPT ![o] = "COMPLETED"] /\ clean' = FALSE
      /\ job' = [Disturbed(job, {o}) EXCEPT ![w] = Started(w, "find", {o}, DayOf(o))[w]]
      /\ UNCHANGED <<today, day, rows, excused, started>>
  BY DEF Complete
<1>2. DayOf(o) = day[o] /\ day[o] \in Days /\ {o} \in SUBSET Orders
  BY <1>1, DaysAreNumbers, MetricsAssumption DEF DayOf, DashInv, DashboardTypeOK, Days
<1>11. "find" \in Stages
  BY DEF Stages
<1>10. /\ NewJob("find", {o}, DayOf(o)) \in Job
       /\ NewJob("find", {o}, DayOf(o)).at = "find" /\ NewJob("find", {o}, DayOf(o)).for = {o}
       /\ NewJob("find", {o}, DayOf(o)).day = DayOf(o)
       /\ NewJob("find", {o}, DayOf(o)).read = EmptyRow
  BY <1>2, <1>11, NewJobs
<1>14. NewJob("find", {o}, DayOf(o)).alone => \A v \in Jobs : job[v] = Idle
  BY <1>2, <1>11, NewJobs
<1>3. PICK j \in Job :
        /\ j = NewJob("find", {o}, DayOf(o))
        /\ j.at = "find" /\ j.for = {o} /\ j.day = DayOf(o) /\ j.read = EmptyRow
        /\ j.alone => \A v \in Jobs : job[v] = Idle
  BY <1>10, <1>14
<1>12. Started(w, "find", {o}, DayOf(o))[w] = j
  BY <1>3, StartedIs DEF Disturbed
<1>4. OrdersMove({o})
  BY <1>1 DEF OrdersMove, DashInv, DashboardTypeOK
<1>5. JobFits(j)'
  <2>1. o \in sold' /\ status'[o] = "COMPLETED" /\ day'[o] = j.day
    BY <1>1, <1>2, <1>3 DEF DashInv, DashboardTypeOK
  <2>2. j.read.orders = {}
    BY <1>3 DEF EmptyRow
  <2> QED
    BY <1>3, <2>1, <2>2 DEF JobFits
<1>6. /\ job'[w] = j /\ job' = [v \in Jobs |-> job'[v]] /\ {w} \in SUBSET Jobs
      /\ \A v \in Jobs \ {w} : job'[v] = Disturbed(job, {o})[v]
  BY <1>1, <1>12 DEF Disturbed
<1>7. JobFits(job[w])'
  BY <1>5, <1>6
<1>8. /\ status' \in [Orders -> OrderStatus] /\ day' \in [Orders -> 0..today]
      /\ started' \in 0..MaxRecalculations /\ sold' \subseteq Orders
      /\ \A b \in Orders : day'[b] = 0 => status'[b] = "CREATED"
      /\ \A b \in Orders : status'[b] = "COMPLETED" /\ status[b] # "COMPLETED" => b = o
  BY <1>1 DEF DashInv, DashboardTypeOK, OrderStatus, OrdersFit
<1>9. \A v \in {w} :
        /\ job'[v] \in Job /\ JobFits(job[v])' /\ job'[v].at \in {"find", "expire", "readDay"}
        /\ job'[v].alone => \A u \in Jobs \ {v} : job[u] = Idle /\ u \notin {w}
        /\ job[v] = Idle \/ job[v].for = {}
  BY <1>1, <1>3, <1>6, <1>7
<1>15. \A b \in Orders : status'[b] = "COMPLETED" /\ status[b] # "COMPLETED" =>
         \E v \in {w} : b \in job'[v].for /\ job'[v].at = "find"
  BY <1>3, <1>6, <1>8
<1> QED
  BY <1>1, <1>2, <1>4, <1>6, <1>8, <1>9, <1>15, OrdersStep, ZenonT(60)

LEMMA RecalculateKeepsDashInv ==
  ASSUME DashInv, NEW w \in Jobs, NEW d \in Days, Recalculate(w, d)
  PROVE  DashInv'
<1>1. /\ job[w] = Idle /\ started < MaxRecalculations /\ started' = started + 1
      /\ job' = Started(w, "expire", {}, d) /\ clean' = FALSE
      /\ UNCHANGED <<today, day, status, sold, rows, excused>>
  BY DEF Recalculate, orderVars
<1>10. "expire" \in Stages /\ {} \in SUBSET Orders
  BY DEF Stages
<1>11. /\ NewJob("expire", {}, d) \in Job
       /\ NewJob("expire", {}, d).at = "expire" /\ NewJob("expire", {}, d).for = {}
       /\ NewJob("expire", {}, d).read = EmptyRow
  BY <1>10, NewJobs
<1>14. NewJob("expire", {}, d).alone => \A v \in Jobs : job[v] = Idle
  BY <1>10, NewJobs
<1>12. PICK j \in Job :
         /\ j = NewJob("expire", {}, d)
         /\ j.at = "expire" /\ j.for = {} /\ j.read = EmptyRow
         /\ j.alone => \A v \in Jobs : job[v] = Idle
  BY <1>11, <1>14
<1>2. /\ \A v \in Jobs \ {w} : job'[v] = Disturbed(job, {})[v]
      /\ job' = [v \in Jobs |-> job'[v]] /\ job'[w] = j
  BY <1>1, <1>12, StartedIs DEF Disturbed
<1>3. OrdersMove({}) /\ {} \in SUBSET Orders /\ {w} \in SUBSET Jobs
  BY <1>1 DEF OrdersMove
<1>4. JobFits(j)'
  BY <1>12 DEF JobFits, EmptyRow
<1>5. JobFits(job[w])'
  BY <1>2, <1>4
<1>6. started' \in 0..MaxRecalculations
  BY <1>1, MetricsAssumption DEF DashInv, DashboardTypeOK
<1>7. /\ status' \in [Orders -> OrderStatus] /\ day' \in [Orders -> 0..today]
      /\ sold' \subseteq Orders
      /\ \A b \in Orders : day'[b] = 0 => status'[b] = "CREATED"
      /\ \A b \in Orders : ~(status'[b] = "COMPLETED" /\ status[b] # "COMPLETED")
  BY <1>1 DEF DashInv, DashboardTypeOK, OrdersFit
<1>8. \A v \in {w} :
        /\ job'[v] \in Job /\ JobFits(job[v])' /\ job'[v].at \in {"find", "expire", "readDay"}
        /\ job'[v].alone => \A u \in Jobs \ {v} : job[u] = Idle /\ u \notin {w}
        /\ job[v] = Idle \/ job[v].for = {}
  BY <1>1, <1>2, <1>5, <1>12
<1> QED
  BY <1>1, <1>2, <1>3, <1>6, <1>7, <1>8, OrdersStep

LEMMA ExpireFirstKeepsDashInv ==
  ASSUME DashInv, NEW w \in Jobs, ExpireFirst(w)
  PROVE  DashInv'
<1>1. /\ job[w] \in Job /\ job[w] # Idle /\ JobFits(job[w]) /\ job[w].at = "expire" /\ ~clean
  BY TheJob DEF ExpireFirst, Stages
<1>2. PICK O \in SUBSET Unpaid(job[w].day) :
        /\ SetExpired(O)
        /\ job' = [Disturbed(job, O) EXCEPT ![w] = [job[w] EXCEPT !.at = "readDay"]]
  BY DEF ExpireFirst
<1>3. PICK j \in Job : j = [job[w] EXCEPT !.at = "readDay"]
  BY <1>1 DEF Job, Stages
<1>4. /\ j.at = "readDay" /\ j.for = job[w].for /\ j.read = job[w].read /\ j.alone = job[w].alone
      /\ j.day = job[w].day
  BY <1>1, <1>3 DEF Job
<1>5. /\ O \in SUBSET Orders /\ \A o \in O : day[o] # 0
      /\ status' \in [Orders -> OrderStatus]
      /\ \A o \in Orders \ O : status'[o] = status[o]
      /\ \A o \in O : status'[o] = "OTHER"
  <2>0. job[w].day \in Days
    BY <1>1 DEF Job
  <2>1. PICK d \in Days : d = job[w].day
    BY <2>0
  <2>2. O \in SUBSET Unpaid(d) /\ SetExpired(O) /\ DashboardTypeOK /\ d \in Int
    BY <1>2, <2>1, DaysAreNumbers DEF DashInv
  <2> QED
    BY <2>2, Expiring
<1>6. /\ UNCHANGED <<today, day, sold, rows, excused, clean, started>>
      /\ job'[w] = j /\ job' = [v \in Jobs |-> job'[v]] /\ {w} \in SUBSET Jobs
      /\ \A v \in Jobs \ {w} : job'[v] = Disturbed(job, O)[v]
  BY <1>2, <1>3 DEF ExpireFirst, Disturbed
<1>7. OrdersMove(O)
  BY <1>5, <1>6 DEF OrdersMove
<1>8. job[w].for = {}
  BY <1>1 DEF JobFits
<1>9. JobFits(j)'
  BY <1>1, <1>4, <1>6, <1>8 DEF JobFits, Created
<1>10. JobFits(job[w])'
  BY <1>6, <1>9
<1>11. job[w].alone => \A v \in Jobs \ {w} : job[v] = Idle
  BY <1>1 DEF DashInv, AloneFits
<1>12. /\ day' \in [Orders -> 0..today] /\ started' \in 0..MaxRecalculations
       /\ sold' \subseteq Orders
       /\ \A b \in Orders : day'[b] = 0 => status'[b] = "CREATED"
       /\ \A b \in Orders : ~(status'[b] = "COMPLETED" /\ status[b] # "COMPLETED")
       /\ clean' = FALSE
  BY <1>1, <1>5, <1>6 DEF DashInv, DashboardTypeOK, OrdersFit
<1>13. \A v \in {w} :
         /\ job'[v] \in Job /\ JobFits(job[v])' /\ job'[v].at \in {"find", "expire", "readDay"}
         /\ job'[v].alone => \A u \in Jobs \ {v} : job[u] = Idle /\ u \notin {w}
         /\ job[v] = Idle \/ job[v].for = {}
  BY <1>4, <1>6, <1>8, <1>10, <1>11
<1> QED
  BY <1>5, <1>6, <1>7, <1>12, <1>13, OrdersStep

LEMMA NextDayKeepsDashInv ==
  ASSUME DashInv, NextDay
  PROVE  DashInv'
<1>1. /\ today' = today + 1 /\ today < LastDay /\ today \in Days
      /\ UNCHANGED <<day, status, sold, rows, job, excused, clean, started>>
  BY DEF NextDay, DashInv, DashboardTypeOK
<1>2. today' \in Days /\ 0..today \subseteq 0..today'
  BY <1>1, MetricsAssumption DEF Days
<1>3. DashboardTypeOK'
  BY <1>1, <1>2 DEF DashInv, DashboardTypeOK, CreatedOn, rows
<1> QED
  BY <1>1, <1>3
  DEF DashInv, SaleCounted, OrdersFit, JobsFit, JobFits, ProductsFit, AloneFits, CleanFits,
      Parts, Created, CreatedOn, rows, RowOf, Counted

-----------------------------------------------------------------------------
(* Recalculations go on. *)

(* Recalculation w becomes k, and the orders stay as they are. *)
LEMMA JobStepFits ==
  ASSUME DashInv, NEW w \in Jobs, job[w] # Idle, NEW k \in Job \cup {Idle},
         k \in Job => JobFits(k),
         job' = [job EXCEPT ![w] = k], UNCHANGED <<orderVars, started>>,
         daily' \in [Days -> Row], \A d \in Days : daily'[d].orders \subseteq CreatedOn(d),
         monthly' \in Row, product' \in [Products -> Row], excused' \subseteq Orders,
         ProductsFit', SaleCounted', AloneFits(w)',
         clean' \in BOOLEAN, clean' => clean \/ (k = Idle /\ job[w].alone /\ Parts({})')
  PROVE  DashInv'
<1>1. UNCHANGED <<today, day, status, sold, started>>
  BY DEF orderVars
<1>2. job \in [Jobs -> Job \cup {Idle}]
  BY DEF DashInv, DashboardTypeOK
<1>3. DashboardTypeOK'
  BY <1>1, <1>2 DEF DashInv, DashboardTypeOK, CreatedOn
<1>4. OrdersFit'
  BY <1>1 DEF DashInv, OrdersFit
<1>5. JobsFit'
  <2> SUFFICES ASSUME NEW v \in Jobs, job'[v] # Idle PROVE JobFits(job[v])'
    BY DEF JobsFit
  <2>1. PICK j \in Job : j = job'[v]
    BY <1>2
  <2>2. JobFits(j)
    BY <1>2, <2>1 DEF DashInv, JobsFit
  <2>3. JobFits(j)'
    BY <1>1, <2>2 DEF JobFits, Created, CreatedOn
  <2> QED
    BY <2>1, <2>3
<1>6. ASSUME NEW v \in Jobs, v # w PROVE AloneFits(v)'
  <2>1. job'[v] = job[v]
    BY <1>2, <1>6
  <2>2. ~(job[v] # Idle /\ job[v].alone)
    BY <1>6 DEF DashInv, AloneFits
  <2> QED
    BY <2>1, <2>2 DEF AloneFits
<1>7. ~clean
  BY DEF DashInv, CleanFits
<1>8. clean' => \A v \in Jobs : job'[v] = Idle
  BY <1>2, <1>7 DEF DashInv, AloneFits
<1>9. CleanFits'
  BY <1>7, <1>8 DEF CleanFits
<1> QED
  BY <1>3, <1>4, <1>5, <1>6, <1>9 DEF DashInv

(* No sale is taken off, and the order w works for stays in its hands or   *)
(* is excused. *)
LEMMA SalesStay ==
  ASSUME DashInv, NEW w \in Jobs, job[w] # Idle, NEW k, job' = [job EXCEPT ![w] = k],
         UNCHANGED <<orderVars, daily>>, excused \subseteq excused',
         \A o \in job[w].for : status[o] = "COMPLETED" /\ InHand(job[w], o) =>
           o \in excused' \/ (k # Idle /\ InHand(k, o))
  PROVE  SaleCounted'
<1> SUFFICES ASSUME NEW o \in Orders, status'[o] = "COMPLETED"
             PROVE  \/ o \in daily'[day'[o]].sales
                    \/ o \in excused'
                    \/ \E v \in Jobs : job'[v] # Idle /\ InHand(job'[v], o)
  BY DEF SaleCounted, InHand
<1>1. UNCHANGED <<today, day, status, daily>>
  BY DEF orderVars
<1>2. job \in [Jobs -> Job \cup {Idle}]
  BY DEF DashInv, DashboardTypeOK
<1>3. \/ o \in daily[day[o]].sales
      \/ o \in excused
      \/ \E v \in Jobs : job[v] # Idle /\ InHand(job[v], o)
  BY <1>1 DEF DashInv, SaleCounted, InHand
<1>4. CASE o \in daily[day[o]].sales \/ o \in excused
  BY <1>1, <1>4
<1>5. ASSUME NEW v \in Jobs, job[v] # Idle, InHand(job[v], o)
      PROVE  o \in excused' \/ \E u \in Jobs : job'[u] # Idle /\ InHand(job'[u], o)
  <2>1. CASE v = w
    <3>1. o \in job[w].for
      BY <1>5, <2>1 DEF InHand
    <3>2. o \in excused' \/ (k # Idle /\ InHand(k, o))
      BY <1>1, <1>5, <2>1, <3>1
    <3>3. job'[w] = k
      BY <1>2
    <3> QED
      BY <3>2, <3>3
  <2>2. CASE v # w
    <3>1. job'[v] = job[v]
      BY <1>2, <2>2
    <3> QED
      BY <1>5, <3>1
  <2> QED
    BY <2>1, <2>2
<1> QED
  BY <1>3, <1>4, <1>5

(* A step that changes no row and hides no sale. *)
LEMMA RowsStay ==
  ASSUME DashInv, NEW w \in Jobs, job[w] # Idle, NEW k \in Job \cup {Idle},
         k \in Job => JobFits(k), job' = [job EXCEPT ![w] = k],
         UNCHANGED <<orderVars, rows, started, clean>>,
         excused \subseteq excused', excused' \subseteq Orders,
         \A o \in job[w].for : status[o] = "COMPLETED" /\ InHand(job[w], o) =>
           o \in excused' \/ (k # Idle /\ InHand(k, o)),
         AloneFits(w)'
  PROVE  DashInv'
<1>1. SaleCounted'
  BY SalesStay DEF rows
<1>2. ProductsFit'
  BY DEF DashInv, ProductsFit, Created, OfProduct, rows, orderVars
<1>3. /\ daily' \in [Days -> Row] /\ \A d \in Days : daily'[d].orders \subseteq CreatedOn(d)
      /\ monthly' \in Row /\ product' \in [Products -> Row]
      /\ clean' \in BOOLEAN /\ (clean' => clean)
  BY DEF DashInv, DashboardTypeOK, rows
<1> QED
  BY <1>1, <1>2, <1>3, JobStepFits

LEMMA FailKeepsDashInv ==
  ASSUME DashInv, NEW w \in Jobs, Fail(w)
  PROVE  DashInv'
<1>1. /\ job[w] # Idle /\ job[w] \in Job /\ job' = [job EXCEPT ![w] = Idle]
      /\ job \in [Jobs -> Job \cup {Idle}]
      /\ UNCHANGED <<orderVars, rows, started, clean>>
  BY DEF Fail, DashInv, DashboardTypeOK
<1>2. excused \subseteq excused' /\ excused' \subseteq Orders
  BY <1>1 DEF Fail, Job, DashInv, DashboardTypeOK
<1>3. \A o \in job[w].for : InHand(job[w], o) => o \in excused'
  BY <1>1 DEF Fail, InHand
<1>4. AloneFits(w)'
  BY <1>1 DEF AloneFits
<1> QED
  BY <1>1, <1>2, <1>3, <1>4, IdleIsNone, RowsStay

LEMMA FindOrderKeepsDashInv ==
  ASSUME DashInv, NEW w \in Jobs, FindOrder(w)
  PROVE  DashInv'
<1>1. /\ job[w] \in Job /\ job[w] # Idle /\ JobFits(job[w]) /\ job[w].at = "find"
      /\ job \in [Jobs -> Job \cup {Idle}]
      /\ UNCHANGED <<orderVars, rows, started, clean, excused>>
  BY TheJob DEF FindOrder, Stages, DashInv, DashboardTypeOK
<1>2. excused \subseteq excused' /\ excused' \subseteq Orders
  BY <1>1 DEF DashInv, DashboardTypeOK
<1>3. CASE \A o \in job[w].for : status[o] = "COMPLETED"
  <2>1. PICK k \in Job : k = [job[w] EXCEPT !.at = "readDay", !.read = EmptyRow]
    BY <1>1, IdleIsNone DEF Job, Stages
  <2>2. /\ k.at = "readDay" /\ k.for = job[w].for /\ k.day = job[w].day
        /\ k.read.orders = {} /\ k.alone = job[w].alone
    BY <1>1, <2>1 DEF Job, EmptyRow
  <2>3. job' = [job EXCEPT ![w] = k]
    BY <1>1, <1>3, <2>1 DEF FindOrder, GoTo
  <2>4. JobFits(k)
    BY <1>1, <2>2 DEF JobFits
  <2>5. \A o \in job[w].for : k # Idle /\ InHand(k, o)
    BY <2>2, IdleIsNone DEF InHand
  <2>6. AloneFits(w)'
    BY <1>1, <2>2, <2>3 DEF DashInv, AloneFits
  <2> QED
    BY <1>1, <1>2, <2>3, <2>4, <2>5, <2>6, RowsStay
<1>4. CASE ~\A o \in job[w].for : status[o] = "COMPLETED"
  <2>1. job' = [job EXCEPT ![w] = Idle]
    BY <1>4 DEF FindOrder
  <2>2. \A o \in job[w].for : status[o] # "COMPLETED"
    BY <1>1, <1>4 DEF JobFits
  <2>3. AloneFits(w)'
    BY <1>1, <2>1 DEF AloneFits
  <2> QED
    BY <1>1, <1>2, <2>1, <2>2, <2>3, IdleIsNone, RowsStay
<1> QED
  BY <1>3, <1>4

(* What is read.                                                           *)
LEMMA TheRead ==
  ASSUME DashboardTypeOK, NEW O \in SUBSET Orders
  PROVE  /\ RowOf(O) \in Row /\ RowOf(O).orders = O
         /\ \A o \in O : status[o] = "COMPLETED" => o \in RowOf(O).sales
         /\ {ProductOf[o] : o \in O} \subseteq Products
  BY MetricsAssumption DEF RowOf, Counted, Row, Products

LEMMA CreatedDays ==
  ASSUME DashboardTypeOK
  PROVE  /\ UNION {CreatedOn(d) : d \in Days} = Created
         /\ \A d \in Days : CreatedOn(d) \subseteq Created
<1>1. \A o \in Orders : day[o] # 0 => day[o] \in Days
  BY MetricsAssumption DEF DashboardTypeOK, Days
<1>2. \A o \in Created : o \in CreatedOn(day[o]) /\ day[o] \in Days
  BY <1>1 DEF Created, CreatedOn
<1>3. \A d \in Days : CreatedOn(d) \subseteq Created
  BY DaysAreNumbers DEF CreatedOn, Created
<1> QED
  BY <1>2, <1>3

ReadOne(j, O, s) ==
  [j EXCEPT !.at = s, !.read = RowOf(O), !.missed = {},
            !.todo = IF s = "writeProducts" THEN {ProductOf[o] : o \in O} ELSE {}]

LEMMA ReadJob ==
  ASSUME DashInv, NEW w \in Jobs, job[w] \in Job, NEW O \in SUBSET Orders,
         NEW s \in Stages, Read(w, O, s), NEW k, k = ReadOne(job[w], O, s)
  PROVE  /\ k \in Job
         /\ job' = [job EXCEPT ![w] = k] /\ k.at = s /\ k.read = RowOf(O)
         /\ k.for = job[w].for /\ k.day = job[w].day /\ k.alone = job[w].alone
         /\ s = "writeProducts" => k.todo = {ProductOf[o] : o \in O}
<1> DEFINE P == IF s = "writeProducts" THEN {ProductOf[o] : o \in O} ELSE {}
           R == RowOf(O)
           m == [job[w] EXCEPT !.at = s, !.read = R, !.missed = {}, !.todo = P]
<1>1. P \in SUBSET Products /\ R \in Row
  BY TheRead DEF DashInv
<1>2. job' = [job EXCEPT ![w] = m]
  BY DEF Read, DashInv, DashboardTypeOK
<1>5. k = m
  BY DEF ReadOne
<1>6. s = "writeProducts" => P = {ProductOf[o] : o \in O}
  OBVIOUS
<1> HIDE DEF P, R
<1>3. m \in Job
  BY <1>1 DEF Job
<1>4. /\ m.at = s /\ m.read = R /\ m.for = job[w].for /\ m.day = job[w].day
      /\ m.alone = job[w].alone /\ m.todo = P
  BY DEF Job
<1>7. R = RowOf(O)
  BY DEF R
<1> HIDE DEF m
<1> QED
  BY <1>2, <1>3, <1>4, <1>5, <1>6, <1>7

LEMMA ReadDayKeepsDashInv ==
  ASSUME DashInv, NEW w \in Jobs, ReadDay(w)
  PROVE  DashInv'
<1>1. /\ job[w] \in Job /\ job[w] # Idle /\ JobFits(job[w]) /\ job[w].at = "readDay"
      /\ job \in [Jobs -> Job \cup {Idle}] /\ DashboardTypeOK
      /\ UNCHANGED <<orderVars, rows, started, clean, excused>>
  BY TheJob DEF ReadDay, Read, Stages, DashInv, DashboardTypeOK
<1>2. excused \subseteq excused' /\ excused' \subseteq Orders
  BY <1>1 DEF DashInv, DashboardTypeOK
<1>3. PICK O \in SUBSET Orders : O = CreatedOn(job[w].day)
  BY DEF CreatedOn
<1>4. "writeDay" \in Stages /\ Read(w, O, "writeDay")
  BY <1>3 DEF ReadDay, OrdersOfDay, Stages
<1>21. PICK k : k = ReadOne(job[w], O, "writeDay")
  OBVIOUS
<1>5. /\ k \in Job /\ k.at = "writeDay" /\ k.read = RowOf(O)
      /\ k.for = job[w].for /\ k.day = job[w].day /\ k.alone = job[w].alone
  BY <1>1, <1>4, <1>21, ReadJob
<1>22. job' = [job EXCEPT ![w] = k]
  BY <1>1, <1>4, <1>21, ReadJob
<1>6. /\ RowOf(O).orders = O
      /\ \A o \in O : status[o] = "COMPLETED" => o \in RowOf(O).sales
  BY <1>1, TheRead
<1>7. O \subseteq Created /\ O = CreatedOn(k.day)
  BY <1>1, <1>3, <1>5, <1>22, CreatedDays DEF Job
<1>8. JobFits(k)
  BY <1>1, <1>5, <1>22, <1>6, <1>7 DEF JobFits
<1>9. \A o \in job[w].for : k # Idle /\ InHand(k, o)
  BY <1>5, <1>22, IdleIsNone DEF InHand
<1>10. AloneFits(w)'
  BY <1>1, <1>5, <1>22 DEF DashInv, AloneFits
<1> QED
  BY <1>1, <1>2, <1>5, <1>22, <1>8, <1>9, <1>10, RowsStay

LEMMA SameRow ==
  ASSUME UNCHANGED orderVars
  PROVE  RowOf(Created)' = RowOf(Created)
  BY DEF RowOf, Counted, Created, orderVars

LEMMA ReadMonthKeepsDashInv ==
  ASSUME DashInv, NEW w \in Jobs, ReadMonth(w)
  PROVE  DashInv'
<1>1. /\ job[w] \in Job /\ job[w] # Idle /\ JobFits(job[w]) /\ job[w].at = "readMonth"
      /\ job \in [Jobs -> Job \cup {Idle}] /\ DashboardTypeOK
      /\ UNCHANGED <<orderVars, rows, started, clean, excused>>
  BY TheJob DEF ReadMonth, Read, Stages, DashInv, DashboardTypeOK
<1>2. excused \subseteq excused' /\ excused' \subseteq Orders
  BY <1>1 DEF DashInv, DashboardTypeOK
<1>3. PICK O \in SUBSET Orders : O = Created
  BY DEF Created
<1>4. "writeMonth" \in Stages /\ Read(w, O, "writeMonth")
  BY <1>1, <1>3, CreatedDays DEF ReadMonth, Stages
<1>21. PICK k : k = ReadOne(job[w], O, "writeMonth")
  OBVIOUS
<1>5. /\ k \in Job /\ k.at = "writeMonth" /\ k.read = RowOf(O)
      /\ k.for = job[w].for /\ k.day = job[w].day /\ k.alone = job[w].alone
  BY <1>1, <1>4, <1>21, ReadJob
<1>22. job' = [job EXCEPT ![w] = k]
  BY <1>1, <1>4, <1>21, ReadJob
<1>6. RowOf(O).orders = O
  BY <1>1, TheRead
<1>7. job[w].for = {}
  BY <1>1 DEF JobFits
<1>8. JobFits(k)
  BY <1>3, <1>5, <1>22, <1>6, <1>7 DEF JobFits
<1>10. AloneFits(w)'
  BY <1>1, <1>3, <1>5, <1>22, SameRow DEF DashInv, AloneFits
<1> QED
  BY <1>1, <1>2, <1>5, <1>22, <1>7, <1>8, <1>10, RowsStay

LEMMA ReadProductsKeepsDashInv ==
  ASSUME DashInv, NEW w \in Jobs, ReadProducts(w)
  PROVE  DashInv'
<1>1. /\ job[w] \in Job /\ job[w] # Idle /\ JobFits(job[w]) /\ job[w].at = "readProducts"
      /\ job \in [Jobs -> Job \cup {Idle}] /\ DashboardTypeOK
      /\ UNCHANGED <<orderVars, rows, started, clean, excused>>
  BY TheJob DEF ReadProducts, Read, Stages, DashInv, DashboardTypeOK
<1>2. excused \subseteq excused' /\ excused' \subseteq Orders
  BY <1>1 DEF DashInv, DashboardTypeOK
<1>3. PICK O \in SUBSET Orders : O = Created
  BY DEF Created
<1>4. "writeProducts" \in Stages /\ Read(w, O, "writeProducts")
  BY <1>1, <1>3, CreatedDays DEF ReadProducts, Stages
<1>21. PICK k : k = ReadOne(job[w], O, "writeProducts")
  OBVIOUS
<1>5. /\ k \in Job /\ k.at = "writeProducts" /\ k.read = RowOf(O)
      /\ k.for = job[w].for /\ k.day = job[w].day /\ k.alone = job[w].alone
  BY <1>1, <1>4, <1>21, ReadJob
<1>22. job' = [job EXCEPT ![w] = k]
  BY <1>1, <1>4, <1>21, ReadJob
<1>23. k.todo = {ProductOf[o] : o \in O}
  BY <1>1, <1>4, <1>21, ReadJob
<1>6. RowOf(O).orders = O
  BY <1>1, TheRead
<1>7. job[w].for = {}
  BY <1>1 DEF JobFits
<1>8. JobFits(k)
  BY <1>3, <1>5, <1>22, <1>6, <1>7 DEF JobFits
<1>9. job[w].alone => monthly = RowOf(O)
  BY <1>1, <1>3 DEF DashInv, AloneFits
<1>10. monthly = RowOf(O) => Parts(k.todo)
  <2> SUFFICES ASSUME monthly = RowOf(O), NEW p \in Products \ k.todo
               PROVE  product[p].sales = monthly.sales \cap OfProduct(p)
    BY DEF Parts
  <2>1. O \cap OfProduct(p) = {}
    BY <1>23 DEF OfProduct
  <2>2. product[p].sales \subseteq product[p].orders /\ monthly.sales \subseteq monthly.orders
    BY <1>1 DEF DashboardTypeOK, Row
  <2>3. product[p].orders \subseteq O \cap OfProduct(p)
    BY <1>3 DEF DashInv, ProductsFit
  <2> QED
    BY <1>6, <2>1, <2>2, <2>3
<1>11. Parts(k.todo)' = Parts(k.todo)
  BY <1>1 DEF Parts, rows, OfProduct
<1>12. AloneFits(w)'
  <2>1. job'[w] = k /\ \A v \in Jobs \ {w} : job'[v] = job[v]
    BY <1>1, <1>5, <1>22
  <2>2. job[w].alone => \A v \in Jobs \ {w} : job[v] = Idle
    BY <1>1 DEF DashInv, AloneFits
  <2>3. RowOf(Created)' = RowOf(O) /\ monthly' = monthly
    BY <1>1, <1>3, SameRow DEF rows
  <2>4. Parts(job[w].todo)' <=> Parts(k.todo)'
    BY <2>1
  <2> QED
    BY <1>5, <1>22, <1>9, <1>10, <1>11, <2>1, <2>2, <2>3, <2>4 DEF AloneFits
<1> QED
  BY <1>1, <1>2, <1>5, <1>22, <1>7, <1>8, <1>12, RowsStay

-----------------------------------------------------------------------------
(* Recalculations write. *)

(* What the recalculation in w becomes when it has written the day. *)
DayWritten(j) ==
  [j EXCEPT !.at = "readMonth", !.for = {}, !.day = 1, !.read = EmptyRow, !.missed = {}]

LEMMA DayWrittenFits ==
  ASSUME NEW j \in Job, NEW k, k = DayWritten(j)
  PROVE  /\ k \in Job /\ k.at = "readMonth" /\ k.for = {} /\ k.alone = j.alone
         /\ JobFits(k)
<1>1. 1 \in Days /\ EmptyRow \in Row /\ EmptyRow.orders = {}
  BY MetricsAssumption DEF Days, EmptyRow, Row
<1> DEFINE R == EmptyRow
<1> HIDE DEF R
<1>2. k = [j EXCEPT !.at = "readMonth", !.for = {}, !.day = 1, !.read = R, !.missed = {}]
  BY DEF DayWritten, R
<1>3. R \in Row /\ R.orders = {}
  BY <1>1 DEF R
<1>4. k \in Job
  BY <1>1, <1>2, <1>3 DEF Job, Stages
<1>5. k.at = "readMonth" /\ k.for = {} /\ k.alone = j.alone /\ k.read = R
  BY <1>2 DEF Job
<1> QED
  BY <1>3, <1>4, <1>5 DEF JobFits

(* A sale that the row of the day no longer has is excused: the            *)
(* recalculation has not heard of it, and works for another order.         *)
LEMMA WriteDaySales ==
  ASSUME DashInv, NEW w \in Jobs, WriteDay(w)
  PROVE  SaleCounted'
<1> SUFFICES ASSUME NEW o \in Orders, status'[o] = "COMPLETED"
             PROVE  \/ o \in daily'[day'[o]].sales
                    \/ o \in excused'
                    \/ \E v \in Jobs : job'[v] # Idle /\ InHand(job'[v], o)
  BY DEF SaleCounted, InHand
<1>1. /\ job[w] \in Job /\ job[w] # Idle /\ JobFits(job[w]) /\ job[w].at = "writeDay"
      /\ job \in [Jobs -> Job \cup {Idle}] /\ DashboardTypeOK
      /\ UNCHANGED <<today, day, status>>
  BY TheJob DEF WriteDay, Stages, DashInv, DashboardTypeOK, orderVars
<1>2. PICK j \in Job : j = job[w]
  BY <1>1
<1>3. day[o] \in Days
  BY <1>1, MetricsAssumption DEF DashInv, OrdersFit, DashboardTypeOK, Days
<1>4. j.read.sales \subseteq CreatedOn(j.day) /\ j.day \in Days
  BY <1>1, <1>2 DEF JobFits, Job, Row
<1>5. /\ daily' = [daily EXCEPT ![j.day] = j.read]
      /\ excused' = (excused \cup (daily[j.day].sales \cap j.missed)) \ j.read.sales
  BY <1>2 DEF WriteDay
<1>6. \A v \in Jobs \ {w} : job'[v] = job[v]
  BY <1>1 DEF WriteDay
<1>7. daily'[j.day] = j.read /\ \A d \in Days \ {j.day} : daily'[d] = daily[d]
  BY <1>1, <1>4, <1>5 DEF DashboardTypeOK
<1>8. \/ o \in daily[day[o]].sales
      \/ o \in excused
      \/ \E v \in Jobs : job[v] # Idle /\ InHand(job[v], o)
  BY <1>1 DEF DashInv, SaleCounted, InHand
<1>9. CASE day[o] = j.day
  <2>1. o \in j.read.sales \/ (o \in j.missed /\ o \notin j.for)
    BY <1>1, <1>2, <1>9 DEF JobFits, CreatedOn
  <2>2. CASE o \in j.read.sales
    BY <1>1, <1>7, <1>9, <2>2
  <2>3. CASE o \notin j.read.sales
    <3>1. o \in j.missed /\ o \notin j.for
      BY <2>1, <2>3
    <3>2. \A v \in Jobs : InHand(job[v], o) => v # w
      BY <1>2, <3>1 DEF InHand
    <3> QED
      BY <1>5, <1>6, <1>8, <1>9, <2>3, <3>1, <3>2
  <2> QED
    BY <2>2, <2>3
<1>10. CASE day[o] # j.day
  <2>1. o \notin j.read.sales
    BY <1>4, <1>10 DEF CreatedOn
  <2>2. \A v \in Jobs : InHand(job[v], o) => v # w
    BY <1>1, <1>2, <1>10 DEF InHand, JobFits
  <2>3. daily'[day'[o]] = daily[day[o]]
    BY <1>1, <1>3, <1>7, <1>10
  <2> QED
    BY <1>5, <1>6, <1>8, <2>1, <2>2, <2>3
<1> QED
  BY <1>9, <1>10

LEMMA WriteDayKeepsDashInv ==
  ASSUME DashInv, NEW w \in Jobs, WriteDay(w)
  PROVE  DashInv'
<1>1. /\ job[w] \in Job /\ job[w] # Idle /\ JobFits(job[w]) /\ job[w].at = "writeDay"
      /\ job \in [Jobs -> Job \cup {Idle}] /\ DashboardTypeOK
      /\ UNCHANGED <<orderVars, monthly, product, started, clean>>
  BY TheJob DEF WriteDay, Stages, DashInv, DashboardTypeOK
<1>2. PICK j \in Job : j = job[w]
  BY <1>1
<1>3. PICK k : k = DayWritten(j)
  OBVIOUS
<1>4. k \in Job /\ k.at = "readMonth" /\ k.for = {} /\ k.alone = j.alone /\ JobFits(k)
  BY <1>3, DayWrittenFits
<1>5. job' = [job EXCEPT ![w] = k]
  BY <1>1, <1>2, <1>3 DEF WriteDay, DayWritten
<1>6. /\ daily' = [daily EXCEPT ![j.day] = j.read]
      /\ excused' = (excused \cup (daily[j.day].sales \cap j.missed)) \ j.read.sales
  BY <1>2 DEF WriteDay
<1>7. j.day \in Days /\ j.read \in Row /\ j.missed \subseteq Orders
      /\ j.read.orders \subseteq CreatedOn(j.day)
  BY <1>1, <1>2 DEF Job, JobFits
<1>8. daily' \in [Days -> Row] /\ \A d \in Days : daily'[d].orders \subseteq CreatedOn(d)
  BY <1>1, <1>6, <1>7 DEF DashboardTypeOK
<1>9. excused' \subseteq Orders
  BY <1>1, <1>6, <1>7 DEF DashboardTypeOK
<1>10. ProductsFit'
  BY <1>1 DEF DashInv, ProductsFit, Created, OfProduct, orderVars
<1>11. AloneFits(w)'
  BY <1>1, <1>2, <1>4, <1>5 DEF DashInv, AloneFits
<1>12. monthly' \in Row /\ product' \in [Products -> Row] /\ clean' \in BOOLEAN /\ (clean' => clean)
  BY <1>1 DEF DashboardTypeOK
<1>13. SaleCounted'
  BY WriteDaySales
<1> QED
  BY <1>1, <1>4, <1>5, <1>8, <1>9, <1>10, <1>11, <1>12, <1>13, JobStepFits

LEMMA WriteMonthKeepsDashInv ==
  ASSUME DashInv, NEW w \in Jobs, WriteMonth(w)
  PROVE  DashInv'
<1>1. /\ job[w] \in Job /\ job[w] # Idle /\ JobFits(job[w]) /\ job[w].at = "writeMonth"
      /\ job \in [Jobs -> Job \cup {Idle}] /\ DashboardTypeOK
      /\ UNCHANGED <<orderVars, daily, product, started, clean, excused>>
  BY TheJob DEF WriteMonth, Stages, DashInv, DashboardTypeOK
<1>2. PICK k \in Job : k = [job[w] EXCEPT !.at = "readProducts", !.read = EmptyRow]
  BY <1>1, IdleIsNone DEF Job, Stages
<1>3. /\ k.at = "readProducts" /\ k.for = job[w].for /\ k.read.orders = {}
      /\ k.alone = job[w].alone
  BY <1>1, <1>2 DEF Job, EmptyRow
<1>4. job' = [job EXCEPT ![w] = k]
  BY <1>1, <1>2 DEF WriteMonth, GoTo
<1>5. job[w].for = {}
  BY <1>1 DEF JobFits
<1>6. JobFits(k)
  BY <1>3, <1>5 DEF JobFits
<1>7. monthly' = job[w].read /\ monthly' \in Row
  BY <1>1 DEF WriteMonth, Job
<1>8. ProductsFit'
  BY <1>1 DEF DashInv, ProductsFit, Created, OfProduct, orderVars
<1>9. /\ daily' \in [Days -> Row] /\ \A d \in Days : daily'[d].orders \subseteq CreatedOn(d)
      /\ product' \in [Products -> Row] /\ excused' \subseteq Orders
      /\ clean' \in BOOLEAN /\ (clean' => clean)
  BY <1>1 DEF DashboardTypeOK
<1>10. SaleCounted'
  BY <1>1, <1>4, <1>5, SalesStay
<1>11. AloneFits(w)'
  <2>1. job'[w] = k /\ \A v \in Jobs \ {w} : job'[v] = job[v]
    BY <1>1, <1>4
  <2>2. job[w].alone => /\ \A v \in Jobs \ {w} : job[v] = Idle
                        /\ job[w].read = RowOf(Created)
    BY <1>1 DEF DashInv, AloneFits
  <2>3. RowOf(Created)' = RowOf(Created)
    BY <1>1, SameRow
  <2> QED
    BY <1>3, <1>7, <2>1, <2>2, <2>3 DEF AloneFits
<1> QED
  BY <1>1, <1>4, <1>6, <1>7, <1>8, <1>9, <1>10, <1>11, JobStepFits

(* The row of one more product is its part of the month. *)
LEMMA PartWritten ==
  ASSUME DashboardTypeOK, NEW p \in Products, NEW P \in SUBSET Products, NEW r \in Row,
         product' = [product EXCEPT ![p] = ProductRow(r, p)], UNCHANGED monthly,
         Parts(P), r = monthly
  PROVE  Parts(P \ {p})'
<1> SUFFICES ASSUME NEW q \in Products \ (P \ {p})
             PROVE  product'[q].sales = monthly.sales \cap OfProduct(q)
  BY DEF Parts, OfProduct
<1>1. CASE q = p
  BY <1>1 DEF DashboardTypeOK, ProductRow
<1>2. CASE q # p
  BY <1>2 DEF DashboardTypeOK, Parts
<1> QED
  BY <1>1, <1>2

(* The last row has been written, or there was none to write. *)
LEMMA EndedKeepsDashInv ==
  ASSUME DashInv, NEW w \in Jobs, job[w].at = "writeProducts", Ended(w),
         UNCHANGED <<orderVars, daily, monthly, excused, started>>,
         product' \in [Products -> Row], ProductsFit',
         job[w].alone => Parts({})'
  PROVE  DashInv'
<1>1. /\ job[w] \in Job /\ job[w] # Idle /\ JobFits(job[w]) /\ DashboardTypeOK
      /\ job \in [Jobs -> Job \cup {Idle}] /\ job' = [job EXCEPT ![w] = Idle]
  BY TheJob DEF Ended, Stages, DashInv, DashboardTypeOK
<1>2. job[w].for = {}
  BY <1>1 DEF JobFits
<1>3. SaleCounted'
  BY <1>1, <1>2, SalesStay
<1>4. AloneFits(w)'
  BY <1>1 DEF AloneFits
<1>5. /\ daily' \in [Days -> Row] /\ \A d \in Days : daily'[d].orders \subseteq CreatedOn(d)
      /\ monthly' \in Row /\ excused' \subseteq Orders
  BY <1>1 DEF DashboardTypeOK
<1>6. clean' = job[w].alone /\ job[w].alone \in BOOLEAN
  BY <1>1 DEF Ended, Job
<1> QED
  BY <1>1, <1>3, <1>4, <1>5, <1>6, IdleIsNone, JobStepFits

LEMMA WriteProductKeepsDashInv ==
  ASSUME DashInv, NEW w \in Jobs, WriteProduct(w)
  PROVE  DashInv'
<1>1. /\ job[w] \in Job /\ job[w] # Idle /\ JobFits(job[w]) /\ job[w].at = "writeProducts"
      /\ job \in [Jobs -> Job \cup {Idle}] /\ DashboardTypeOK
      /\ UNCHANGED <<orderVars, daily, monthly, excused, started>>
  BY TheJob DEF WriteProduct, Stages, DashInv, DashboardTypeOK
<1>2. PICK j \in Job : j = job[w]
  BY <1>1
<1>3. /\ j.todo \in SUBSET Products /\ j.read \in Row /\ j.for = {}
      /\ j.read.orders \subseteq Created
  BY <1>1, <1>2 DEF Job, JobFits
<1>4. j.alone => j.read = monthly /\ monthly = RowOf(Created) /\ Parts(j.todo)
                 /\ \A v \in Jobs \ {w} : job[v] = Idle
  BY <1>1, <1>2 DEF DashInv, AloneFits
<1>5. CASE j.todo = {}
  <2>1. Ended(w) /\ UNCHANGED product
    BY <1>2, <1>5 DEF WriteProduct
  <2>2. product' \in [Products -> Row] /\ ProductsFit'
    BY <1>1, <2>1 DEF DashInv, DashboardTypeOK, ProductsFit, Created, OfProduct, orderVars
  <2>3. job[w].alone => Parts({})'
    BY <1>1, <1>2, <1>4, <1>5, <2>1 DEF Parts, OfProduct
  <2> QED
    BY <1>1, <2>1, <2>2, <2>3, EndedKeepsDashInv
<1>6. CASE j.todo # {}
  <2>1. PICK p \in j.todo :
          /\ product' = [product EXCEPT ![p] = ProductRow(j.read, p)]
          /\ IF j.todo = {p} THEN Ended(w)
             ELSE job' = [job EXCEPT ![w].todo = @ \ {p}] /\ UNCHANGED clean
    BY <1>2, <1>6 DEF WriteProduct
  <2>2. p \in Products
    BY <1>3
  <2>3. PICK r \in Row : r = ProductRow(j.read, p)
    BY <1>3 DEF ProductRow, Row, OfProduct
  <2>4. product' \in [Products -> Row]
    BY <1>1, <2>1, <2>2, <2>3 DEF DashboardTypeOK
  <2>5. ProductsFit'
    <3> SUFFICES ASSUME NEW q \in Products
                 PROVE  product'[q].orders \subseteq Created \cap OfProduct(q)
      BY <1>1 DEF ProductsFit, Created, OfProduct, orderVars
    <3>1. CASE q = p
      <4>1. product'[q] = r
        BY <1>1, <2>1, <2>3, <3>1 DEF DashboardTypeOK
      <4>2. r.orders = j.read.orders \cap OfProduct(p)
        BY <2>3 DEF ProductRow
      <4> QED
        BY <1>3, <3>1, <4>1, <4>2
    <3>2. CASE q # p
      <4>1. product'[q] = product[q]
        BY <1>1, <2>1, <3>2 DEF DashboardTypeOK
      <4> QED
        BY <4>1 DEF DashInv, ProductsFit
    <3> QED
      BY <3>1, <3>2
  <2>6. j.alone => Parts(j.todo \ {p})'
    BY <1>1, <1>3, <1>4, <2>1, <2>2, PartWritten
  <2>7. CASE j.todo = {p}
    <3>1. Ended(w)
      BY <2>1, <2>7
    <3>2. job[w].alone => Parts({})'
      <4>1. j.todo \ {p} = {}
        BY <2>7
      <4> QED
        BY <1>2, <2>6, <4>1
    <3> QED
      BY <1>1, <2>4, <2>5, <3>1, <3>2, EndedKeepsDashInv
  <2>8. CASE j.todo # {p}
    <3>1. UNCHANGED clean /\ job' = [job EXCEPT ![w].todo = @ \ {p}]
      BY <2>1, <2>8
    <3>2. PICK k \in Job : k = [j EXCEPT !.todo = j.todo \ {p}]
      BY <1>3 DEF Job
    <3>3. /\ k.at = "writeProducts" /\ k.for = {} /\ k.read = j.read /\ k.alone = j.alone
          /\ k.todo = j.todo \ {p}
      BY <1>1, <1>2, <1>3, <3>2 DEF Job
    <3>4. job' = [job EXCEPT ![w] = k]
      BY <1>1, <1>2, <3>1, <3>2
    <3>5. JobFits(k)
      BY <1>3, <3>3 DEF JobFits
    <3>6. SaleCounted'
      BY <1>1, <1>2, <1>3, <3>4, SalesStay
    <3>7. AloneFits(w)'
      <4>1. job'[w] = k /\ \A v \in Jobs \ {w} : job'[v] = job[v]
        BY <1>1, <3>4
      <4>2. RowOf(Created)' = RowOf(Created) /\ monthly' = monthly
        BY <1>1, SameRow
      <4>3. Parts(j.todo \ {p})' <=> Parts(job[w].todo)'
        BY <1>2, <3>3, <4>1
      <4> QED
        BY <1>4, <2>6, <3>3, <4>1, <4>2, <4>3 DEF AloneFits
    <3>8. /\ daily' \in [Days -> Row] /\ \A d \in Days : daily'[d].orders \subseteq CreatedOn(d)
          /\ monthly' \in Row /\ excused' \subseteq Orders
          /\ clean' \in BOOLEAN /\ (clean' => clean)
      BY <1>1, <3>1 DEF DashboardTypeOK
    <3> QED
      BY <1>1, <2>4, <2>5, <3>4, <3>5, <3>6, <3>7, <3>8, JobStepFits
  <2> QED
    BY <2>7, <2>8
<1> QED
  BY <1>5, <1>6

-----------------------------------------------------------------------------
LEMMA InitDashInv == DashboardInit => DashInv
<1> SUFFICES ASSUME DashboardInit PROVE DashInv
  OBVIOUS
<1>1. /\ today = 1 /\ day = [o \in Orders |-> 0] /\ status = [o \in Orders |-> "CREATED"]
      /\ daily = [d \in Days |-> EmptyRow] /\ monthly = EmptyRow
      /\ product = [p \in Products |-> EmptyRow] /\ job = [w \in Jobs |-> Idle]
      /\ started = 0 /\ excused = {} /\ clean = TRUE /\ sold = {}
  BY DEF DashboardInit
<1>2. EmptyRow \in Row /\ EmptyRow.orders = {} /\ EmptyRow.sales = {}
  BY IdleIsNone DEF EmptyRow
<1>3. DashboardTypeOK
  BY <1>1, <1>2, MetricsAssumption DEF DashboardTypeOK, Days, OrderStatus
<1>4. SaleCounted /\ OrdersFit
  BY <1>1 DEF SaleCounted, OrdersFit
<1>5. JobsFit /\ \A w \in Jobs : AloneFits(w)
  BY <1>1 DEF JobsFit, AloneFits
<1>6. ProductsFit
  BY <1>1, <1>2 DEF ProductsFit
<1>7. CleanFits
  BY <1>1, <1>2 DEF CleanFits, Parts
<1> QED
  BY <1>3, <1>4, <1>5, <1>6, <1>7 DEF DashInv

LEMMA NextDashInv == DashInv /\ [DashboardNext]_dashboardVars => DashInv'
<1> SUFFICES ASSUME DashInv, [DashboardNext]_dashboardVars PROVE DashInv'
  OBVIOUS
<1>1. CASE UNCHANGED dashboardVars
  BY <1>1
  DEF dashboardVars, rows, orderVars, DashInv, DashboardTypeOK, SaleCounted, OrdersFit, JobsFit,
      JobFits, ProductsFit, AloneFits, CleanFits, Parts, Created, CreatedOn, OfProduct, RowOf,
      Counted
<1>2. ASSUME NEW o \in Orders, CreateOrder(o) \/ Report(o) \/ \E w \in Jobs : Complete(w, o)
      PROVE  DashInv'
  BY <1>2, CreateOrderKeepsDashInv, ReportKeepsDashInv, CompleteKeepsDashInv
<1>3. ASSUME NEW w \in Jobs, JobStep(w) PROVE DashInv'
  BY <1>3, ExpireFirstKeepsDashInv, FindOrderKeepsDashInv, ReadDayKeepsDashInv,
     WriteDayKeepsDashInv, ReadMonthKeepsDashInv, WriteMonthKeepsDashInv,
     ReadProductsKeepsDashInv, WriteProductKeepsDashInv, FailKeepsDashInv DEF JobStep
<1>4. ASSUME NEW w \in Jobs, NEW d \in Days, Recalculate(w, d) PROVE DashInv'
  BY <1>4, RecalculateKeepsDashInv
<1> QED
  BY <1>1, <1>2, <1>3, <1>4, ExpireOrdersKeepsDashInv, NextDayKeepsDashInv DEF DashboardNext

THEOREM SpecDashInv == DashboardSpec => []DashInv
  BY InitDashInv, NextDashInv, PTL DEF DashboardSpec

(* Every variable keeps its type, and a row of a day holds orders of that  *)
(* day only.                                                               *)
THEOREM DashboardTypeCorrect == DashboardSpec => []DashboardTypeOK
<1>1. DashInv => DashboardTypeOK
  BY DEF DashInv
<1> QED
  BY <1>1, SpecDashInv, PTL

(* The sale of a completed order is in the total of the day on which it    *)
(* was created unless its handler is at it or has failed, or a             *)
(* recalculation that had read the orders before has taken it off:         *)
(* SaleCounted.                                                            *)
THEOREM CompletedSaleCounted == DashboardSpec => []SaleCounted
<1>1. DashInv => SaleCounted
  BY DEF DashInv
<1> QED
  BY <1>1, SpecDashInv, PTL

-----------------------------------------------------------------------------
(* The shares of the products                                              *)

LEMMA ProductsFinite == IsFiniteSet(Products)
<1>1. ProductOf \in Surjection(Orders, Products)
  BY MetricsAssumption DEF Surjection, Products
<1> QED
  BY <1>1, MetricsAssumption, FS_Surjection

(* The sales of the products, put together, are the sales.                 *)
LEMMA SalesOfProducts ==
  ASSUME NEW O \in SUBSET Orders, NEW a \in [Products -> Int],
         \A p \in Products : a[p] = Amount(O \cap OfProduct(p))
  PROVE  SumOver(a, Products) = Amount(O)
<1>1. IsFiniteSet(Orders) /\ Price \in [Orders -> Int] /\ ProductOf \in [Orders -> Products]
  BY MetricsAssumption
<1> DEFINE Of(P) == {o \in O : ProductOf[o] \in P}
           Good == {P \in SUBSET Products : SumOver(a, P) = SumOver(Price, Of(P))}
<1>2. {} \in Good
  <2>1. Of({}) = {}
    OBVIOUS
  <2> QED
    BY <2>1, SumEmpty
<1>3. ASSUME NEW P \in SUBSET Products, P # {}, P \ {Pick(P)} \in Good PROVE P \in Good
  <2>1. PICK p \in P : p = Pick(P)
    BY <1>3, PickStep
  <2>2. SumOver(a, P) = a[p] + SumOver(a, P \ {p})
    BY <1>3, <2>1, ProductsFinite, FS_Subset, SumUnfold
  <2>3. PICK S \in SUBSET Orders, T \in SUBSET Orders :
          S = O \cap OfProduct(p) /\ T = Of(P \ {p})
    OBVIOUS
  <2>4. Of(P) = S \cup T /\ S \cap T = {}
    BY <2>1, <2>3 DEF OfProduct
  <2>7. SumOver(Price, S \cup T) = SumOver(Price, S) + SumOver(Price, T)
    BY <1>1, <2>4, SumDisjoint
  <2>5. a[p] = SumOver(Price, O \cap OfProduct(p))
    BY <2>1 DEF Amount, SumOver
  <2>6. SumOver(a, P \ {p}) = SumOver(Price, Of(P \ {p}))
    BY <1>3, <2>1
  <2> QED
    BY <2>2, <2>3, <2>4, <2>5, <2>6, <2>7
<1>4. Of(Products) = O
  BY <1>1
<1> HIDE DEF Good
<1>5. Products \in Good
  BY <1>2, <1>3, ProductsFinite, SubsetInduction
<1>6. SumOver(a, Products) = SumOver(Price, O)
  BY <1>4, <1>5 DEF Good
<1> QED
  BY <1>6 DEF Amount, SumOver

LEMMA AmountIs ==
  ASSUME NEW O \in SUBSET Orders
  PROVE  Amount(O) \in Nat /\ (Amount(O) = 0 <=> O = {})
<1>1. Amount(O) = SumOver(Price, O)
  BY DEF Amount, SumOver
<1> QED
  BY <1>1, MetricsAssumption, SumPositive

(* Whole percentages of m add up to at most 100, and to less by at most    *)
(* one for each.                                                           *)
LEMMA Shares ==
  ASSUME NEW D, IsFiniteSet(D), NEW a \in [D -> Nat], NEW A \in Nat \ {0},
         SumOver(a, D) = A, NEW q, q = [x \in D |-> (a[x] * 100) \div A]
  PROVE  SumOver(q, D) \in (100 - Cardinality(D))..100
<1>1. ASSUME NEW x \in D
      PROVE  q[x] \in Nat /\ A * q[x] <= 100 * a[x] /\ 100 * a[x] <= A * q[x] + A
  <2>1. PICK m \in Nat : m = a[x] * 100 /\ m = 100 * a[x]
    OBVIOUS
  <2>2. m \div A \in Nat /\ A * (m \div A) <= m /\ m <= A * (m \div A) + A
    OBVIOUS
  <2>3. q[x] = m \div A
    BY <2>1
  <2> QED
    BY <2>1, <2>2, <2>3
<1>2. q \in [D -> Nat]
  BY <1>1
<1>3. A * SumOver(q, D) <= 100 * A /\ 100 * A <= A * (SumOver(q, D) + Cardinality(D))
  BY <1>1, <1>2, FloorSum
<1>4. SumOver(q, D) \in Int /\ Cardinality(D) \in Nat
  BY <1>2, SumType, FS_CardinalityType
<1>5. ASSUME NEW x \in Int, NEW y \in Int, A * x <= A * y PROVE x <= y
  BY <1>5
<1>6. SumOver(q, D) <= 100
  BY <1>3, <1>4, <1>5
<1>7. 100 <= SumOver(q, D) + Cardinality(D)
  BY <1>3, <1>4, <1>5
<1> QED
  BY <1>4, <1>6, <1>7

(* After a recalculation that nothing disturbed the shares make up the     *)
(* whole, but for the parts that rounding takes off: DashboardAddsUp.      *)
THEOREM SharesAddUp == DashboardSpec => []DashboardAddsUp
<1>1. DashInv => DashboardAddsUp
  <2> SUFFICES ASSUME DashInv, clean
               PROVE  IF Dashboard.totalSales = 0
                      THEN SumOver(Dashboard.salesByProduct, Products) = 0
                      ELSE SumOver(Dashboard.salesByProduct, Products)
                             \in (100 - Cardinality(Products))..100
    BY DEF DashboardAddsUp, SumOver
  <2>1. /\ Dashboard.totalSales = Amount(monthly.sales)
        /\ Dashboard.salesByProduct = [p \in Products |-> Percentage(p)]
    BY DEF Dashboard
  <2>2. monthly.sales \in SUBSET Orders
    BY DEF DashInv, DashboardTypeOK, Row
  <2>3. PICK A \in Nat : A = Amount(monthly.sales)
    BY <2>2, AmountIs
  <2>4. \A p \in Products : product[p].sales = monthly.sales \cap OfProduct(p)
    BY DEF DashInv, CleanFits, Parts
  <2> DEFINE a == [p \in Products |-> Amount(monthly.sales \cap OfProduct(p))]
  <2>5. a \in [Products -> Nat] /\ a \in [Products -> Int]
    BY <2>2, AmountIs
  <2>6. SumOver(a, Products) = A
    <3>1. \A p \in Products : a[p] = Amount(monthly.sales \cap OfProduct(p))
      OBVIOUS
    <3> HIDE DEF a
    <3> QED
      BY <2>2, <2>3, <2>5, <3>1, SalesOfProducts
  <2>7. CASE monthly.sales = {}
    <3>1. A = 0
      BY <2>2, <2>3, <2>7, AmountIs
    <3>2. [p \in Products |-> Percentage(p)] = [p \in Products |-> 0]
      BY <2>7 DEF Percentage
    <3>3. SumOver([p \in Products |-> 0], Products) = 0
      BY ProductsFinite, SumZero
    <3> QED
      BY <2>1, <2>3, <3>1, <3>2, <3>3
  <2>8. CASE monthly.sales # {}
    <3>1. A \in Nat \ {0}
      BY <2>2, <2>3, <2>8, AmountIs
    <3>2. \A p \in Products : Percentage(p) = (a[p] * 100) \div A
      BY <2>3, <2>4, <2>8 DEF Percentage
    <3>3. [p \in Products |-> Percentage(p)] = [p \in Products |-> (a[p] * 100) \div A]
      BY <3>2
    <3> HIDE DEF a
    <3>4. PICK q : q = [p \in Products |-> (a[p] * 100) \div A]
      OBVIOUS
    <3>5. SumOver(q, Products) \in (100 - Cardinality(Products))..100
      BY <2>5, <2>6, <3>1, <3>4, ProductsFinite, Shares
    <3> QED
      BY <2>1, <2>3, <3>1, <3>3, <3>4, <3>5
  <2> QED
    BY <2>7, <2>8
<1> QED
  BY <1>1, SpecDashInv, PTL

-----------------------------------------------------------------------------
(* No sale is invented                                                     *)

(* What is COMPLETED has become so, and what has been read and what has    *)
(* been written stays sold, whatever becomes of the orders. *)
CompletedSold == \A o \in Orders : status[o] = "COMPLETED" => o \in sold

SoldInv ==
  /\ CompletedSold
  /\ \A d \in Days : daily[d].sales \subseteq sold
  /\ monthly.sales \subseteq sold
  /\ \A p \in Products : product[p].sales \subseteq sold
  /\ \A w \in Jobs : job[w] # Idle => job[w].read.sales \subseteq sold

LEMMA RowsStaySold ==
  ASSUME SoldInv, CompletedSold', sold \subseteq sold', UNCHANGED rows,
         \A w \in Jobs : job'[w] # Idle => job'[w].read.sales \subseteq sold'
  PROVE  SoldInv'
  BY DEF SoldInv, rows

LEMMA DisturbedReads ==
  ASSUME DashInv, SoldInv, sold \subseteq sold', NEW O \in SUBSET Orders, NEW v \in Jobs,
         job'[v] = Disturbed(job, O)[v]
  PROVE  job'[v] # Idle => job'[v].read.sales \subseteq sold'
<1> SUFFICES ASSUME job'[v] # Idle
             PROVE  job'[v].read.sales \subseteq sold'
  OBVIOUS
<1>1. job[v] # Idle /\ job'[v] = DisturbedOne(job[v], O)
  BY DisturbedJobs DEF DashInv
<1>2. PICK j \in Job : j = job[v]
  BY <1>1 DEF DashInv, DashboardTypeOK
<1>3. DisturbedOne(j, O).read = j.read
  BY DEF DisturbedOne, Job
<1> QED
  BY <1>1, <1>2, <1>3 DEF SoldInv

LEMMA DisturbedBut ==
  ASSUME NEW w \in Jobs, NEW O \in SUBSET Orders, NEW k, job' = [Disturbed(job, O) EXCEPT ![w] = k]
  PROVE  job'[w] = k /\ \A v \in Jobs \ {w} : job'[v] = Disturbed(job, O)[v]
<1>1. PICK D : D = Disturbed(job, O)
  OBVIOUS
<1>2. DOMAIN D = Jobs
  BY <1>1 DEF Disturbed
<1>3. job' = [D EXCEPT ![w] = k]
  BY <1>1
<1>4. job'[w] = k /\ \A v \in Jobs \ {w} : job'[v] = D[v]
  BY <1>2, <1>3
<1> QED
  BY <1>1, <1>4

LEMMA OrdersKeepSold ==
  ASSUME DashInv, SoldInv, NEW o \in Orders, CreateOrder(o) \/ Report(o)
  PROVE  SoldInv'
<1>1. /\ sold \subseteq sold' /\ UNCHANGED rows /\ {o} \in SUBSET Orders
      /\ CompletedSold'
  BY DEF CreateOrder, Report, DashInv, DashboardTypeOK, SoldInv, CompletedSold
<1>2. \A v \in Jobs : job'[v] = Disturbed(job, {o})[v]
  BY DEF CreateOrder, Report
<1> QED
  BY <1>1, <1>2, DisturbedReads, RowsStaySold

LEMMA ExpiryKeepsSold ==
  ASSUME SoldInv, NEW d, NEW O \in SUBSET Unpaid(d), SetExpired(O), sold' = sold
  PROVE  CompletedSold' /\ O \in SUBSET Orders
  BY DEF Unpaid, SetExpired, SoldInv, CompletedSold

LEMMA ExpireOrdersKeepsSold ==
  ASSUME DashInv, SoldInv, ExpireOrders
  PROVE  SoldInv'
<1>1. PICK O \in SUBSET Unpaid(today) :
        SetExpired(O) /\ job' = Disturbed(job, O) /\ UNCHANGED <<sold, rows>>
  BY DEF ExpireOrders
<1>2. CompletedSold' /\ O \in SUBSET Orders
  BY <1>1, ExpiryKeepsSold
<1> QED
  BY <1>1, <1>2, DisturbedReads, RowsStaySold

(* A recalculation that begins has read nothing. *)
LEMMA StartKeepsSold ==
  ASSUME DashInv, SoldInv, CompletedSold', sold \subseteq sold', UNCHANGED rows, NEW w \in Jobs,
         NEW s \in Stages, NEW O \in SUBSET Orders, NEW P \in SUBSET Orders, NEW d \in Days,
         job'[w] = NewJob(s, O, d),
         \A v \in Jobs \ {w} : job'[v] = Disturbed(job, P)[v]
  PROVE  SoldInv'
<1>1. job'[w].read.sales = {}
  BY NewJobs DEF EmptyRow
<1>2. \A v \in Jobs \ {w} : job'[v] # Idle => job'[v].read.sales \subseteq sold'
  BY DisturbedReads
<1> QED
  BY <1>1, <1>2, RowsStaySold

LEMMA CompleteKeepsSold ==
  ASSUME DashInv, SoldInv, NEW w \in Jobs, NEW o \in Orders, Complete(w, o)
  PROVE  SoldInv'
<1>1. /\ day[o] # 0 /\ status' = [status EXCEPT ![o] = "COMPLETED"] /\ sold' = sold \cup {o}
      /\ job' = [Disturbed(job, {o}) EXCEPT ![w] = Started(w, "find", {o}, DayOf(o))[w]]
      /\ UNCHANGED rows
  BY DEF Complete
<1>2. sold \subseteq sold' /\ CompletedSold'
  BY <1>1 DEF SoldInv, CompletedSold, DashInv, DashboardTypeOK
<1>3. DayOf(o) \in Days /\ {o} \in SUBSET Orders /\ "find" \in Stages
  BY <1>1, DaysAreNumbers, MetricsAssumption DEF DayOf, DashInv, DashboardTypeOK, Days, Stages
<1>4. Started(w, "find", {o}, DayOf(o))[w] = NewJob("find", {o}, DayOf(o))
  <2>1. PICK D, k : D = Disturbed(job, {}) /\ k = NewJob("find", {o}, DayOf(o))
    OBVIOUS
  <2>2. DOMAIN D = Jobs
    BY <2>1 DEF Disturbed
  <2>3. Started(w, "find", {o}, DayOf(o)) = [D EXCEPT ![w] = k]
    BY <2>1, StartedIs
  <2> QED
    BY <2>1, <2>2, <2>3
<1>5. /\ job'[w] = NewJob("find", {o}, DayOf(o))
      /\ \A v \in Jobs \ {w} : job'[v] = Disturbed(job, {o})[v]
  <2>1. PICK O \in SUBSET Orders : O = {o}
    OBVIOUS
  <2>2. PICK k : k = NewJob("find", {o}, DayOf(o))
    OBVIOUS
  <2>3. job' = [Disturbed(job, O) EXCEPT ![w] = k]
    BY <1>1, <1>4, <2>1, <2>2
  <2>4. job'[w] = k /\ \A v \in Jobs \ {w} : job'[v] = Disturbed(job, O)[v]
    BY <2>3, DisturbedBut
  <2> QED
    BY <2>1, <2>2, <2>4
<1> QED
  BY <1>1, <1>2, <1>3, <1>5, StartKeepsSold

LEMMA RecalculateKeepsSold ==
  ASSUME DashInv, SoldInv, NEW w \in Jobs, NEW d \in Days, Recalculate(w, d)
  PROVE  SoldInv'
<1>1. /\ job' = [Disturbed(job, {}) EXCEPT ![w] = NewJob("expire", {}, d)]
      /\ UNCHANGED rows /\ status' = status /\ sold' = sold
  BY StartedIs DEF Recalculate, orderVars
<1>2. CompletedSold' /\ {} \in SUBSET Orders /\ "expire" \in Stages
  BY <1>1 DEF SoldInv, CompletedSold, Stages
<1>3. /\ job'[w] = NewJob("expire", {}, d)
      /\ \A v \in Jobs \ {w} : job'[v] = Disturbed(job, {})[v]
  <2>1. PICK O \in SUBSET Orders : O = {}
    OBVIOUS
  <2>2. PICK k : k = NewJob("expire", {}, d)
    OBVIOUS
  <2>3. job' = [Disturbed(job, O) EXCEPT ![w] = k]
    BY <1>1, <2>1, <2>2
  <2>4. job'[w] = k /\ \A v \in Jobs \ {w} : job'[v] = Disturbed(job, O)[v]
    BY <2>3, DisturbedBut
  <2> QED
    BY <2>1, <2>2, <2>4
<1> QED
  BY <1>1, <1>2, <1>3, StartKeepsSold

LEMMA ExpireFirstKeepsSold ==
  ASSUME DashInv, SoldInv, NEW w \in Jobs, ExpireFirst(w)
  PROVE  SoldInv'
<1>1. PICK O \in SUBSET Unpaid(job[w].day) :
        /\ SetExpired(O) /\ UNCHANGED <<sold, rows>>
        /\ job' = [Disturbed(job, O) EXCEPT ![w] = [job[w] EXCEPT !.at = "readDay"]]
  BY DEF ExpireFirst
<1>2. CompletedSold' /\ O \in SUBSET Orders
  BY <1>1, ExpiryKeepsSold
<1>3. PICK j \in Job : j = job[w]
  BY TheJob DEF ExpireFirst, Stages
<1>4. job[w] # Idle /\ [j EXCEPT !.at = "readDay"].read = j.read
  BY TheJob DEF ExpireFirst, Stages, Job
<1>5. /\ job'[w] = [j EXCEPT !.at = "readDay"]
      /\ \A v \in Jobs \ {w} : job'[v] = Disturbed(job, O)[v]
  <2>1. PICK k : k = [j EXCEPT !.at = "readDay"]
    OBVIOUS
  <2>2. job' = [Disturbed(job, O) EXCEPT ![w] = k]
    BY <1>1, <1>3, <2>1
  <2>3. job'[w] = k /\ \A v \in Jobs \ {w} : job'[v] = Disturbed(job, O)[v]
    BY <1>2, <2>2, DisturbedBut
  <2> QED
    BY <2>1, <2>3
<1>6. job'[w].read.sales \subseteq sold'
  BY <1>1, <1>3, <1>4, <1>5 DEF SoldInv
<1>7. \A v \in Jobs \ {w} : job'[v] # Idle => job'[v].read.sales \subseteq sold'
  BY <1>1, <1>2, <1>5, DisturbedReads
<1> QED
  BY <1>1, <1>2, <1>6, <1>7, RowsStaySold

(* A step of one recalculation: it goes on with what it has read, with     *)
(* nothing, or with what is sold now, and writes what it has read.         *)
LEMMA StepKeepsSold ==
  ASSUME SoldInv, NEW w \in Jobs, status' = status, sold' = sold,
         \A v \in Jobs \ {w} : job'[v] = job[v],
         job'[w] # Idle => job'[w].read.sales \subseteq sold,
         \A d \in Days : daily'[d].sales \subseteq sold,
         monthly'.sales \subseteq sold,
         \A p \in Products : product'[p].sales \subseteq sold
  PROVE  SoldInv'
<1>1. CompletedSold'
  BY DEF SoldInv, CompletedSold
<1>2. \A v \in Jobs : job'[v] # Idle => job'[v].read.sales \subseteq sold
  BY DEF SoldInv
<1> QED
  BY <1>1, <1>2 DEF SoldInv

LEMMA ReadKeepsSold ==
  ASSUME DashInv, SoldInv, NEW w \in Jobs, job[w] \in Job, NEW O \in SUBSET Orders,
         NEW s \in Stages, Read(w, O, s)
  PROVE  SoldInv'
<1>1. PICK k : k = ReadOne(job[w], O, s)
  OBVIOUS
<1>2. job' = [job EXCEPT ![w] = k] /\ k.read = RowOf(O)
  BY <1>1, ReadJob
<1>3. RowOf(O).sales \subseteq sold
  BY DEF RowOf, Counted, SoldInv, CompletedSold
<1>4. job \in [Jobs -> Job \cup {Idle}] /\ UNCHANGED <<status, sold, daily, monthly, product>>
  BY DEF Read, DashInv, DashboardTypeOK, orderVars, rows
<1>5. job'[w] = k /\ \A v \in Jobs \ {w} : job'[v] = job[v]
  BY <1>2, <1>4
<1> QED
  BY <1>2, <1>3, <1>4, <1>5, StepKeepsSold DEF SoldInv

LEMMA ReadsKeepSold ==
  ASSUME DashInv, SoldInv, NEW w \in Jobs, ReadDay(w) \/ ReadMonth(w) \/ ReadProducts(w)
  PROVE  SoldInv'
<1>1. job[w] \in Job
  BY TheJob DEF ReadDay, ReadMonth, ReadProducts, Stages
<1>2. ASSUME NEW O \in SUBSET Orders, NEW s \in Stages, Read(w, O, s) PROVE SoldInv'
  BY <1>1, <1>2, ReadKeepsSold
<1>3. UNION {CreatedOn(d) : d \in Days} \in SUBSET Orders /\ OrdersOfDay(job[w].day) \in SUBSET Orders
  BY DEF CreatedOn, OrdersOfDay
<1>4. {"writeDay", "writeMonth", "writeProducts"} \subseteq Stages
  BY DEF Stages
<1> QED
  BY <1>2, <1>3, <1>4 DEF ReadDay, ReadMonth, ReadProducts

(* A write: the recalculation goes on with nothing read, with the same, or *)
(* ends. *)
LEMMA WritesKeepSold ==
  ASSUME DashInv, SoldInv, NEW w \in Jobs,
         FindOrder(w) \/ WriteDay(w) \/ WriteMonth(w) \/ WriteProduct(w) \/ Fail(w)
  PROVE  SoldInv'
<1>1. job[w] \in Job /\ job[w] # Idle /\ job \in [Jobs -> Job \cup {Idle}]
  <2>1. job[w] # Idle
    BY DEF FindOrder, WriteDay, WriteMonth, WriteProduct, Fail, Idle
  <2> QED
    BY <2>1 DEF DashInv, DashboardTypeOK
<1>2. PICK j \in Job : j = job[w]
  BY <1>1
<1>3. j.read.sales \subseteq sold
  BY <1>1, <1>2 DEF SoldInv
<1>4. /\ \A s \in Stages : [j EXCEPT !.at = s, !.read = EmptyRow].read.sales = {}
      /\ [j EXCEPT !.at = "readMonth", !.for = {}, !.day = 1, !.read = EmptyRow,
                   !.missed = {}].read.sales = {}
      /\ \A P \in SUBSET Products : [j EXCEPT !.todo = P].read = j.read
  BY DEF Job, EmptyRow
<1>5. status' = status /\ sold' = sold
  BY DEF FindOrder, WriteDay, WriteMonth, WriteProduct, Fail, orderVars
<1>6. \A v \in Jobs \ {w} : job'[v] = job[v]
  BY <1>1 DEF FindOrder, WriteDay, WriteMonth, WriteProduct, Fail, GoTo, Ended
<1>7. job'[w] # Idle => job'[w].read.sales \subseteq sold
  <2>1. CASE FindOrder(w)
    <3>1. job'[w] = Idle \/ job'[w] = [j EXCEPT !.at = "readDay", !.read = EmptyRow]
      BY <1>1, <1>2, <2>1 DEF FindOrder, GoTo
    <3> QED
      BY <1>4, <3>1 DEF Stages
  <2>2. CASE WriteDay(w)
    <3>1. job'[w] = [j EXCEPT !.at = "readMonth", !.for = {}, !.day = 1, !.read = EmptyRow,
                              !.missed = {}]
      BY <1>1, <1>2, <2>2 DEF WriteDay
    <3> QED
      BY <1>4, <3>1
  <2>3. CASE WriteMonth(w)
    <3>1. job'[w] = [j EXCEPT !.at = "readProducts", !.read = EmptyRow]
      BY <1>1, <1>2, <2>3 DEF WriteMonth, GoTo
    <3> QED
      BY <1>4, <3>1 DEF Stages
  <2>4. CASE WriteProduct(w)
    <3>1. job'[w] = Idle \/ \E p \in job[w].todo : job'[w] = [j EXCEPT !.todo = j.todo \ {p}]
      BY <1>1, <1>2, <2>4 DEF WriteProduct, Ended
    <3>2. \A p : j.todo \ {p} \in SUBSET Products
      BY DEF Job
    <3> QED
      BY <1>3, <1>4, <3>1, <3>2
  <2>5. CASE Fail(w)
    BY <1>1, <2>5 DEF Fail
  <2> QED
    BY <2>1, <2>2, <2>3, <2>4, <2>5
<1>8. \A d \in Days : daily'[d].sales \subseteq sold
  <2>1. daily' = daily \/ daily' = [daily EXCEPT ![j.day] = j.read]
    BY <1>2 DEF FindOrder, WriteDay, WriteMonth, WriteProduct, Fail, rows
  <2>2. daily \in [Days -> Row]
    BY DEF DashInv, DashboardTypeOK
  <2> QED
    BY <1>3, <2>1, <2>2 DEF SoldInv
<1>9. monthly'.sales \subseteq sold
  <2>1. monthly' = monthly \/ monthly' = j.read
    BY <1>2 DEF FindOrder, WriteDay, WriteMonth, WriteProduct, Fail, rows
  <2> QED
    BY <1>3, <2>1 DEF SoldInv
<1>10. \A p \in Products : product'[p].sales \subseteq sold
  <2>1. product' = product \/ \E p \in Products : product' = [product EXCEPT ![p] = ProductRow(j.read, p)]
    <3>1. job[w].todo \subseteq Products
      BY <1>1 DEF Job
    <3> QED
      BY <1>2, <3>1 DEF FindOrder, WriteDay, WriteMonth, WriteProduct, Fail, rows
  <2>2. product \in [Products -> Row] /\ \A p \in Products : ProductRow(j.read, p).sales \subseteq j.read.sales
    BY DEF DashInv, DashboardTypeOK, ProductRow
  <2> QED
    BY <1>3, <2>1, <2>2 DEF SoldInv
<1> QED
  BY <1>5, <1>6, <1>7, <1>8, <1>9, <1>10, StepKeepsSold

LEMMA NextSoldInv == DashInv /\ SoldInv /\ [DashboardNext]_dashboardVars => SoldInv'
<1> SUFFICES ASSUME DashInv, SoldInv, [DashboardNext]_dashboardVars PROVE SoldInv'
  OBVIOUS
<1>1. ASSUME status' = status, sold' = sold, job' = job, UNCHANGED rows PROVE SoldInv'
  BY <1>1 DEF SoldInv, CompletedSold, rows
<1>2. CASE NextDay \/ UNCHANGED dashboardVars
  BY <1>1, <1>2 DEF NextDay, dashboardVars, orderVars
<1>3. ASSUME NEW w \in Jobs, JobStep(w) PROVE SoldInv'
  BY <1>3, ExpireFirstKeepsSold, ReadsKeepSold, WritesKeepSold DEF JobStep
<1> QED
  BY <1>2, <1>3, OrdersKeepSold, CompleteKeepsSold, RecalculateKeepsSold, ExpireOrdersKeepsSold
  DEF DashboardNext

THEOREM SpecSoldInv == DashboardSpec => []SoldInv
<1>1. DashboardInit => SoldInv
  BY DEF DashboardInit, SoldInv, CompletedSold, EmptyRow
<1> QED
  BY <1>1, NextSoldInv, SpecDashInv, PTL DEF DashboardSpec

(* No total holds an order that never was completed, or one of another day *)
(* or product, whatever is reported about it later: OnlySoldCounted.       *)
THEOREM NoSaleInvented == DashboardSpec => []OnlySoldCounted
<1>1. DashInv /\ SoldInv => OnlySoldCounted
  <2> SUFFICES ASSUME DashInv, SoldInv PROVE OnlySoldCounted
    OBVIOUS
  <2>1. \A d \in Days : daily[d].sales \subseteq CreatedOn(d)
    BY DEF DashInv, DashboardTypeOK, Row
  <2>2. \A p \in Products : product[p].sales \subseteq OfProduct(p)
    BY DEF DashInv, DashboardTypeOK, ProductsFit, Row
  <2> QED
    BY <2>1, <2>2 DEF SoldInv, OnlySoldCounted
<1> QED
  BY <1>1, SpecDashInv, SpecSoldInv, PTL
=============================================================================
