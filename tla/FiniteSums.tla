----------------------------- MODULE FiniteSums -----------------------------
(***************************************************************************)
(* Sums of a function over a finite set, SumFunctionOnSet of the community *)
(* modules: the facts that the proofs about reserved capital and the paper *)
(* account need.  A sum is defined by taking out one element after the     *)
(* other; the lemmas take out any, and compare sums with each other.       *)
(*                                                                         *)
(* Induction over a finite set is the choice of a smallest counterexample, *)
(* a set whose strict subsets are none.                                    *)
(***************************************************************************)
EXTENDS Integers, FiniteSets, Functions, FiniteSetTheorems, TLAPS

LEMMA SmallestSet ==
  ASSUME NEW S, IsFiniteSet(S), NEW B \in SUBSET SUBSET S, B # {}
  PROVE  \E T \in B : \A U \in B : U \subseteq T => U = T
<1>1. IsWellFoundedOn(StrictSubsetOrdering(S), SUBSET S)
  BY FS_FiniteSubsetsOfFinite, FS_StrictSubsetOrderingWellFounded
<1>2. PICK T \in B : \A U \in B : ~ (<<U, T>> \in StrictSubsetOrdering(S))
  BY <1>1, WFMin
<1>3. QED BY <1>2 DEF StrictSubsetOrdering

LEMMA SmallestNumber ==
  ASSUME NEW A \in SUBSET Nat, A # {}
  PROVE  \E n \in A : \A m \in A : n <= m
<1>1. PICK k \in A : TRUE
  OBVIOUS
<1> DEFINE S == 0..k
           B == {0..n : n \in {a \in A : a <= k}}
<1>2. B # {} BY <1>1
<1>3. IsFiniteSet(S) BY <1>1, FS_Interval
<1>4. B \in SUBSET SUBSET S BY <1>1
<1> HIDE DEF S, B
<1>5. PICK T \in B : \A U \in B : U \subseteq T => U = T
  BY <1>2, <1>3, <1>4, SmallestSet
<1> USE DEF B
<1>6. PICK n \in A : n <= k /\ T = 0..n BY <1>5
<1>7. ASSUME NEW m \in A, m < n PROVE FALSE
  <2>1. 0..m \in B /\ 0..m \subseteq 0..n BY <1>1, <1>6, <1>7
  <2>2. 0..m = 0..n BY <1>5, <1>6, <2>1
  <2>3. n \in 0..n /\ n \notin 0..m BY <1>7
  <2>4. QED BY <2>2, <2>3
<1>8. QED BY <1>6, <1>7

LEMMA ImageIsFinite ==
  ASSUME NEW S, IsFiniteSet(S), NEW f PROVE IsFiniteSet({f[x] : x \in S})
<1> DEFINE Image(s) == {f[x] : x \in s}
           B == {s \in SUBSET S : ~IsFiniteSet(Image(s))}
<1>1. SUFFICES ASSUME B # {} PROVE FALSE
  OBVIOUS
<1>2. PICK t \in B : \A s \in B : s \subseteq t => s = t
  <2>1. B \in SUBSET SUBSET S OBVIOUS
  <2> HIDE DEF B
  <2>2. QED BY <1>1, <2>1, SmallestSet
<1>3. PICK x \in t : TRUE
  <2>1. Image({}) = {} OBVIOUS
  <2>2. t # {} BY <1>2, <2>1, FS_EmptySet
  <2>3. QED BY <2>2
<1>4. IsFiniteSet(Image(t \ {x}))
  <2>1. t \ {x} \in SUBSET S /\ t \ {x} \subseteq t /\ t \ {x} # t BY <1>2, <1>3
  <2>2. t \ {x} \notin B
    <3> HIDE DEF B
    <3>1. QED BY <1>2, <2>1
  <2> HIDE DEF Image
  <2>3. QED BY <2>1, <2>2
<1>5. Image(t) = Image(t \ {x}) \cup {f[x]} BY <1>3
<1>6. IsFiniteSet(Image(t))
  <2>1. IsFiniteSet(Image(t \ {x}) \cup {f[x]})
    <3> HIDE DEF Image
    <3>1. QED BY <1>4, FS_AddElement
  <2>2. QED BY <1>5, <2>1
<1>7. QED BY <1>2, <1>6

LEMMA PairHasTwo ==
  ASSUME NEW x, NEW y, x # y PROVE IsFiniteSet({x, y}) /\ Cardinality({x, y}) = 2
<1>1. {x, y} = {x} \cup {y} /\ y \notin {x} OBVIOUS
<1>2. IsFiniteSet({x}) /\ Cardinality({x}) = 1 BY FS_Singleton
<1>3. QED BY <1>1, <1>2, FS_AddElement

-----------------------------------------------------------------------------
(* The recursive definition                                                *)

Pick(s) == CHOOSE x \in s : TRUE
Sums(w, S, g) ==
  g = [s \in SUBSET S |-> IF s = {} THEN 0 ELSE w[Pick(s)] + g[s \ {Pick(s)}]]
Solution(w, S) == CHOOSE g : Sums(w, S, g)

LEMMA SumIsSolution == \A w, S : SumFunctionOnSet(w, S) = Solution(w, S)[S]
BY DEF SumFunctionOnSet, FoldFunctionOnSet, MapThenFoldSet, Solution, Sums, Pick

LEMMA PickIn == \A s : s # {} => Pick(s) \in s /\ s \ {Pick(s)} # s /\ s \ {Pick(s)} \subseteq s
BY DEF Pick

LEMMA SumsAgree ==
  ASSUME NEW w, NEW S, NEW T, IsFiniteSet(S), NEW g, NEW h, Sums(w, S, g), Sums(w, T, h),
         NEW u \in SUBSET S, u \subseteq T
  PROVE  g[u] = h[u]
<1> DEFINE B == {s \in SUBSET u : g[s] # h[s]}
<1>1. SUFFICES ASSUME B # {} PROVE FALSE
  OBVIOUS
<1>2. IsFiniteSet(u) BY FS_Subset
<1>3. PICK t \in B : \A s \in B : s \subseteq t => s = t
  <2>1. B \in SUBSET SUBSET u OBVIOUS
  <2> HIDE DEF B
  <2>2. QED BY <1>1, <1>2, <2>1, SmallestSet
<1>4. t # {} BY <1>3 DEF Sums
<1>5. g[t] = w[Pick(t)] + g[t \ {Pick(t)}] /\ h[t] = w[Pick(t)] + h[t \ {Pick(t)}]
  BY <1>3, <1>4 DEF Sums
<1>6. t \ {Pick(t)} \in SUBSET u /\ t \ {Pick(t)} \notin B
  BY <1>3, <1>4, PickIn
<1>7. QED BY <1>3, <1>5, <1>6

LEMMA SolutionExists ==
  ASSUME NEW w, NEW S, IsFiniteSet(S) PROVE Sums(w, S, Solution(w, S))
<1> DEFINE B == {s \in SUBSET S : ~ \E g : Sums(w, s, g)}
<1>1. SUFFICES ASSUME B # {} PROVE FALSE
  BY DEF Solution
<1>2. PICK t \in B : \A s \in B : s \subseteq t => s = t
  <2>1. B \in SUBSET SUBSET S OBVIOUS
  <2> HIDE DEF B
  <2>2. QED BY <1>1, <2>1, SmallestSet
<1>3. ASSUME NEW s \in SUBSET t, s # t PROVE Sums(w, s, Solution(w, s)) /\ IsFiniteSet(s)
  <2>1. s \in SUBSET S /\ s \notin B BY <1>2, <1>3
  <2>2. QED BY <2>1, FS_Subset DEF Solution
<1>4. ASSUME NEW s \in SUBSET t, s # t, s # {}
      PROVE  Solution(w, s)[s] = w[Pick(s)] + Solution(w, s \ {Pick(s)})[s \ {Pick(s)}]
  <2>1. s \ {Pick(s)} \in SUBSET t /\ s \ {Pick(s)} # t /\ s \ {Pick(s)} \subseteq s
    BY <1>4, PickIn
  <2>2. Solution(w, s)[s \ {Pick(s)}] = Solution(w, s \ {Pick(s)})[s \ {Pick(s)}]
    BY <1>3, <1>4, <2>1, SumsAgree
  <2>3. Solution(w, s)[s] = w[Pick(s)] + Solution(w, s)[s \ {Pick(s)}]
    BY <1>3, <1>4 DEF Sums
  <2>4. QED BY <2>2, <2>3
<1>5. ASSUME NEW s \in SUBSET t, s # t, s = {} PROVE Solution(w, s)[s] = 0
  BY <1>3, <1>5 DEF Sums
<1> DEFINE x == Pick(t)
           G == [s \in SUBSET t |->
                   IF s # t THEN Solution(w, s)[s]
                   ELSE IF t = {} THEN 0 ELSE w[x] + Solution(w, t \ {x})[t \ {x}]]
<1>6. ASSUME NEW s \in SUBSET t
      PROVE  G[s] = IF s = {} THEN 0 ELSE w[Pick(s)] + G[s \ {Pick(s)}]
  <2>1. s # {} => s \ {Pick(s)} \in SUBSET t /\ s \ {Pick(s)} # t
    BY PickIn
  <2>2. CASE s = {} BY <1>5, <2>2
  <2>3. CASE s # {} /\ s # t BY <1>4, <2>1, <2>3
  <2>4. CASE s # {} /\ s = t BY <2>1, <2>4
  <2>5. QED BY <2>2, <2>3, <2>4
<1>7. Sums(w, t, G) BY <1>6 DEF Sums
<1>8. QED BY <1>2, <1>7

LEMMA SumUnfolds ==
  ASSUME NEW w, NEW S, IsFiniteSet(S)
  PROVE  SumFunctionOnSet(w, S) =
           IF S = {} THEN 0
           ELSE w[Pick(S)] + SumFunctionOnSet(w, S \ {Pick(S)})
<1>1. Solution(w, S)[S] =
        IF S = {} THEN 0 ELSE w[Pick(S)] + Solution(w, S)[S \ {Pick(S)}]
  <2>1. Sums(w, S, Solution(w, S)) BY SolutionExists
  <2>2. QED BY <2>1 DEF Sums
<1>2. CASE S = {} BY <1>1, <1>2, SumIsSolution
<1>3. CASE S # {}
  <2>1. S \ {Pick(S)} \subseteq S /\ IsFiniteSet(S \ {Pick(S)})
    BY FS_RemoveElement
  <2>2. Solution(w, S)[S \ {Pick(S)}] = Solution(w, S \ {Pick(S)})[S \ {Pick(S)}]
    BY <2>1, SolutionExists, SumsAgree
  <2>3. QED BY <1>1, <1>3, <2>2, SumIsSolution
<1>4. QED BY <1>2, <1>3

-----------------------------------------------------------------------------
(* Sums of integers                                                        *)

LEMMA SumEmpty == \A w : SumFunctionOnSet(w, {}) = 0
BY SumUnfolds, FS_EmptySet

LEMMA SumIsInt ==
  ASSUME NEW w, NEW S, IsFiniteSet(S), \A x \in S : w[x] \in Int
  PROVE  SumFunctionOnSet(w, S) \in Int
<1> DEFINE B == {s \in SUBSET S : SumFunctionOnSet(w, s) \notin Int}
<1>1. SUFFICES ASSUME B # {} PROVE FALSE
  OBVIOUS
<1>2. PICK t \in B : \A s \in B : s \subseteq t => s = t
  <2>1. B \in SUBSET SUBSET S OBVIOUS
  <2> HIDE DEF B
  <2>2. QED BY <1>1, <2>1, SmallestSet
<1>3. IsFiniteSet(t) BY <1>2, FS_Subset
<1>4. t # {} BY <1>2, SumEmpty
<1>5. Pick(t) \in t /\ t \ {Pick(t)} \notin B /\ t \ {Pick(t)} \in SUBSET S
  BY <1>2, <1>4, PickIn
<1>6. SumFunctionOnSet(w, t) = w[Pick(t)] + SumFunctionOnSet(w, t \ {Pick(t)})
  BY <1>3, <1>4, SumUnfolds
<1>7. QED BY <1>2, <1>5, <1>6

(* Any element may be taken out first.                                     *)
LEMMA SumTakesOut ==
  ASSUME NEW w, NEW S, IsFiniteSet(S), \A x \in S : w[x] \in Int, NEW e \in S
  PROVE  SumFunctionOnSet(w, S) = w[e] + SumFunctionOnSet(w, S \ {e})
<1> DEFINE Out(s) == \A x \in s : SumFunctionOnSet(w, s) = w[x] + SumFunctionOnSet(w, s \ {x})
           B == {s \in SUBSET S : ~ Out(s)}
<1>1. SUFFICES ASSUME B # {} PROVE FALSE
  OBVIOUS
<1>2. PICK t \in B : \A s \in B : s \subseteq t => s = t
  <2>1. B \in SUBSET SUBSET S OBVIOUS
  <2> HIDE DEF B
  <2>2. QED BY <1>1, <2>1, SmallestSet
<1>3. PICK x \in t : SumFunctionOnSet(w, t) # w[x] + SumFunctionOnSet(w, t \ {x})
  BY <1>2
<1> DEFINE y == Pick(t)
<1>4. y \in t /\ SumFunctionOnSet(w, t) = w[y] + SumFunctionOnSet(w, t \ {y})
  BY <1>2, <1>3, FS_Subset, SumUnfolds, PickIn
<1> HIDE DEF y
<1>5. x # y BY <1>3, <1>4
<1>6. Out(t \ {x}) /\ Out(t \ {y}) BY <1>2, <1>3, <1>4
<1>7. /\ SumFunctionOnSet(w, t \ {x}) = w[y] + SumFunctionOnSet(w, (t \ {x}) \ {y})
      /\ SumFunctionOnSet(w, t \ {y}) = w[x] + SumFunctionOnSet(w, (t \ {y}) \ {x})
  BY <1>3, <1>4, <1>5, <1>6
<1>8. (t \ {y}) \ {x} = (t \ {x}) \ {y} OBVIOUS
<1>9. w[x] \in Int /\ w[y] \in Int /\ SumFunctionOnSet(w, (t \ {x}) \ {y}) \in Int
  <2>1. (t \ {x}) \ {y} \subseteq S BY <1>2
  <2>2. IsFiniteSet((t \ {x}) \ {y}) BY <2>1, FS_Subset
  <2>3. QED BY <1>2, <1>3, <1>4, <2>1, <2>2, SumIsInt
<1>10. SumFunctionOnSet(w, t \ {y}) = w[x] + SumFunctionOnSet(w, (t \ {x}) \ {y})
  BY <1>7, <1>8
<1> DEFINE r == SumFunctionOnSet(w, (t \ {x}) \ {y})
<1>11. SumFunctionOnSet(w, t) = w[y] + (w[x] + r) BY <1>4, <1>10
<1>12. SumFunctionOnSet(w, t) # w[x] + (w[y] + r) BY <1>3, <1>7
<1>13. w[x] \in Int /\ w[y] \in Int /\ r \in Int BY <1>9
<1> HIDE DEF B, Out, r
<1>14. QED BY <1>11, <1>12, <1>13

LEMMA SumAdds ==
  ASSUME NEW w, NEW S, IsFiniteSet(S), NEW e, e \notin S, \A x \in S \cup {e} : w[x] \in Int
  PROVE  SumFunctionOnSet(w, S \cup {e}) = SumFunctionOnSet(w, S) + w[e]
<1>1. IsFiniteSet(S \cup {e}) BY FS_AddElement
<1>2. SumFunctionOnSet(w, S \cup {e}) = w[e] + SumFunctionOnSet(w, (S \cup {e}) \ {e})
  BY <1>1, SumTakesOut
<1>3. (S \cup {e}) \ {e} = S OBVIOUS
<1>4. SumFunctionOnSet(w, S) \in Int /\ w[e] \in Int BY SumIsInt
<1>5. SumFunctionOnSet(w, S \cup {e}) = w[e] + SumFunctionOnSet(w, S) BY <1>2, <1>3
<1>6. QED BY <1>4, <1>5

-----------------------------------------------------------------------------
(* Comparing sums                                                          *)

LEMMA SumMonotone ==
  ASSUME NEW w, NEW v, NEW S, IsFiniteSet(S),
         \A x \in S : w[x] \in Int /\ v[x] \in Int /\ w[x] <= v[x]
  PROVE  SumFunctionOnSet(w, S) <= SumFunctionOnSet(v, S)
<1> DEFINE B == {s \in SUBSET S : ~ (SumFunctionOnSet(w, s) <= SumFunctionOnSet(v, s))}
<1>1. SUFFICES ASSUME B # {} PROVE FALSE
  OBVIOUS
<1>2. PICK t \in B : \A s \in B : s \subseteq t => s = t
  <2>1. B \in SUBSET SUBSET S OBVIOUS
  <2> HIDE DEF B
  <2>2. QED BY <1>1, <2>1, SmallestSet
<1>3. t # {}
  <2>1. SumFunctionOnSet(w, {}) <= SumFunctionOnSet(v, {}) BY SumEmpty
  <2>2. QED BY <1>2, <2>1
<1>4. PICK e \in t : TRUE BY <1>3
<1>5. IsFiniteSet(t) /\ IsFiniteSet(t \ {e}) BY <1>2, FS_Subset, FS_RemoveElement
<1>6. /\ SumFunctionOnSet(w, t) = w[e] + SumFunctionOnSet(w, t \ {e})
      /\ SumFunctionOnSet(v, t) = v[e] + SumFunctionOnSet(v, t \ {e})
  BY <1>2, <1>4, <1>5, SumTakesOut
<1>7. SumFunctionOnSet(w, t \ {e}) \in Int /\ SumFunctionOnSet(v, t \ {e}) \in Int
  BY <1>2, <1>5, SumIsInt
<1>8. SumFunctionOnSet(w, t \ {e}) <= SumFunctionOnSet(v, t \ {e})
  BY <1>2, <1>4
<1>9. w[e] \in Int /\ v[e] \in Int /\ w[e] <= v[e] BY <1>2, <1>4
<1>10. ~ (SumFunctionOnSet(w, t) <= SumFunctionOnSet(v, t)) BY <1>2
<1> HIDE DEF B
<1>11. QED BY <1>6, <1>7, <1>8, <1>9, <1>10

LEMMA SumEqual ==
  ASSUME NEW w, NEW v, NEW S, IsFiniteSet(S), \A x \in S : w[x] \in Int /\ w[x] = v[x]
  PROVE  SumFunctionOnSet(w, S) = SumFunctionOnSet(v, S)
<1>1. SumFunctionOnSet(w, S) <= SumFunctionOnSet(v, S) BY SumMonotone
<1>2. SumFunctionOnSet(v, S) <= SumFunctionOnSet(w, S) BY SumMonotone
<1>3. SumFunctionOnSet(w, S) \in Int /\ SumFunctionOnSet(v, S) \in Int BY SumIsInt
<1>4. QED BY <1>1, <1>2, <1>3

(* Of amounts that are not negative: a sum is one too, each is at most the *)
(* sum, and a union sums to no more than its parts.                        *)
LEMMA SumOfUnion ==
  ASSUME NEW w, NEW S, NEW T, IsFiniteSet(S), IsFiniteSet(T), \A x \in S \cup T : w[x] \in Nat
  PROVE  /\ SumFunctionOnSet(w, S \cup T) <= SumFunctionOnSet(w, S) + SumFunctionOnSet(w, T)
         /\ SumFunctionOnSet(w, S) <= SumFunctionOnSet(w, S \cup T)
<1> DEFINE All(s) == SumFunctionOnSet(w, S \cup s)
           Fits(s) == All(s) <= SumFunctionOnSet(w, S) + SumFunctionOnSet(w, s)
                      /\ SumFunctionOnSet(w, S) <= All(s)
           B == {s \in SUBSET T : ~ Fits(s)}
<1>1. SUFFICES ASSUME B # {} PROVE FALSE
  OBVIOUS
<1>2. PICK t \in B : \A s \in B : s \subseteq t => s = t
  <2>1. B \in SUBSET SUBSET T OBVIOUS
  <2> HIDE DEF B
  <2>2. QED BY <1>1, <2>1, SmallestSet
<1>3. t # {}
  <2>1. S \cup {} = S OBVIOUS
  <2>2. SumFunctionOnSet(w, S) \in Int BY SumIsInt
  <2>3. SumFunctionOnSet(w, {}) = 0 BY SumEmpty
  <2>4. Fits({}) BY <2>1, <2>2, <2>3
  <2>5. QED BY <1>2, <2>4
<1>4. PICK e \in t : TRUE BY <1>3
<1>5. t \subseteq T /\ IsFiniteSet(t) /\ IsFiniteSet(t \ {e}) /\ IsFiniteSet(S \cup t)
      /\ IsFiniteSet(S \cup (t \ {e}))
  BY <1>2, FS_Subset, FS_RemoveElement, FS_Union
<1>6. SumFunctionOnSet(w, t) = w[e] + SumFunctionOnSet(w, t \ {e})
  BY <1>4, <1>5, SumTakesOut
<1>7. Fits(t \ {e})
  <2>1. t \ {e} \in SUBSET T /\ t \ {e} \notin B BY <1>2, <1>4
  <2> HIDE DEF Fits
  <2>2. QED BY <2>1
<1>8. w[e] \in Nat /\ SumFunctionOnSet(w, S) \in Int /\ SumFunctionOnSet(w, t \ {e}) \in Int
      /\ All(t \ {e}) \in Int
  BY <1>4, <1>5, SumIsInt
<1>9. All(t) = All(t \ {e}) \/ All(t) = w[e] + All(t \ {e})
  <2>1. CASE e \in S
    <3>1. S \cup t = S \cup (t \ {e}) BY <2>1
    <3>2. QED BY <3>1
  <2>2. CASE e \notin S
    <3>1. e \in S \cup t /\ (S \cup t) \ {e} = S \cup (t \ {e}) BY <1>4, <2>2
    <3>2. \A x \in S \cup t : w[x] \in Int BY <1>5
    <3>3. SumFunctionOnSet(w, S \cup t) = w[e] + SumFunctionOnSet(w, (S \cup t) \ {e})
      BY <1>5, <3>1, <3>2, SumTakesOut
    <3>4. QED BY <3>1, <3>3
  <2>3. QED BY <2>1, <2>2
<1>10. ~ Fits(t) BY <1>2
<1> HIDE DEF All, B
<1>11. QED BY <1>6, <1>7, <1>8, <1>9, <1>10

LEMMA SumOfSubset ==
  ASSUME NEW w, NEW T, IsFiniteSet(T), NEW S \in SUBSET T, \A x \in T : w[x] \in Nat
  PROVE  SumFunctionOnSet(w, S) <= SumFunctionOnSet(w, T)
<1>1. S \cup T = T /\ IsFiniteSet(S) BY FS_Subset
<1>2. QED BY <1>1, SumOfUnion

LEMMA SumIsNat ==
  ASSUME NEW w, NEW S, IsFiniteSet(S), \A x \in S : w[x] \in Nat
  PROVE  SumFunctionOnSet(w, S) \in Nat /\ \A x \in S : w[x] <= SumFunctionOnSet(w, S)
<1>1. SumFunctionOnSet(w, S) \in Int BY SumIsInt
<1>2. 0 <= SumFunctionOnSet(w, S)
  <2>1. SumFunctionOnSet(w, {}) <= SumFunctionOnSet(w, S) BY SumOfSubset
  <2>2. QED BY <2>1, SumEmpty
<1>3. ASSUME NEW x \in S PROVE w[x] <= SumFunctionOnSet(w, S)
  <2>1. SumFunctionOnSet(w, S) = w[x] + SumFunctionOnSet(w, S \ {x}) BY SumTakesOut
  <2>2. IsFiniteSet(S \ {x}) BY FS_RemoveElement
  <2>3. SumFunctionOnSet(w, {}) <= SumFunctionOnSet(w, S \ {x}) BY <2>2, SumOfSubset
  <2>4. SumFunctionOnSet(w, S \ {x}) \in Int BY <2>2, SumIsInt
  <2>5. QED BY <2>1, <2>3, <2>4, SumEmpty
<1>4. QED BY <1>1, <1>2, <1>3

(* Every one of n amounts is at most m: their sum is at most n times m.    *)
LEMMA SumBounded ==
  ASSUME NEW w, NEW S, IsFiniteSet(S), NEW m \in Nat, \A x \in S : w[x] \in 0..m
  PROVE  SumFunctionOnSet(w, S) <= Cardinality(S) * m
<1> DEFINE B == {s \in SUBSET S : ~ (SumFunctionOnSet(w, s) <= Cardinality(s) * m)}
<1>1. SUFFICES ASSUME B # {} PROVE FALSE
  OBVIOUS
<1>2. PICK t \in B : \A s \in B : s \subseteq t => s = t
  <2>1. B \in SUBSET SUBSET S OBVIOUS
  <2> HIDE DEF B
  <2>2. QED BY <1>1, <2>1, SmallestSet
<1>3. t # {}
  <2>1. Cardinality({}) * m = 0 BY FS_EmptySet
  <2>2. SumFunctionOnSet(w, {}) <= Cardinality({}) * m BY <2>1, SumEmpty
  <2>3. QED BY <1>2, <2>2
<1>4. PICK e \in t : TRUE BY <1>3
<1>5. IsFiniteSet(t) /\ IsFiniteSet(t \ {e}) BY <1>2, FS_Subset, FS_RemoveElement
<1>6. SumFunctionOnSet(w, t) = w[e] + SumFunctionOnSet(w, t \ {e})
  BY <1>2, <1>4, <1>5, SumTakesOut
<1>7. SumFunctionOnSet(w, t \ {e}) \in Int BY <1>2, <1>5, SumIsInt
<1>8. SumFunctionOnSet(w, t \ {e}) <= Cardinality(t \ {e}) * m BY <1>2, <1>4
<1>9. w[e] \in Int /\ w[e] <= m BY <1>2, <1>4
<1>10. Cardinality(t) \in Nat /\ Cardinality(t \ {e}) = Cardinality(t) - 1
  BY <1>4, <1>5, FS_CardinalityType, FS_RemoveElement
<1>11. Cardinality(t) * m = Cardinality(t \ {e}) * m + m /\ Cardinality(t \ {e}) * m \in Int
  BY <1>10
<1>12. ~ (SumFunctionOnSet(w, t) <= Cardinality(t) * m) BY <1>2
<1> HIDE DEF B
<1>13. QED BY <1>6, <1>7, <1>8, <1>9, <1>11, <1>12
=============================================================================
