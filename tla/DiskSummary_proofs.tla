------------------------ MODULE DiskSummary_proofs ------------------------
(***************************************************************************)
(* The sums of the disk usage report are right, whatever podman reports.   *)
(*                                                                         *)
(* The loops over podman's report are folds, which are recursive functions *)
(* on finite sets.  What a recursion computes needs an induction; it is    *)
(* made here by a least counterexample: a set that is well-founded has a   *)
(* least element outside any property that not all its elements have.      *)
(***************************************************************************)
EXTENDS DiskSummary, FiniteSetTheorems, SequenceTheorems, WellFoundedInduction, TLAPS

-----------------------------------------------------------------------------
(* Induction and recursion                                                   *)

\* A set of subsets of S that has T when it has all that is below T has them all.
LEMMA SubsetInduction ==
  ASSUME NEW S, IsFiniteSet(S), NEW G,
         \A T \in SUBSET S : (\A U \in SUBSET T : U # T => U \in G) => T \in G
  PROVE  \A T \in SUBSET S : T \in G
<1> SUFFICES ASSUME (SUBSET S) \ G # {} PROVE FALSE
  OBVIOUS
<1> DEFINE R == StrictSubsetOrdering(S)
           D == SUBSET S
           B == D \ G
<1>1. IsWellFoundedOn(R, D)
  <2>1. FiniteSubsetsOf(S) = SUBSET S
    BY FS_FiniteSubsetsOfFinite
  <2>2. IsWellFoundedOn(StrictSubsetOrdering(S), FiniteSubsetsOf(S))
    BY FS_StrictSubsetOrderingWellFounded
  <2> QED
    BY <2>1, <2>2
<1>2. PICK T \in B : \A U \in B : ~(<<U, T>> \in R)
  <2>1. B \subseteq D /\ B # {}
    OBVIOUS
  <2> HIDE DEF B, D, R
  <2> QED
    BY <1>1, <2>1, WFMin
<1>3. ASSUME NEW U \in SUBSET T, U # T PROVE U \in G
  BY <1>2, <1>3 DEF StrictSubsetOrdering
<1> QED
  BY <1>2, <1>3

\* What holds of 0, and of n + 1 when it holds of n, holds of all numbers.
LEMMA NumberInduction ==
  ASSUME NEW G, 0 \in G, \A n \in Nat : n \in G => n + 1 \in G
  PROVE  \A n \in Nat : n \in G
<1> SUFFICES ASSUME Nat \ G # {} PROVE FALSE
  OBVIOUS
<1> DEFINE Less == {ss \in Nat \X Nat : ss[1] < ss[2]}
           B == Nat \ G
<1>1. IsWellFoundedOn(Less, Nat)
  BY NatLessThanWellFounded DEF OpToRel
<1>2. B \subseteq Nat /\ B # {}
  OBVIOUS
<1>3. PICK n \in B : \A m \in B : <<m, n>> \notin Less
  <2> HIDE DEF B, Less
  <2> QED
    BY <1>1, <1>2, WFMin, Zenon
<1>4. n \in Nat /\ n # 0 /\ n - 1 \in Nat /\ n = (n - 1) + 1
  BY <1>2
<1>5. n - 1 \notin B
  <2>1. <<n - 1, n>> \in Less
    BY <1>4
  <2> QED
    BY <1>3, <2>1
<1> QED
  BY <1>4, <1>5

\* h takes, on all subsets of S, the step from the value of a set without its
\* picked element to that of the set.
Picks(pick, S) == \A T \in SUBSET S : T # {} => pick[T] \in T
FoldedBy(h, S, X, base, step, pick) ==
  /\ h \in [SUBSET S -> X]
  /\ \A T \in SUBSET S :
       h[T] = IF T = {} THEN base ELSE step[<<h[T \ {pick[T]}], pick[T]>>]

\* Any step has a function that takes it on the subsets of a finite set.
LEMMA RecursionExists ==
  ASSUME NEW S, IsFiniteSet(S), NEW X, NEW base \in X,
         NEW step \in [X \X S -> X], NEW pick, Picks(pick, S)
  PROVE  \E h : FoldedBy(h, S, X, base, step, pick)
<1> USE DEF Picks
<1> DEFINE Steps(h, T) == IF T = {} THEN base ELSE step[<<h[T \ {pick[T]}], pick[T]>>]
           Upto(h, n) == \A T \in SUBSET S : Cardinality(T) <= n => h[T] = Steps(h, T)
           G == {n \in Nat : \E h \in [SUBSET S -> X] : Upto(h, n)}
<1>1. \A T \in SUBSET S : IsFiniteSet(T) /\ Cardinality(T) \in Nat
  BY FS_Subset, FS_CardinalityType
<1>2. 0 \in G
  <2> DEFINE h == [T \in SUBSET S |-> base]
  <2>1. h \in [SUBSET S -> X]
    OBVIOUS
  <2>2. ASSUME NEW T \in SUBSET S, Cardinality(T) <= 0 PROVE T = {}
    BY <1>1, <2>2, FS_EmptySet
  <2> QED
    BY <2>1, <2>2
<1>3. ASSUME NEW n \in Nat, n \in G PROVE n + 1 \in G
  <2>1. PICK h \in [SUBSET S -> X] : Upto(h, n)
    BY <1>3
  <2> DEFINE k == [T \in SUBSET S |-> Steps(h, T)]
  <2>2. k \in [SUBSET S -> X]
    <3>1. ASSUME NEW T \in SUBSET S, T # {} PROVE Steps(h, T) \in X
      BY <3>1
    <3> QED
      BY <3>1
  <2>3. ASSUME NEW T \in SUBSET S, Cardinality(T) <= n + 1, T # {}
        PROVE  k[T \ {pick[T]}] = h[T \ {pick[T]}]
    <3>1. pick[T] \in T /\ T \ {pick[T]} \in SUBSET S
      BY <2>3
    <3>2. Cardinality(T \ {pick[T]}) = Cardinality(T) - 1
      BY <1>1, <3>1, FS_RemoveElement
    <3>3. Cardinality(T \ {pick[T]}) <= n
      BY <1>1, <2>3, <3>2
    <3> QED
      BY <2>1, <3>1, <3>3
  <2>4. Upto(k, n + 1)
    BY <2>3
  <2>5. n + 1 \in Nat
    OBVIOUS
  <2> HIDE DEF k, Upto
  <2> QED
    BY <2>2, <2>4, <2>5
<1>4. \A n \in Nat : n \in G
  <2> HIDE DEF G
  <2> QED
    BY <1>2, <1>3, NumberInduction
<1>5. PICK h \in [SUBSET S -> X] : Upto(h, Cardinality(S))
  BY <1>1, <1>4
<1>6. \A T \in SUBSET S : Cardinality(T) <= Cardinality(S)
  BY FS_Subset
<1> QED
  BY <1>5, <1>6 DEF FoldedBy

-----------------------------------------------------------------------------
(* Sums over finite sets                                                     *)

\* The element with which a fold over a set begins.
First(T) == CHOOSE x \in T : TRUE

\* The sums of f over the subsets of S are one recursion over them.
LEMMA SumsOfSubsets ==
  ASSUME NEW S, IsFiniteSet(S), NEW f, \A x \in S : f[x] \in Int
  PROVE  \A T \in SUBSET S :
           /\ SumFunctionOnSet(f, T) \in Int
           /\ SumFunctionOnSet(f, T) =
                IF T = {} THEN 0 ELSE f[First(T)] + SumFunctionOnSet(f, T \ {First(T)})
<1> DEFINE step == [p \in Int \X S |-> f[p[2]] + p[1]]
           pick == [T \in SUBSET S |-> First(T)]
<1>1. \A T \in SUBSET S : T # {} => First(T) \in T
  BY DEF First
<1>2. PICK h : FoldedBy(h, S, Int, 0, step, pick)
  <2>1. step \in [Int \X S -> Int]
    OBVIOUS
  <2>2. Picks(pick, S)
    BY <1>1 DEF Picks
  <2>3. 0 \in Int
    OBVIOUS
  <2> HIDE DEF step, pick
  <2> QED
    BY <2>1, <2>2, <2>3, RecursionExists, Zenon
<1>3. ASSUME NEW T \in SUBSET S
      PROVE  h[T] = IF T = {} THEN 0 ELSE f[First(T)] + h[T \ {First(T)}]
  <2>1. T # {} => First(T) \in S /\ h[T \ {First(T)}] \in Int
    BY <1>1, <1>2 DEF FoldedBy
  <2> QED
    BY <1>2, <2>1 DEF FoldedBy
<1> HIDE DEF step, pick
<1>4. ASSUME NEW T \in SUBSET S PROVE SumFunctionOnSet(f, T) = h[T]
  <2> DEFINE Iterates(g) ==
               g = [U \in SUBSET T |-> IF U = {} THEN 0 ELSE f[First(U)] + g[U \ {First(U)}]]
             g == CHOOSE i : Iterates(i)
  <2>1. SumFunctionOnSet(f, T) = g[T]
    BY DEF SumFunctionOnSet, FoldFunctionOnSet, MapThenFoldSet, First
  <2>2. Iterates([U \in SUBSET T |-> h[U]])
    <3>1. ASSUME NEW U \in SUBSET T
          PROVE  h[U] = IF U = {} THEN 0 ELSE f[First(U)] + h[U \ {First(U)}]
      BY <1>3
    <3>2. \A U \in SUBSET T : U \ {First(U)} \in SUBSET T
      OBVIOUS
    <3> QED
      BY <3>1, <3>2
  <2>3. Iterates(g)
    BY <2>2
  <2>4. \A U \in SUBSET T :
          g[U] = IF U = {} THEN 0 ELSE f[First(U)] + g[U \ {First(U)}]
    BY <2>3
  <2> HIDE DEF g
  <2> DEFINE Same == {U \in SUBSET T : g[U] = h[U]}
  <2>5. ASSUME NEW U \in SUBSET T, \A V \in SUBSET U : V # U => V \in Same
        PROVE  U \in Same
    <3>1. U # {} => U \ {First(U)} \in Same
      BY <1>1, <2>5
    <3>2. h[U] = IF U = {} THEN 0 ELSE f[First(U)] + h[U \ {First(U)}]
      BY <1>3
    <3> QED
      BY <2>4, <3>1, <3>2
  <2>6. IsFiniteSet(T)
    BY FS_Subset
  <2>7. \A U \in SUBSET T : U \in Same
    <3> HIDE DEF Same
    <3> QED
      BY <2>5, <2>6, SubsetInduction
  <2> QED
    BY <2>1, <2>7
<1>5. ASSUME NEW T \in SUBSET S
      PROVE  /\ SumFunctionOnSet(f, T) \in Int
             /\ SumFunctionOnSet(f, T) =
                  IF T = {} THEN 0 ELSE f[First(T)] + SumFunctionOnSet(f, T \ {First(T)})
  <2>1. T \ {First(T)} \in SUBSET S
    OBVIOUS
  <2>2. SumFunctionOnSet(f, T) = h[T] /\ SumFunctionOnSet(f, T \ {First(T)}) = h[T \ {First(T)}]
    BY <1>4, <2>1
  <2> QED
    BY <1>2, <1>3, <2>2 DEF FoldedBy
<1> QED
  BY <1>5

\* The sum over nothing is 0.
LEMMA SumEmpty == ASSUME NEW f PROVE SumFunctionOnSet(f, {}) = 0
  BY SumsOfSubsets, FS_EmptySet

\* Sums of integers are integers.
LEMMA SumType ==
  ASSUME NEW S, IsFiniteSet(S), NEW f, \A x \in S : f[x] \in Int
  PROVE  SumFunctionOnSet(f, S) \in Int
  BY SumsOfSubsets

\* Any element can be taken out of a sum.
LEMMA SumElement ==
  ASSUME NEW S, IsFiniteSet(S), NEW f, \A x \in S : f[x] \in Int, NEW x \in S
  PROVE  SumFunctionOnSet(f, S) = f[x] + SumFunctionOnSet(f, S \ {x})
<1> DEFINE Sum(T) == SumFunctionOnSet(f, T)
           G == {T \in SUBSET S : \A y \in T : Sum(T) = f[y] + Sum(T \ {y})}
<1>1. \A T \in SUBSET S :
        Sum(T) \in Int /\ Sum(T) = IF T = {} THEN 0 ELSE f[First(T)] + Sum(T \ {First(T)})
  BY SumsOfSubsets
<1> HIDE DEF Sum
<1>2. ASSUME NEW T \in SUBSET S, \A U \in SUBSET T : U # T => U \in G
      PROVE  T \in G
  <2> SUFFICES ASSUME NEW y \in T PROVE Sum(T) = f[y] + Sum(T \ {y})
    OBVIOUS
  <2> DEFINE z == First(T)
  <2>1. z \in T
    BY DEF First
  <2> HIDE DEF z
  <2>2. Sum(T) = f[z] + Sum(T \ {z})
    BY <1>1 DEF z
  <2>3. CASE y = z
    BY <2>2, <2>3
  <2>4. CASE y # z
    <3>1. T \ {z} \in G /\ y \in T \ {z} /\ T \ {y} \in G /\ z \in T \ {y}
      BY <1>2, <2>1, <2>4
    <3>2. Sum(T \ {z}) = f[y] + Sum((T \ {z}) \ {y}) /\ Sum(T \ {y}) = f[z] + Sum((T \ {y}) \ {z})
      BY <3>1
    <3>3. (T \ {z}) \ {y} = (T \ {y}) \ {z}
      OBVIOUS
    <3> DEFINE rest == Sum((T \ {z}) \ {y})
    <3>4. rest \in Int /\ f[y] \in Int /\ f[z] \in Int
      BY <1>1, <2>1
    <3>5. Sum(T) = f[z] + (f[y] + rest) /\ Sum(T \ {y}) = f[z] + rest
      BY <2>2, <3>2, <3>3
    <3> HIDE DEF rest
    <3> QED
      BY <3>4, <3>5
  <2> QED
    BY <2>3, <2>4
<1>3. S \in G
  <2> HIDE DEF G
  <2> QED
    BY <1>2, SubsetInduction
<1> QED
  BY <1>3 DEF Sum

\* A set of subsets of S that has the empty set, and a set when it has it without
\* one of its elements, has S.
LEMMA RemovalInduction ==
  ASSUME NEW S, IsFiniteSet(S), NEW G, {} \in G,
         \A T \in SUBSET S : \A x \in T : T \ {x} \in G => T \in G
  PROVE  S \in G
<1>1. ASSUME NEW T \in SUBSET S, \A U \in SUBSET T : U # T => U \in G
      PROVE  T \in G
  <2>1. CASE T = {}
    BY <2>1
  <2>2. ASSUME NEW x \in T PROVE T \in G
    <3>1. T \ {x} \in SUBSET T /\ T \ {x} # T
      OBVIOUS
    <3> QED
      BY <1>1, <3>1
  <2> QED
    BY <2>1, <2>2
<1> QED
  BY <1>1, SubsetInduction

\* A sum that leaves out the numbers outside T is the sum over T.
LEMMA SumOfPart ==
  ASSUME NEW S, IsFiniteSet(S), NEW f, \A x \in S : f[x] \in Int,
         NEW T \in SUBSET S, NEW g, \A x \in S : g[x] = IF x \in T THEN f[x] ELSE 0
  PROVE  SumFunctionOnSet(g, S) = SumFunctionOnSet(f, T)
<1> DEFINE G == {U \in SUBSET S : SumFunctionOnSet(g, U) = SumFunctionOnSet(f, U \cap T)}
<1>1. {} \in G
  BY SumEmpty
<1>2. ASSUME NEW U \in SUBSET S, NEW x \in U, U \ {x} \in G PROVE U \in G
  <2>1. IsFiniteSet(U) /\ IsFiniteSet(U \cap T)
    BY FS_Subset
  <2>2. SumFunctionOnSet(g, U) = g[x] + SumFunctionOnSet(g, U \ {x})
    BY <2>1, SumElement
  <2>3. SumFunctionOnSet(g, U \ {x}) = SumFunctionOnSet(f, (U \ {x}) \cap T)
    BY <1>2
  <2>4. CASE x \in T
    <3>1. SumFunctionOnSet(f, U \cap T) = f[x] + SumFunctionOnSet(f, (U \cap T) \ {x})
      BY <2>1, <2>4, SumElement
    <3>2. (U \cap T) \ {x} = (U \ {x}) \cap T
      OBVIOUS
    <3> QED
      BY <2>2, <2>3, <2>4, <3>1, <3>2
  <2>5. CASE x \notin T
    <3>1. (U \ {x}) \cap T = U \cap T /\ g[x] = 0
      BY <2>5
    <3>2. SumFunctionOnSet(f, U \cap T) \in Int
      BY <2>1, SumType
    <3>3. SumFunctionOnSet(g, U) = 0 + SumFunctionOnSet(f, U \cap T)
      BY <2>2, <2>3, <3>1
    <3> QED
      BY <3>2, <3>3
  <2> QED
    BY <2>4, <2>5
<1>3. S \in G
  <2> HIDE DEF G
  <2> QED
    BY <1>1, <1>2, RemovalInduction
<1>4. S \cap T = T
  OBVIOUS
<1> QED
  BY <1>3, <1>4

\* A sum is that over a part and that over the rest.
LEMMA SumSplit ==
  ASSUME NEW S, IsFiniteSet(S), NEW f, \A x \in S : f[x] \in Int, NEW T \in SUBSET S
  PROVE  SumFunctionOnSet(f, S) = SumFunctionOnSet(f, T) + SumFunctionOnSet(f, S \ T)
<1> DEFINE Sum(U) == SumFunctionOnSet(f, U)
           G == {U \in SUBSET S : Sum(U) = Sum(U \cap T) + Sum(U \ T)}
<1>1. {} \in G
  <2>1. {} \cap T = {} /\ {} \ T = {}
    OBVIOUS
  <2> QED
    BY <2>1, SumEmpty
<1>2. ASSUME NEW U \in SUBSET S, NEW x \in U, U \ {x} \in G PROVE U \in G
  <2>1. IsFiniteSet(U) /\ IsFiniteSet(U \cap T) /\ IsFiniteSet(U \ T)
    BY FS_Subset
  <2>2. Sum(U) = f[x] + Sum(U \ {x})
    BY <2>1, SumElement
  <2>3. Sum(U \ {x}) = Sum((U \ {x}) \cap T) + Sum((U \ {x}) \ T)
    BY <1>2
  <2>4. Sum(U \cap T) \in Int /\ Sum(U \ T) \in Int /\ f[x] \in Int
    BY <2>1, SumType
  <2>5. CASE x \in T
    <3>1. (U \cap T) \ {x} = (U \ {x}) \cap T /\ (U \ {x}) \ T = U \ T
      BY <2>5
    <3>2. Sum(U \cap T) = f[x] + Sum((U \ {x}) \cap T)
      BY <2>1, <2>5, <3>1, SumElement
    <3>3. Sum((U \ {x}) \cap T) \in Int
      BY FS_Subset, SumType
    <3>4. Sum(U) = f[x] + (Sum((U \ {x}) \cap T) + Sum(U \ T))
      BY <2>2, <2>3, <3>1
    <3> HIDE DEF Sum
    <3> QED
      BY <2>4, <3>2, <3>3, <3>4
  <2>6. CASE x \notin T
    <3>1. (U \ T) \ {x} = (U \ {x}) \ T /\ (U \ {x}) \cap T = U \cap T
      BY <2>6
    <3>2. Sum(U \ T) = f[x] + Sum((U \ {x}) \ T)
      BY <2>1, <2>6, <3>1, SumElement
    <3>3. Sum((U \ {x}) \ T) \in Int
      BY FS_Subset, SumType
    <3>4. Sum(U) = f[x] + (Sum(U \cap T) + Sum((U \ {x}) \ T))
      BY <2>2, <2>3, <3>1
    <3> HIDE DEF Sum
    <3> QED
      BY <2>4, <3>2, <3>3, <3>4
  <2> QED
    BY <2>5, <2>6
<1>3. S \in G
  <2> HIDE DEF G
  <2> QED
    BY <1>1, <1>2, RemovalInduction
<1>4. S \cap T = T
  OBVIOUS
<1> QED
  BY <1>3, <1>4

\* Smaller numbers have a smaller sum.
LEMMA SumBound ==
  ASSUME NEW S, IsFiniteSet(S), NEW f, NEW g,
         \A x \in S : f[x] \in Int /\ g[x] \in Int /\ g[x] <= f[x]
  PROVE  SumFunctionOnSet(g, S) <= SumFunctionOnSet(f, S)
<1> DEFINE G == {T \in SUBSET S : SumFunctionOnSet(g, T) <= SumFunctionOnSet(f, T)}
<1>1. {} \in G
  BY SumEmpty
<1>2. ASSUME NEW T \in SUBSET S, NEW x \in T, T \ {x} \in G PROVE T \in G
  <2>1. IsFiniteSet(T) /\ IsFiniteSet(T \ {x})
    BY FS_Subset
  <2>2. SumFunctionOnSet(f, T) = f[x] + SumFunctionOnSet(f, T \ {x})
    BY <2>1, SumElement
  <2>3. SumFunctionOnSet(g, T) = g[x] + SumFunctionOnSet(g, T \ {x})
    BY <2>1, SumElement
  <2>4. SumFunctionOnSet(f, T \ {x}) \in Int /\ SumFunctionOnSet(g, T \ {x}) \in Int
    BY <2>1, SumType
  <2> QED
    BY <1>2, <2>2, <2>3, <2>4
<1>3. S \in G
  <2> HIDE DEF G
  <2> QED
    BY <1>1, <1>2, RemovalInduction
<1> QED
  BY <1>3

-----------------------------------------------------------------------------
(* The loops of summarizeDiskUsage                                           *)

\* FoldLeft takes the entries of a list from the last: the greatest position of a
\* set of positions is one of it.
LEMMA MaxPosition ==
  ASSUME NEW n \in Nat, NEW T \in SUBSET (1..n), T # {}
  PROVE  Max(T) \in T /\ \A x \in T : Max(T) >= x
<1> DEFINE Greatest(U) == \E x \in U : \A y \in U : x >= y
           G == {U \in SUBSET T : U = {} \/ Greatest(U)}
<1>1. IsFiniteSet(T)
  <2>1. IsFiniteSet(1..n)
    BY FS_Interval
  <2> QED
    BY <2>1, FS_Subset
<1>2. \A x \in T : x \in Nat
  OBVIOUS
<1>3. ASSUME NEW U \in SUBSET T, NEW x \in U, U \ {x} \in G PROVE U \in G
  <2>1. CASE U \ {x} = {}
    BY <1>2, <2>1
  <2>2. CASE U \ {x} # {}
    <3>1. PICK y \in U \ {x} : \A z \in U \ {x} : y >= z
      BY <1>3, <2>2
    <3>2. CASE x <= y
      BY <1>2, <3>1, <3>2
    <3>3. CASE x > y
      BY <1>2, <3>1, <3>3
    <3> QED
      BY <1>2, <3>1, <3>2, <3>3
  <2> QED
    BY <2>1, <2>2
<1>4. T \in G
  <2>1. {} \in G
    OBVIOUS
  <2> HIDE DEF G
  <2> QED
    BY <1>1, <1>3, <2>1, RemovalInduction
<1>5. Greatest(T)
  BY <1>4
<1> QED
  BY <1>5 DEF Max

\* g adds up the numbers f[x], an element after the other as they are picked.
AddsUp(g, S, f, pick) ==
  g = [T \in SUBSET S |-> IF T = {} THEN 0 ELSE g[T \ {pick[T]}] + f[pick[T]]]

\* Numbers can be added up in any order.
LEMMA AnyOrder ==
  ASSUME NEW S, IsFiniteSet(S), NEW f, \A x \in S : f[x] \in Int, NEW pick, Picks(pick, S)
  PROVE  /\ \E g : AddsUp(g, S, f, pick)
         /\ \A g : AddsUp(g, S, f, pick) => g[S] = SumFunctionOnSet(f, S)
<1> DEFINE step == [p \in Int \X S |-> p[1] + f[p[2]]]
<1>1. PICK h : FoldedBy(h, S, Int, 0, step, pick)
  <2>1. step \in [Int \X S -> Int]
    OBVIOUS
  <2> HIDE DEF step
  <2> QED
    BY <2>1, RecursionExists
<1>2. AddsUp(h, S, f, pick)
  <2>1. \A T \in SUBSET S : h[T] = IF T = {} THEN 0 ELSE h[T \ {pick[T]}] + f[pick[T]]
    <3> TAKE T \in SUBSET S
    <3>1. T # {} => pick[T] \in S /\ h[T \ {pick[T]}] \in Int
      BY <1>1 DEF FoldedBy, Picks
    <3> QED
      BY <1>1, <3>1 DEF FoldedBy
  <2> QED
    BY <1>1, <2>1 DEF AddsUp, FoldedBy
<1>3. ASSUME NEW g, AddsUp(g, S, f, pick) PROVE g[S] = SumFunctionOnSet(f, S)
  <2>1. \A T \in SUBSET S : g[T] = IF T = {} THEN 0 ELSE g[T \ {pick[T]}] + f[pick[T]]
    BY <1>3 DEF AddsUp
  <2> DEFINE G == {T \in SUBSET S : g[T] = SumFunctionOnSet(f, T)}
  <2>2. ASSUME NEW T \in SUBSET S, \A U \in SUBSET T : U # T => U \in G PROVE T \in G
    <3>1. CASE T = {}
      BY <2>1, <3>1, SumEmpty
    <3>2. CASE T # {}
      <4> DEFINE y == pick[T]
      <4>1. y \in T /\ f[y] \in Int
        BY <3>2 DEF Picks
      <4>2. g[T \ {y}] = SumFunctionOnSet(f, T \ {y})
        BY <2>2, <4>1
      <4>3. IsFiniteSet(T) /\ IsFiniteSet(T \ {y}) /\ \A x \in T : f[x] \in Int
        BY FS_Subset
      <4>4. SumFunctionOnSet(f, T) = f[y] + SumFunctionOnSet(f, T \ {y})
        BY <4>1, <4>3, SumElement
      <4>5. SumFunctionOnSet(f, T \ {y}) \in Int
        BY <4>3, SumType
      <4>6. g[T] = SumFunctionOnSet(f, T \ {y}) + f[y]
        BY <2>1, <3>2, <4>2
      <4> QED
        BY <4>1, <4>4, <4>5, <4>6
    <3> QED
      BY <3>1, <3>2
  <2>3. S \in G
    <3> HIDE DEF G
    <3> QED
      BY <2>2, SubsetInduction
  <2> QED
    BY <2>3
<1> QED
  BY <1>2, <1>3

\* The total of a list of numbers is their sum.
LEMMA TotalIsSum ==
  ASSUME NEW n \in Nat, NEW f \in [1..n -> Int]
  PROVE  Total(f) = SumFunctionOnSet(f, 1..n)
<1> DEFINE pick == [T \in SUBSET (1..n) |-> Max(T)]
           Iterates(g) ==
             g = [T \in SUBSET (1..n) |-> IF T = {} THEN 0 ELSE g[T \ {Max(T)}] + f[Max(T)]]
           iter == CHOOSE g : Iterates(g)
<1>1. Total(f) = iter[1..n]
  <2>1. DOMAIN f = 1..n
    OBVIOUS
  <2> QED
    BY <2>1 DEF Total, FoldLeft, MapThenFoldSet
<1>2. \A g : Iterates(g) <=> AddsUp(g, 1..n, f, pick)
  BY DEF AddsUp
<1>3. IsFiniteSet(1..n) /\ Picks(pick, 1..n) /\ \A x \in 1..n : f[x] \in Int
  <2>1. IsFiniteSet(1..n)
    BY FS_Interval
  <2>2. Picks(pick, 1..n)
    BY MaxPosition DEF Picks
  <2> QED
    BY <2>1, <2>2
<1> HIDE DEF pick
<1>4. /\ \E g : AddsUp(g, 1..n, f, pick)
      /\ \A g : AddsUp(g, 1..n, f, pick) => g[1..n] = SumFunctionOnSet(f, 1..n)
  BY <1>3, AnyOrder
<1>5. Iterates(iter)
  BY <1>2, <1>4
<1> QED
  BY <1>1, <1>2, <1>4, <1>5

\* The accumulator of the loop over the images, after the images at a set of
\* positions.
Visits(g, S, images, pick) ==
  g = [T \in SUBSET S |-> IF T = {} THEN NothingVisited
                          ELSE Visit(g[T \ {pick[T]}], images[pick[T]])]

\* What podman says of an image.
ImageEntry == [id : STRING, containers : Nat, unique : Nat]

\* The loop is well-defined.
LEMMA VisitsExist ==
  ASSUME NEW S, IsFiniteSet(S), NEW images, \A x \in S : images[x] \in ImageEntry,
         NEW pick, Picks(pick, S)
  PROVE  \E g : Visits(g, S, images, pick)
<1> DEFINE Acc == [visited : SUBSET STRING, used : Int]
           step == [p \in Acc \X S |-> Visit(p[1], images[p[2]])]
<1>1. PICK h : FoldedBy(h, S, Acc, NothingVisited, step, pick)
  <2>1. step \in [Acc \X S -> Acc]
    <3>1. ASSUME NEW acc \in Acc, NEW x \in S PROVE Visit(acc, images[x]) \in Acc
      <4>1. images[x].id \in STRING /\ images[x].containers \in Nat /\ images[x].unique \in Nat
        BY DEF ImageEntry
      <4> QED
        BY <4>1 DEF Visit
    <3> HIDE DEF Acc
    <3> QED
      BY <3>1
  <2>2. NothingVisited \in Acc
    BY DEF NothingVisited
  <2> HIDE DEF step, Acc
  <2> QED
    BY <2>1, <2>2, RecursionExists, Zenon
<1>2. \A T \in SUBSET S :
        h[T] = IF T = {} THEN NothingVisited ELSE Visit(h[T \ {pick[T]}], images[pick[T]])
  <2> TAKE T \in SUBSET S
  <2> HIDE DEF Acc
  <2>1. T # {} => pick[T] \in S /\ h[T \ {pick[T]}] \in Acc
    BY <1>1 DEF FoldedBy, Picks
  <2> QED
    BY <1>1, <2>1 DEF FoldedBy
<1> QED
  BY <1>1, <1>2 DEF Visits, FoldedBy

\* imageReclaimable visits one position after the other.
LEMMA VisitInOrder ==
  ASSUME NEW n \in Nat, NEW images \in [1..n -> ImageEntry]
  PROVE  \E g : /\ FoldLeft(Visit, NothingVisited, images) = g[1..n]
                /\ g[{}] = NothingVisited
                /\ \A k \in 1..n : g[1..k] = Visit(g[1..(k - 1)], images[k])
<1> DEFINE pick == [T \in SUBSET (1..n) |-> Max(T)]
           Iterates(g) ==
             g = [T \in SUBSET (1..n) |-> IF T = {} THEN NothingVisited
                                          ELSE Visit(g[T \ {Max(T)}], images[Max(T)])]
           iter == CHOOSE g : Iterates(g)
<1>1. FoldLeft(Visit, NothingVisited, images) = iter[1..n]
  <2>1. DOMAIN images = 1..n
    OBVIOUS
  <2> QED
    BY <2>1 DEF FoldLeft, MapThenFoldSet
<1>2. \A g : Iterates(g) <=> Visits(g, 1..n, images, pick)
  BY DEF Visits
<1>3. \E g : Visits(g, 1..n, images, pick)
  <2>1. IsFiniteSet(1..n)
    BY FS_Interval
  <2>2. Picks(pick, 1..n)
    BY MaxPosition DEF Picks
  <2>3. \A x \in 1..n : images[x] \in ImageEntry
    OBVIOUS
  <2> HIDE DEF pick
  <2> QED
    BY <2>1, <2>2, <2>3, VisitsExist
<1>4. Iterates(iter)
  BY <1>2, <1>3
<1> HIDE DEF iter
<1>5. \A T \in SUBSET (1..n) :
        iter[T] = IF T = {} THEN NothingVisited ELSE Visit(iter[T \ {Max(T)}], images[Max(T)])
  BY <1>4
<1>6. ASSUME NEW k \in 1..n PROVE iter[1..k] = Visit(iter[1..(k - 1)], images[k])
  <2>1. 1..k \in SUBSET (1..n) /\ 1..k # {} /\ k \in 1..k
    <3>1. k \in Nat /\ k >= 1 /\ k <= n
      OBVIOUS
    <3>2. k \in 1..k /\ \A x \in 1..k : x \in 1..n
      BY <3>1
    <3> QED
      BY <3>2
  <2>2. Max(1..k) = k
    <3>1. Max(1..k) \in 1..k /\ Max(1..k) >= k
      BY <2>1, MaxPosition
    <3> QED
      BY <3>1
  <2>3. (1..k) \ {k} = 1..(k - 1)
    OBVIOUS
  <2> QED
    BY <1>5, <2>1, <2>2, <2>3
<1>7. iter[{}] = NothingVisited
  BY <1>5
<1> QED
  BY <1>1, <1>6, <1>7

\* What podman says of a used image it says at each of its positions.
LEMMA UniqueSizeOf ==
  ASSUME NEW n \in Nat, NEW images \in [1..n -> ImageEntry],
         \A i, j \in 1..n : images[i].id = images[j].id => images[i] = images[j],
         NEW k \in 1..n
  PROVE  UniqueSize(images, images[k].id) = images[k].unique
<1> DEFINE choice == CHOOSE i \in Range(images) : i.id = images[k].id
<1>1. images[k] \in Range(images)
  BY DEF Range
<1>2. choice \in Range(images) /\ choice.id = images[k].id
  BY <1>1
<1>3. PICK j \in 1..n : choice = images[j]
  BY <1>2 DEF Range
<1>4. choice = images[k]
  BY <1>2, <1>3
<1> QED
  BY <1>4 DEF UniqueSize

\* imageReclaimable adds up the unique sizes of the used images, each of them once.
LEMMA UsedOnce ==
  ASSUME NEW n \in Nat, NEW images \in [1..n -> ImageEntry],
         \A i, j \in 1..n : images[i].id = images[j].id => images[i] = images[j]
  PROVE  /\ FoldLeft(Visit, NothingVisited, images).used
              = SumFunction([id \in UsedImages(images) |-> UniqueSize(images, id)])
         /\ FoldLeft(Visit, NothingVisited, images).used \in Int
<1> DEFINE Used(k) == {images[i].id : i \in {j \in 1..k : images[j].containers > 0}}
           size == [id \in UsedImages(images) |-> UniqueSize(images, id)]
<1>1. UsedImages(images) = Used(n)
  BY DEF UsedImages
<1>2. ASSUME NEW k \in 0..n
      PROVE  Used(k) \in SUBSET UsedImages(images) /\ IsFiniteSet(Used(k))
  <2> DEFINE P == {j \in 1..k : images[j].containers > 0}
             id == [j \in P |-> images[j].id]
  <2>1. IsFiniteSet(P)
    <3>1. IsFiniteSet(1..k)
      BY FS_Interval
    <3> QED
      BY <3>1, FS_Subset
  <2>2. id \in Surjection(P, Used(k))
    BY DEF Surjection
  <2>3. IsFiniteSet(Used(k))
    <3> HIDE DEF P, id, Used
    <3> QED
      BY <2>1, <2>2, FS_Surjection
  <2>4. 1..k \subseteq 1..n
    OBVIOUS
  <2>5. Used(k) \in SUBSET Used(n)
    BY <2>4
  <2> QED
    BY <1>1, <2>3, <2>5
<1>3. ASSUME NEW k \in 1..n, images[k].containers > 0
      PROVE  images[k].id \in UsedImages(images) /\ size[images[k].id] = images[k].unique
  BY <1>3, UniqueSizeOf DEF UsedImages
<1>4. \A x \in UsedImages(images) : size[x] \in Int
  <2>1. \A k \in 1..n : images[k].unique \in Int
    BY DEF ImageEntry
  <2> QED
    BY <1>3, <2>1 DEF UsedImages
<1>5. PICK g : /\ FoldLeft(Visit, NothingVisited, images) = g[1..n]
               /\ g[{}] = NothingVisited
               /\ \A k \in 1..n : g[1..k] = Visit(g[1..(k - 1)], images[k])
  BY VisitInOrder
<1> HIDE DEF size
<1> DEFINE Inv(k) == /\ g[1..k].visited = {images[i].id : i \in 1..k}
                     /\ g[1..k].used = SumFunctionOnSet(size, Used(k))
           G == {k \in Nat : k <= n => Inv(k)}
<1>6. 0 \in G
  <2>1. 1..0 = {} /\ Used(0) = {}
    OBVIOUS
  <2>2. g[1..0] = NothingVisited
    BY <1>5, <2>1
  <2>3. {images[i].id : i \in 1..0} = {}
    BY <2>1
  <2>4. NothingVisited.visited = {} /\ NothingVisited.used = SumFunctionOnSet(size, {})
    BY SumEmpty DEF NothingVisited
  <2>5. Inv(0)
    BY <2>1, <2>2, <2>3, <2>4
  <2> QED
    BY <2>5
<1>7. ASSUME NEW m \in Nat, m \in G PROVE m + 1 \in G
  <2> HIDE DEF Inv
  <2> SUFFICES ASSUME m + 1 <= n PROVE Inv(m + 1)
    BY DEF G
  <2> USE DEF Inv
  <2> DEFINE k == m + 1
             image == images[k]
  <2>1. k \in 1..n /\ k - 1 = m /\ m \in 0..n /\ k \in 0..n /\ Inv(m)
    BY <1>7
  <2>2. g[1..k] = Visit(g[1..m], image)
    BY <1>5, <2>1
  <2>3. \A i : i \in 1..k <=> i \in 1..m \/ i = k
    OBVIOUS
  <2>4. {images[i].id : i \in 1..k} = {images[i].id : i \in 1..m} \cup {image.id}
    BY <2>3
  <2>5. Used(k) = IF image.containers > 0 THEN Used(m) \cup {image.id} ELSE Used(m)
    BY <2>3
  <2>6. image.id \in Used(m) => image.id \in {images[i].id : i \in 1..m}
    OBVIOUS
  <2>7. CASE image.id \in {images[i].id : i \in 1..m}
    <3>1. PICK i \in 1..m : image.id = images[i].id
      BY <2>7
    <3>2. image = images[i]
      BY <2>1, <3>1
    <3>3. Used(k) = Used(m)
      BY <2>5, <3>1, <3>2
    <3>4. g[1..k] = g[1..m]
      BY <2>1, <2>2, <2>7 DEF Visit
    <3> QED
      BY <2>1, <2>4, <2>7, <3>3, <3>4
  <2>8. CASE image.id \notin {images[i].id : i \in 1..m}
    <3>1. /\ g[1..k].visited = {images[i].id : i \in 1..k}
          /\ g[1..k].used = g[1..m].used + (IF image.containers > 0 THEN image.unique ELSE 0)
      BY <2>1, <2>2, <2>4, <2>8 DEF Visit
    <3>2. SumFunctionOnSet(size, Used(m)) \in Int
      BY <1>2, <1>4, <2>1, SumType
    <3>3. CASE image.containers > 0
      <4>1. Used(k) = Used(m) \cup {image.id} /\ image.id \notin Used(m)
        BY <2>5, <2>6, <2>8, <3>3
      <4>2. image.id \in Used(k) /\ Used(k) \ {image.id} = Used(m)
        BY <4>1
      <4>3. SumFunctionOnSet(size, Used(k)) = size[image.id] + SumFunctionOnSet(size, Used(m))
        <5>1. IsFiniteSet(Used(k)) /\ \A x \in Used(k) : size[x] \in Int
          BY <1>2, <1>4, <2>1
        <5> HIDE DEF Used, image
        <5> QED
          BY <4>2, <5>1, SumElement
      <4>4. size[image.id] = image.unique /\ image.unique \in Int
        BY <1>3, <2>1, <3>3 DEF ImageEntry
      <4> QED
        BY <2>1, <3>1, <3>2, <3>3, <4>3, <4>4
    <3>4. CASE ~(image.containers > 0)
      <4>1. g[1..k].used = SumFunctionOnSet(size, Used(m)) + 0 /\ Used(k) = Used(m)
        BY <2>1, <2>5, <3>1, <3>4
      <4>2. g[1..k].used = SumFunctionOnSet(size, Used(k))
        <5> HIDE DEF Used
        <5> QED
          BY <3>2, <4>1
      <4> QED
        BY <3>1, <4>2
    <3> QED
      BY <3>3, <3>4
  <2> QED
    BY <2>7, <2>8
<1>8. Inv(n)
  <2>1. n \in G
    <3> HIDE DEF G
    <3> QED
      BY <1>6, <1>7, NumberInduction
  <2>2. n <= n
    OBVIOUS
  <2> HIDE DEF Inv
  <2> QED
    BY <2>1, <2>2
<1>9. DOMAIN size = UsedImages(images)
  BY DEF size
<1>10. SumFunctionOnSet(size, Used(n)) \in Int
  <2>1. n \in 0..n
    OBVIOUS
  <2>2. IsFiniteSet(Used(n)) /\ \A x \in Used(n) : size[x] \in Int
    BY <1>2, <1>4, <2>1
  <2> HIDE DEF Used
  <2> QED
    BY <2>2, SumType
<1>11. /\ FoldLeft(Visit, NothingVisited, images).used = SumFunction(size)
       /\ FoldLeft(Visit, NothingVisited, images).used \in Int
  BY <1>1, <1>5, <1>8, <1>9, <1>10 DEF SumFunction
<1> QED
  BY <1>11 DEF size

-----------------------------------------------------------------------------
(* The summary                                                               *)

\* A list is a function from its positions.
LEMMA ListFunction ==
  ASSUME NEW E, NEW list \in Seq(E)
  PROVE  /\ Len(list) \in Nat /\ DOMAIN list = 1..Len(list)
         /\ list \in [1..Len(list) -> E] /\ \A k \in DOMAIN list : list[k] \in E
         /\ IsFiniteSet(DOMAIN list)
<1>1. /\ Len(list) \in Nat /\ DOMAIN list = 1..Len(list)
      /\ list \in [1..Len(list) -> E] /\ \A k \in DOMAIN list : list[k] \in E
  OBVIOUS
<1>2. IsFiniteSet(1..Len(list))
  BY <1>1, FS_Interval
<1> QED
  BY <1>1, <1>2

\* Whatever podman reports, summarizeDiskUsage makes of it what it should.
LEMMA ReportSummed == ASSUME NEW report \in DfReport PROVE Right(report)
<1> DEFINE s == summarizeDiskUsage(report)
           containers == report.containers
           volumes == report.volumes
           rw == [k \in DOMAIN containers |-> containers[k].rw]
           running == {k \in DOMAIN containers : containers[k].status = "running"}
<1>1. s.imagesSize - s.imagesReclaimable
        = SumFunction([id \in UsedImages(report.images) |-> UniqueSize(report.images, id)])
  <2> DEFINE images == report.images
             size == [id \in UsedImages(images) |-> UniqueSize(images, id)]
             used == FoldLeft(Visit, NothingVisited, images).used
  <2>1. Len(images) \in Nat /\ images \in [1..Len(images) -> ImageEntry]
    <3>1. images \in Seq(ImageEntry)
      BY DEF DfReport, ImageEntry
    <3> HIDE DEF images
    <3> QED
      BY <3>1, ListFunction
  <2>2. \A i, j \in 1..Len(images) : images[i].id = images[j].id => images[i] = images[j]
    BY DEF DfReport
  <2>3. s.imagesSize = report.imagesSize /\ s.imagesReclaimable = report.imagesSize - used
    BY DEF summarizeDiskUsage, imageReclaimable
  <2>4. report.imagesSize \in Int
    BY DEF DfReport
  <2>5. used = SumFunction(size) /\ used \in Int
    <3> HIDE DEF images
    <3> QED
      BY <2>1, <2>2, UsedOnce
  <2> HIDE DEF used
  <2>6. s.imagesSize - s.imagesReclaimable = used
    BY <2>3, <2>4, <2>5
  <2> QED
    BY <2>5, <2>6
<1>2. DOMAIN containers = 1..Len(containers) /\ Len(containers) \in Nat
      /\ IsFiniteSet(DOMAIN containers) /\ \A k \in DOMAIN containers : containers[k].rw \in Int
  <2> DEFINE E == [status : STRING, rw : Nat]
  <2>1. containers \in Seq(E)
    BY DEF DfReport
  <2>2. \A e \in E : e.rw \in Int
    OBVIOUS
  <2> HIDE DEF E, containers
  <2> QED
    BY <2>1, <2>2, ListFunction
<1>3. IsFiniteSet(DOMAIN containers) /\ \A k \in DOMAIN containers : rw[k] \in Int
  BY <1>2
<1>4. s.containersReclaimable = SumFunctionOnSet(rw, DOMAIN rw \ running)
  <2> DEFINE f == [k \in DOMAIN containers |->
                     IF containers[k].status # "running" THEN containers[k].rw ELSE 0]
  <2>1. s.containersReclaimable = Total(f)
    BY DEF summarizeDiskUsage
  <2>2. f \in [1..Len(containers) -> Int]
    BY <1>2
  <2>3. Total(f) = SumFunctionOnSet(f, DOMAIN containers)
    <3> HIDE DEF f
    <3> QED
      BY <1>2, <2>2, TotalIsSum
  <2>4. \A k \in DOMAIN containers :
          f[k] = IF k \in DOMAIN containers \ running THEN rw[k] ELSE 0
    OBVIOUS
  <2>5. SumFunctionOnSet(f, DOMAIN containers) = SumFunctionOnSet(rw, DOMAIN containers \ running)
    <3> DEFINE S == DOMAIN containers
               T == S \ running
    <3>1. T \in SUBSET S /\ IsFiniteSet(S) /\ \A k \in S : rw[k] \in Int
      BY <1>3
    <3>2. \A k \in S : f[k] = IF k \in T THEN rw[k] ELSE 0
      BY <2>4
    <3> HIDE DEF f, rw, S, T
    <3>3. SumFunctionOnSet(f, S) = SumFunctionOnSet(rw, T)
      BY <3>1, <3>2, SumOfPart
    <3> QED
      BY <3>3 DEF S, T
  <2> QED
    BY <2>1, <2>3, <2>5
<1>5. s.containersSize = SumFunctionOnSet(rw, DOMAIN rw)
  <2>1. s.containersSize = Total([k \in DOMAIN containers |-> containers[k].rw])
    BY DEF summarizeDiskUsage
  <2>2. rw \in [1..Len(containers) -> Int]
    BY <1>2
  <2>3. s.containersSize = Total(rw)
    BY <2>1
  <2>4. Total(rw) = SumFunctionOnSet(rw, 1..Len(containers))
    <3> HIDE DEF rw
    <3> QED
      BY <1>2, <2>2, TotalIsSum
  <2> QED
    BY <1>2, <2>3, <2>4
<1>6. s.containersSize - s.containersReclaimable = SumFunctionOnSet(rw, running)
  <2> DEFINE S == DOMAIN rw
  <2>1. running \in SUBSET S /\ IsFiniteSet(S) /\ \A k \in S : rw[k] \in Int
    BY <1>3
  <2> HIDE DEF rw, running, S
  <2>2. SumFunctionOnSet(rw, S) = SumFunctionOnSet(rw, running) + SumFunctionOnSet(rw, S \ running)
    BY <2>1, SumSplit
  <2>3. SumFunctionOnSet(rw, running) \in Int /\ SumFunctionOnSet(rw, S \ running) \in Int
    <3>1. IsFiniteSet(running) /\ IsFiniteSet(S \ running)
      BY <2>1, FS_Subset
    <3> QED
      BY <2>1, <3>1, SumType
  <2>4. s.containersSize - s.containersReclaimable
          = SumFunctionOnSet(rw, S) - SumFunctionOnSet(rw, S \ running)
    BY <1>4, <1>5 DEF S
  <2> QED
    BY <2>2, <2>3, <2>4
<1>7. s.volumesReclaimable <= s.volumesSize
  <2> DEFINE size == [k \in DOMAIN volumes |-> volumes[k].size]
             reclaimable == [k \in DOMAIN volumes |-> volumes[k].reclaimable]
             S == 1..Len(volumes)
  <2> DEFINE E == [size : Nat, reclaimable : Nat]
  <2>1. DOMAIN volumes = S /\ Len(volumes) \in Nat /\ IsFiniteSet(S) /\ \A k \in S : volumes[k] \in E
    <3>1. volumes \in Seq(E)
      BY DEF DfReport
    <3> HIDE DEF volumes, E
    <3> QED
      BY <3>1, ListFunction
  <2>2. \A k \in S : /\ volumes[k].size \in Nat /\ volumes[k].reclaimable \in Nat
                     /\ volumes[k].reclaimable \in {0, volumes[k].size}
    BY <2>1 DEF DfReport
  <2>3. /\ size \in [S -> Int] /\ reclaimable \in [S -> Int]
        /\ \A k \in S : size[k] \in Int /\ reclaimable[k] \in Int /\ reclaimable[k] <= size[k]
    BY <2>1, <2>2
  <2>4. s.volumesSize = Total(size) /\ s.volumesReclaimable = Total(reclaimable)
    BY DEF summarizeDiskUsage
  <2> HIDE DEF size, reclaimable
  <2>5. Total(size) = SumFunctionOnSet(size, S) /\ Total(reclaimable) = SumFunctionOnSet(reclaimable, S)
    BY <2>1, <2>3, TotalIsSum
  <2> HIDE DEF S
  <2>6. SumFunctionOnSet(reclaimable, S) <= SumFunctionOnSet(size, S)
    BY <2>1, <2>3, SumBound
  <2> QED
    BY <2>4, <2>5, <2>6
<1> QED
  BY <1>1, <1>4, <1>6, <1>7 DEF Right

\* The sums a scrape is shown are those of podman's report: an image is counted
\* once whatever its tags, a running container is not reclaimable, and the
\* reclaimable part is not more than the whole (pdcs/disk_usage.go:61-104).
THEOREM SummariesRight == Spec => []SummaryRight
<1>1. DiskUsageSummary \in 1..MaxVer => DiskUsageSummary \in WellSummed
  <2> SUFFICES ASSUME DiskUsageSummary \in 1..MaxVer,
                      NEW report \in DfReports[DiskUsageSummary]
               PROVE  Right(report)
    BY DEF WellSummed
  <2>1. report \in DfReport
    BY DfReportsAssumption DEF DfReportsAssumption
  <2> QED
    BY <2>1, ReportSummed
<1>2. SummaryRight
  BY <1>1 DEF SummaryRight
<1> QED
  BY <1>2, PTL
=============================================================================
