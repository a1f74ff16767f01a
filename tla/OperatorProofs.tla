--------------------------- MODULE OperatorProofs ---------------------------
(***************************************************************************)
(* Proofs about the pure operators: Matching, Settlement and Funding; and  *)
(* the facts about finite sets, sums, ranks and folds that these and the   *)
(* other proofs rest on.  None of the induction theorems of the library    *)
(* can be used, whose parameter is an operator: what would be an induction *)
(* is a minimal counterexample, taken from a well-founded order (LeastNat, *)
(* MinimalSubset).                                                         *)
(*                                                                         *)
(* Settling one side of a trade, at any price and quantity and for any fee *)
(* rate and leverage, neither makes nor loses money, keeps the locked      *)
(* balance backed and never goes below zero.                               *)
(***************************************************************************)
EXTENDS Matching, Funding, SequencesExt, TLAPS, FiniteSetTheorems, SequenceTheorems,
        WellFoundedInduction

(* A sequence without one of its elements.                                 *)
LEMMA RemovedAt ==
  ASSUME NEW S, NEW s \in Seq(S), NEW i \in 1..Len(s)
  PROVE  /\ RemoveAt(s, i) \in Seq(S)
         /\ Len(RemoveAt(s, i)) = Len(s) - 1
         /\ \A k \in 1..(Len(s) - 1) :
              RemoveAt(s, i)[k] = IF k < i THEN s[k] ELSE s[k + 1]
<1> DEFINE a == SubSeq(s, 1, i - 1)
           b == SubSeq(s, i + 1, Len(s))
<1>1. /\ a \in Seq(S) /\ Len(a) = i - 1
      /\ \A k \in 1..(i - 1) : a[k] = s[k]
  <2>1. \A k \in 1..(i - 1) : s[k] \in S
    OBVIOUS
  <2>2. /\ a \in Seq(S) /\ Len(a) = IF 1 <= i - 1 THEN i - 1 - 1 + 1 ELSE 0
        /\ \A k \in 1..(i - 1 - 1 + 1) : a[k] = s[1 + k - 1]
    BY <2>1, SubSeqProperties
  <2> QED  BY <2>2
<1>2. /\ b \in Seq(S) /\ Len(b) = Len(s) - i
      /\ \A k \in 1..(Len(s) - i) : b[k] = s[i + k]
  <2>1. \A k \in (i + 1)..Len(s) : s[k] \in S
    OBVIOUS
  <2>2. /\ b \in Seq(S) /\ Len(b) = IF i + 1 <= Len(s) THEN Len(s) - (i + 1) + 1 ELSE 0
        /\ \A k \in 1..(Len(s) - (i + 1) + 1) : b[k] = s[i + 1 + k - 1]
    BY <2>1, SubSeqProperties
  <2> QED  BY <2>2
<1>3. RemoveAt(s, i) = a \o b
  BY DEF RemoveAt
<1> HIDE DEF a, b
<1>4. /\ a \o b \in Seq(S) /\ Len(a \o b) = Len(a) + Len(b)
      /\ \A k \in 1..(Len(a) + Len(b)) :
           (a \o b)[k] = IF k <= Len(a) THEN a[k] ELSE b[k - Len(a)]
  BY <1>1, <1>2, ConcatProperties
<1>5. Len(a) + Len(b) = Len(s) - 1 /\ Len(s) \in Nat /\ i \in Nat
  BY ONLY <1>1, <1>2, s \in Seq(S), i \in 1..Len(s)
<1>6. ASSUME NEW k \in 1..(Len(s) - 1) PROVE (a \o b)[k] = IF k < i THEN s[k] ELSE s[k + 1]
  <2>1. k \in 1..(Len(a) + Len(b))
    BY ONLY <1>5, k \in 1..(Len(s) - 1)
  <2>2. CASE k < i
    <3>1. k <= Len(a) /\ k \in 1..(i - 1)
      BY ONLY <2>2, <1>1, <1>5, k \in 1..(Len(s) - 1)
    <3> QED  BY ONLY <2>1, <2>2, <3>1, <1>1, <1>4
  <2>3. CASE ~(k < i)
    <3>1. ~(k <= Len(a)) /\ k - Len(a) = k - i + 1 /\ k - i + 1 \in 1..(Len(s) - i)
          /\ i + (k - i + 1) = k + 1
      BY ONLY <2>3, <1>1, <1>5, k \in 1..(Len(s) - 1)
    <3> QED  BY ONLY <2>1, <2>3, <3>1, <1>2, <1>4
  <2> QED  BY ONLY <2>2, <2>3
<1> QED  BY ONLY <1>3, <1>4, <1>5, <1>6

(* A set of numbers has a least one.                                       *)
LEMMA LeastNat ==
  ASSUME NEW S \in SUBSET Nat, S # {}
  PROVE  \E x \in S : \A y \in S : x <= y
<1> DEFINE R == {ss \in Nat \X Nat : ss[1] < ss[2]}
<1>1. IsWellFoundedOn(R, Nat)
  BY NatLessThanWellFounded, Zenon DEF OpToRel
<1>2. PICK x \in S : \A y \in S : ~(<<y, x>> \in R)
  <2> HIDE DEF R
  <2> QED  BY <1>1, WFMin, Zenon
<1>3. \A y \in S : x <= y
  <2> SUFFICES ASSUME NEW y \in S, ~(x <= y) PROVE FALSE
    OBVIOUS
  <2>1. y < x /\ <<y, x>> \in Nat \X Nat
    OBVIOUS
  <2>2. <<y, x>> \in R
    BY <2>1
  <2> QED  BY <1>2, <2>2
<1> QED  BY <1>3

(* Among sets of subsets of a finite set there is one that has no other.   *)
LEMMA MinimalSubset ==
  ASSUME NEW S, IsFiniteSet(S), NEW F \in SUBSET (SUBSET S), F # {}
  PROVE  \E T \in F : \A U \in F : U \subseteq T => U = T
<1> DEFINE R == StrictSubsetOrdering(S)
<1>1. IsWellFoundedOn(R, SUBSET S)
  BY FS_StrictSubsetOrderingWellFounded, FS_FiniteSubsetsOfFinite
<1>2. PICK T \in F : \A U \in F : ~(<<U, T>> \in R)
  <2> HIDE DEF R
  <2> QED  BY <1>1, WFMin, Zenon
<1>3. ASSUME NEW U \in F, U \subseteq T PROVE U = T
  BY <1>2, <1>3 DEF StrictSubsetOrdering
<1> QED  BY <1>2, <1>3

-----------------------------------------------------------------------------

\* g adds up f over the sets of D, an element at a time.
AddsUp(g, f, D) ==
  g = [s \in D |-> IF s = {} THEN 0
                   ELSE f[CHOOSE x \in s : TRUE] + g[s \ {CHOOSE x \in s : TRUE}]]

LEMMA AddsUpExists ==
  ASSUME NEW S, IsFiniteSet(S), NEW f
  PROVE  \E g : AddsUp(g, f, SUBSET S)
<1> DEFINE D(n) == {s \in SUBSET S : Cardinality(s) <= n}
           Bad == {n \in Nat : ~(\E g : AddsUp(g, f, D(n)))}
<1>1. SUBSET S = D(Cardinality(S)) /\ Cardinality(S) \in Nat
  BY FS_Subset, FS_CardinalityType
<1>2. ASSUME Bad # {} PROVE FALSE
  <2>1. PICK n \in Bad : \A m \in Bad : n <= m
    <3> HIDE DEF Bad
    <3>1. Bad \in SUBSET Nat
      BY DEF Bad
    <3> QED  BY <1>2, <3>1, LeastNat
  <2>2. \A s \in SUBSET S : s # {} => /\ IsFiniteSet(s) /\ Cardinality(s) \in Nat
                                      /\ \A x \in s : Cardinality(s \ {x}) = Cardinality(s) - 1
    BY FS_Subset, FS_RemoveElement, FS_CardinalityType
  <2>3. CASE n = 0
    <3>1. D(0) = {{}}
      BY <2>2, FS_EmptySet, FS_Subset, FS_CardinalityType
    <3> DEFINE g == [s \in {{}} |-> 0]
    <3>2. AddsUp(g, f, {{}})
      BY DEF AddsUp
    <3> QED  BY <2>1, <2>3, <3>1, <3>2
  <2>4. CASE n # 0
    <3>1. n - 1 \in Nat /\ n - 1 \notin Bad
      <4>1. n \in Nat
        OBVIOUS
      <4> HIDE DEF Bad
      <4> QED  BY <2>1, <2>4, <4>1
    <3>2. PICK g : AddsUp(g, f, D(n - 1))
      BY <3>1
    <3> DEFINE X(s) == CHOOSE x \in s : TRUE
               h == [s \in D(n) |-> IF s = {} THEN 0 ELSE f[X(s)] + g[s \ {X(s)}]]
    <3>3. ASSUME NEW s \in D(n), s # {}
          PROVE  s \ {X(s)} \in D(n - 1) /\ D(n - 1) \subseteq D(n)
      <4>1. X(s) \in s
        BY <3>3
      <4>2. Cardinality(s) <= n /\ Cardinality(s \ {X(s)}) = Cardinality(s) - 1
            /\ Cardinality(s) \in Nat
        BY <2>2, <3>3, <4>1
      <4>3. s \ {X(s)} \in SUBSET S
        BY <3>3
      <4>4. \A u \in SUBSET S : Cardinality(u) \in Nat
        BY FS_Subset, FS_CardinalityType
      <4> QED  BY <4>2, <4>3, <4>4, <3>1
    <3>4. ASSUME NEW s \in D(n - 1) PROVE s \in D(n) /\ h[s] = g[s]
      <4>1. Cardinality(s) \in Nat /\ s \in D(n)
        BY FS_Subset, FS_CardinalityType, <3>1
      <4>2. g[s] = IF s = {} THEN 0 ELSE f[X(s)] + g[s \ {X(s)}]
        BY <3>2 DEF AddsUp
      <4> QED  BY <4>1, <4>2
    <3>5. ASSUME NEW s \in D(n)
          PROVE  h[s] = IF s = {} THEN 0 ELSE f[X(s)] + h[s \ {X(s)}]
      <4>1. h[s] = IF s = {} THEN 0 ELSE f[X(s)] + g[s \ {X(s)}]
        OBVIOUS
      <4> HIDE DEF h, D, X
      <4> QED  BY <3>3, <3>4, <4>1
    <3>6. AddsUp(h, f, D(n))
      <4>1. h = [s \in D(n) |-> h[s]]
        OBVIOUS
      <4> HIDE DEF h
      <4> QED  BY <3>5, <4>1 DEF AddsUp
    <3> QED  BY <2>1, <3>6
  <2> QED  BY <2>3, <2>4
<1> QED  BY <1>1, <1>2

(* The sum over a set is one element and the sum of the rest.              *)
LEMMA SumRecursion ==
  ASSUME NEW S, IsFiniteSet(S), NEW f
  PROVE  \E g : AddsUp(g, f, SUBSET S) /\ SumFunctionOnSet(f, S) = g[S]
<1>1. PICK g : AddsUp(g, f, SUBSET S)
  BY AddsUpExists
<1> DEFINE iter == CHOOSE h : AddsUp(h, f, SUBSET S)
<1>2. AddsUp(iter, f, SUBSET S)
  BY <1>1
<1>3. SumFunctionOnSet(f, S) = iter[S]
  BY Zenon DEF SumFunctionOnSet, FoldFunctionOnSet, MapThenFoldSet, AddsUp
<1> QED  BY <1>2, <1>3

LEMMA SumEmpty ==
  ASSUME NEW f
  PROVE  SumFunctionOnSet(f, {}) = 0
<1>1. PICK g : AddsUp(g, f, SUBSET {}) /\ SumFunctionOnSet(f, {}) = g[{}]
  BY SumRecursion, FS_EmptySet
<1>2. {} \in SUBSET {}
  OBVIOUS
<1> QED  BY <1>1, <1>2 DEF AddsUp

(* Functions that add up agree where both do.                              *)
LEMMA AddsUpSame ==
  ASSUME NEW S, IsFiniteSet(S), NEW T \in SUBSET S, NEW f, NEW e, NEW g, NEW h,
         AddsUp(g, f, SUBSET S), AddsUp(h, e, SUBSET T), \A x \in T : f[x] = e[x]
  PROVE  g[T] = h[T]
<1> DEFINE Bad == {s \in SUBSET T : g[s] # h[s]}
           X(s) == CHOOSE x \in s : TRUE
<1>1. ASSUME Bad # {} PROVE FALSE
  <2>1. PICK s \in Bad : \A u \in Bad : u \subseteq s => u = s
    <3>1. IsFiniteSet(T) /\ Bad \in SUBSET (SUBSET T)
      BY FS_Subset
    <3> HIDE DEF Bad
    <3> QED  BY <1>1, <3>1, MinimalSubset
  <2>2. s \in SUBSET T /\ s \in SUBSET S
    OBVIOUS
  <2>3. /\ g[s] = IF s = {} THEN 0 ELSE f[X(s)] + g[s \ {X(s)}]
        /\ h[s] = IF s = {} THEN 0 ELSE e[X(s)] + h[s \ {X(s)}]
    BY <2>2 DEF AddsUp
  <2>4. CASE s = {}
    BY <2>3, <2>4
  <2>5. CASE s # {}
    <3>1. X(s) \in s
      BY <2>5
    <3> HIDE DEF X
    <3>2. s \ {X(s)} \in SUBSET T /\ s \ {X(s)} \notin Bad
      BY <2>1, <2>2, <3>1
    <3>3. g[s \ {X(s)}] = h[s \ {X(s)}]
      BY <3>2
    <3> QED  BY <2>2, <2>3, <2>5, <3>1, <3>3
  <2> QED  BY <2>4, <2>5
<1> QED  BY <1>1

(* A sum depends on the values at the elements of the set alone.           *)
LEMMA SumSame ==
  ASSUME NEW S, IsFiniteSet(S), NEW f, NEW e, \A x \in S : f[x] = e[x]
  PROVE  SumFunctionOnSet(f, S) = SumFunctionOnSet(e, S)
<1>1. PICK g : AddsUp(g, f, SUBSET S) /\ SumFunctionOnSet(f, S) = g[S]
  BY SumRecursion
<1>2. PICK h : AddsUp(h, e, SUBSET S) /\ SumFunctionOnSet(e, S) = h[S]
  BY SumRecursion
<1> QED  BY <1>1, <1>2, AddsUpSame

(* One element of a set that is not empty and the rest.                    *)
LEMMA SumOne ==
  ASSUME NEW S, IsFiniteSet(S), S # {}, NEW f
  PROVE  \E x \in S : SumFunctionOnSet(f, S) = f[x] + SumFunctionOnSet(f, S \ {x})
<1> DEFINE x == CHOOSE y \in S : TRUE
<1>1. x \in S
  OBVIOUS
<1>2. PICK g : AddsUp(g, f, SUBSET S) /\ SumFunctionOnSet(f, S) = g[S]
  BY SumRecursion
<1>3. g[S] = f[x] + g[S \ {x}]
  BY <1>2 DEF AddsUp
<1> HIDE DEF x
<1>4. IsFiniteSet(S \ {x}) /\ S \ {x} \in SUBSET S
  BY FS_RemoveElement
<1>5. PICK h : AddsUp(h, f, SUBSET (S \ {x})) /\ SumFunctionOnSet(f, S \ {x}) = h[S \ {x}]
  BY <1>4, SumRecursion
<1>6. g[S \ {x}] = h[S \ {x}]
  <2> DEFINE T == S \ {x}
  <2>1. T \in SUBSET S /\ AddsUp(h, f, SUBSET T) /\ \A y \in T : f[y] = f[y]
    BY <1>4, <1>5
  <2> HIDE DEF T
  <2>2. g[T] = h[T]
    <3>1. IsFiniteSet(S) /\ AddsUp(g, f, SUBSET S)
      BY <1>2
    <3>2. T \in SUBSET S /\ AddsUp(h, f, SUBSET T)
      BY <2>1
    <3>3. \A U \in SUBSET S : AddsUp(h, f, SUBSET U) => g[U] = h[U]
      BY <3>1, AddsUpSame
    <3> QED  BY <3>2, <3>3
  <2> QED  BY <2>2 DEF T
<1> QED  BY <1>1, <1>2, <1>3, <1>5, <1>6

(* A sum of integers is an integer.                                        *)
LEMMA SumInt ==
  ASSUME NEW S, IsFiniteSet(S), NEW f, \A x \in S : f[x] \in Int
  PROVE  SumFunctionOnSet(f, S) \in Int
<1> DEFINE Bad == {T \in SUBSET S : SumFunctionOnSet(f, T) \notin Int}
<1>1. ASSUME Bad # {} PROVE FALSE
  <2>1. PICK T \in Bad : \A U \in Bad : U \subseteq T => U = T
    <3>1. Bad \in SUBSET (SUBSET S)
      OBVIOUS
    <3> HIDE DEF Bad
    <3> QED  BY <1>1, <3>1, MinimalSubset
  <2>2. T # {}
    BY SumEmpty
  <2>3. IsFiniteSet(T)
    BY FS_Subset
  <2>4. PICK x \in T : SumFunctionOnSet(f, T) = f[x] + SumFunctionOnSet(f, T \ {x})
    BY <2>2, <2>3, SumOne
  <2>5. SumFunctionOnSet(f, T \ {x}) \in Int
    BY <2>1
  <2> QED  BY <2>4, <2>5
<1> QED  BY <1>1

(* A sum of natural numbers is one.                                        *)
LEMMA SumNat ==
  ASSUME NEW S, IsFiniteSet(S), NEW f, \A x \in S : f[x] \in Nat
  PROVE  SumFunctionOnSet(f, S) \in Nat
<1> DEFINE Bad == {T \in SUBSET S : SumFunctionOnSet(f, T) \notin Nat}
<1>1. ASSUME Bad # {} PROVE FALSE
  <2>1. PICK T \in Bad : \A U \in Bad : U \subseteq T => U = T
    <3>1. Bad \in SUBSET (SUBSET S)
      OBVIOUS
    <3> HIDE DEF Bad
    <3> QED  BY <1>1, <3>1, MinimalSubset
  <2>2. T # {}
    BY SumEmpty
  <2>3. IsFiniteSet(T)
    BY FS_Subset
  <2>4. PICK x \in T : SumFunctionOnSet(f, T) = f[x] + SumFunctionOnSet(f, T \ {x})
    BY <2>2, <2>3, SumOne
  <2>5. SumFunctionOnSet(f, T \ {x}) \in Nat
    BY <2>1
  <2> QED  BY <2>4, <2>5
<1> QED  BY <1>1

(* A sum is any of its elements and the sum of the rest.                   *)
LEMMA SumElement ==
  ASSUME NEW S, IsFiniteSet(S), NEW f, \A x \in S : f[x] \in Int, NEW y \in S
  PROVE  SumFunctionOnSet(f, S) = f[y] + SumFunctionOnSet(f, S \ {y})
<1> DEFINE Sum(T) == SumFunctionOnSet(f, T)
           Bad == {T \in SUBSET S : \E z \in T : Sum(T) # f[z] + Sum(T \ {z})}
<1>1. ASSUME Bad # {} PROVE FALSE
  <2>1. PICK T \in Bad : \A U \in Bad : U \subseteq T => U = T
    <3>1. Bad \in SUBSET (SUBSET S)
      OBVIOUS
    <3> HIDE DEF Bad
    <3> QED  BY <1>1, <3>1, MinimalSubset
  <2>2. PICK z \in T : Sum(T) # f[z] + Sum(T \ {z})
    OBVIOUS
  <2>3. T \in SUBSET S /\ IsFiniteSet(T)
    BY FS_Subset
  <2>4. PICK x \in T : Sum(T) = f[x] + Sum(T \ {x})
    BY <2>2, <2>3, SumOne
  <2>5. Sum(T \ {x}) = f[z] + Sum((T \ {x}) \ {z})
    <3>1. T \ {x} \notin Bad /\ z \in T \ {x}
      BY <2>1, <2>2, <2>4
    <3>2. T \ {x} \in SUBSET S
      BY <2>3
    <3> HIDE DEF Sum
    <3> QED  BY <3>1, <3>2
  <2>6. Sum(T \ {z}) = f[x] + Sum((T \ {z}) \ {x})
    <3>1. T \ {z} \notin Bad /\ x \in T \ {z}
      BY <2>1, <2>2, <2>4
    <3>2. T \ {z} \in SUBSET S
      BY <2>3
    <3> HIDE DEF Sum
    <3> QED  BY <3>1, <3>2
  <2>7. (T \ {z}) \ {x} = (T \ {x}) \ {z}
    OBVIOUS
  <2>8. Sum((T \ {x}) \ {z}) \in Int /\ f[x] \in Int /\ f[z] \in Int
    <3>1. IsFiniteSet((T \ {x}) \ {z})
      BY <2>3, FS_RemoveElement
    <3>2. \A w \in (T \ {x}) \ {z} : f[w] \in Int
      BY <2>3
    <3> QED  BY <2>3, <3>1, <3>2, SumInt
  <2> HIDE DEF Sum
  <2>9. PICK p, q, R : p = f[x] /\ q = f[z] /\ R = Sum((T \ {x}) \ {z})
    OBVIOUS
  <2>10. Sum(T) = p + (q + R)
    BY ONLY Zenon, <2>4, <2>5, <2>9
  <2>11. f[z] + Sum(T \ {z}) = q + (p + R)
    BY ONLY Zenon, <2>6, <2>7, <2>9
  <2>12. p + (q + R) = q + (p + R)
    BY ONLY <2>8, <2>9
  <2> QED  BY ONLY <2>2, <2>10, <2>11, <2>12
<1> QED  BY <1>1

(* Where two functions differ at one element only, so do their sums.       *)
LEMMA SumChange ==
  ASSUME NEW S, IsFiniteSet(S), NEW f, NEW e, NEW y \in S,
         \A x \in S : f[x] \in Int /\ e[x] \in Int,
         \A x \in S \ {y} : f[x] = e[x]
  PROVE  SumFunctionOnSet(e, S) = SumFunctionOnSet(f, S) + e[y] - f[y]
<1> DEFINE T == S \ {y}
<1>1. IsFiniteSet(T)
  BY FS_RemoveElement
<1>2. SumFunctionOnSet(f, T) = SumFunctionOnSet(e, T)
  <2>1. \A x \in T : f[x] = e[x]
    OBVIOUS
  <2> HIDE DEF T
  <2> QED  BY <1>1, <2>1, SumSame
<1>3. SumFunctionOnSet(f, T) \in Int
  <2>1. \A x \in T : f[x] \in Int
    OBVIOUS
  <2> HIDE DEF T
  <2> QED  BY <1>1, <2>1, SumInt
<1>4. /\ SumFunctionOnSet(f, S) = f[y] + SumFunctionOnSet(f, T)
      /\ SumFunctionOnSet(e, S) = e[y] + SumFunctionOnSet(e, T)
  BY SumElement
<1> HIDE DEF T
<1> QED  BY <1>2, <1>3, <1>4

(* A new element adds its value.                                           *)
LEMMA SumAdd ==
  ASSUME NEW S, IsFiniteSet(S), NEW f, NEW y, y \notin S,
         \A x \in S \cup {y} : f[x] \in Int
  PROVE  SumFunctionOnSet(f, S \cup {y}) = SumFunctionOnSet(f, S) + f[y]
<1> DEFINE T == S \cup {y}
<1>1. IsFiniteSet(T) /\ y \in T /\ T \ {y} = S
  BY FS_AddElement
<1>2. \A x \in T : f[x] \in Int
  OBVIOUS
<1> HIDE DEF T
<1>3. SumFunctionOnSet(f, T) = f[y] + SumFunctionOnSet(f, S)
  BY <1>1, <1>2, SumElement
<1>4. SumFunctionOnSet(f, S) \in Int
  BY SumInt
<1>5. f[y] \in Int
  OBVIOUS
<1> QED  BY <1>3, <1>4, <1>5 DEF T

(* Of natural numbers, fewer add up to no more.                            *)
LEMMA SumSubset ==
  ASSUME NEW S, IsFiniteSet(S), NEW f, \A x \in S : f[x] \in Nat, NEW T \in SUBSET S
  PROVE  SumFunctionOnSet(f, T) <= SumFunctionOnSet(f, S)
<1> DEFINE Sum(U) == SumFunctionOnSet(f, U)
           Bad == {U \in SUBSET S : T \subseteq U /\ ~(Sum(T) <= Sum(U))}
<1>1. ASSUME Bad # {} PROVE FALSE
  <2>1. PICK U \in Bad : \A V \in Bad : V \subseteq U => V = U
    <3>1. Bad \in SUBSET (SUBSET S)
      OBVIOUS
    <3> HIDE DEF Bad
    <3> QED  BY <1>1, <3>1, MinimalSubset
  <2>2. U \in SUBSET S /\ T \subseteq U /\ ~(Sum(T) <= Sum(U)) /\ IsFiniteSet(U) /\ IsFiniteSet(T)
    BY FS_Subset
  <2>3. \A V \in SUBSET S : Sum(V) \in Nat
    BY FS_Subset, SumNat
  <2>4. T # U
    BY <2>2, <2>3
  <2>5. PICK x \in U : x \notin T
    BY <2>2, <2>4
  <2>6. U \ {x} \notin Bad
    BY <2>1, <2>5
  <2>7. Sum(T) <= Sum(U \ {x})
    <3>1. U \ {x} \in SUBSET S /\ T \subseteq U \ {x}
      BY <2>2, <2>5
    <3> HIDE DEF Sum
    <3> QED  BY <2>6, <3>1
  <2>8. Sum(U) = f[x] + Sum(U \ {x})
    <3>1. \A w \in U : f[w] \in Int
      BY <2>2
    <3> QED  BY <2>2, <3>1, SumElement
  <2>9. f[x] \in Nat /\ Sum(U \ {x}) \in Nat /\ Sum(T) \in Nat
    BY <2>2, <2>3
  <2> HIDE DEF Sum
  <2> QED  BY <2>2, <2>7, <2>8, <2>9
<1> QED  BY <1>1

(* What adds nothing can be left out of a sum.                             *)
LEMMA SumRest ==
  ASSUME NEW S, IsFiniteSet(S), NEW T \in SUBSET S, NEW f,
         \A x \in S : f[x] \in Int, \A x \in S : x \notin T => f[x] = 0
  PROVE  SumFunctionOnSet(f, T) = SumFunctionOnSet(f, S)
<1> DEFINE Sum(U) == SumFunctionOnSet(f, U)
           Bad == {U \in SUBSET S : T \subseteq U /\ Sum(T) # Sum(U)}
<1>1. ASSUME Bad # {} PROVE FALSE
  <2>1. PICK U \in Bad : \A V \in Bad : V \subseteq U => V = U
    <3>1. Bad \in SUBSET (SUBSET S)
      OBVIOUS
    <3> HIDE DEF Bad
    <3> QED  BY <1>1, <3>1, MinimalSubset
  <2>2. U \in SUBSET S /\ T \subseteq U /\ Sum(T) # Sum(U) /\ IsFiniteSet(U)
    BY FS_Subset
  <2>3. T # U
    BY <2>2
  <2>4. PICK x \in U : x \notin T
    BY <2>2, <2>3
  <2>5. U \ {x} \notin Bad
    BY <2>1, <2>4
  <2>6. Sum(T) = Sum(U \ {x})
    <3>1. U \ {x} \in SUBSET S /\ T \subseteq U \ {x}
      BY <2>2, <2>4
    <3> HIDE DEF Sum
    <3> QED  BY <2>5, <3>1
  <2>7. Sum(U) = f[x] + Sum(U \ {x})
    <3>1. \A w \in U : f[w] \in Int
      BY <2>2
    <3> QED  BY <2>2, <3>1, SumElement
  <2>8. f[x] = 0 /\ Sum(U \ {x}) \in Int
    <3>1. IsFiniteSet(U \ {x}) /\ \A w \in U \ {x} : f[w] \in Int
      BY <2>2, FS_Subset
    <3> HIDE DEF Sum
    <3> QED  BY <2>2, <2>4, <3>1, SumInt DEF Sum
  <2> HIDE DEF Sum
  <2> QED  BY <2>2, <2>6, <2>7, <2>8
<1> QED  BY <1>1

(* An image of a finite set is finite.                                     *)
LEMMA ImageFinite ==
  ASSUME NEW S, IsFiniteSet(S), NEW f
  PROVE  IsFiniteSet({f[x] : x \in S})
<1> DEFINE T == {f[x] : x \in S}
           g == [x \in S |-> f[x]]
<1>1. g \in [S -> T] /\ \A y \in T : \E x \in S : g[x] = y
  OBVIOUS
<1> HIDE DEF g, T
<1>2. g \in Surjection(S, T)
  BY <1>1 DEF Surjection
<1>3. IsFiniteSet(T)
  BY <1>2, FS_Surjection
<1> QED  BY <1>3 DEF T

(* A sum over an image, element by element.                                *)
LEMMA SumMapped ==
  ASSUME NEW S, IsFiniteSet(S), NEW h, \A x, y \in S : h[x] = h[y] => x = y,
         NEW f, NEW e, \A x \in S : e[x] \in Int /\ e[x] = f[h[x]]
  PROVE  SumFunctionOnSet(f, {h[x] : x \in S}) = SumFunctionOnSet(e, S)
<1> DEFINE Image(U) == {h[x] : x \in U}
           Bad == {U \in SUBSET S : SumFunctionOnSet(f, Image(U)) # SumFunctionOnSet(e, U)}
<1>1. ASSUME Bad # {} PROVE FALSE
  <2>1. PICK U \in Bad : \A V \in Bad : V \subseteq U => V = U
    <3>1. Bad \in SUBSET (SUBSET S)
      OBVIOUS
    <3> HIDE DEF Bad
    <3> QED  BY <1>1, <3>1, MinimalSubset
  <2>2. U \in SUBSET S /\ SumFunctionOnSet(f, Image(U)) # SumFunctionOnSet(e, U)
    OBVIOUS
  <2>3. IsFiniteSet(U) /\ IsFiniteSet(Image(U))
    BY <2>2, FS_Subset, ImageFinite
  <2>4. U # {}
    <3>1. ASSUME U = {} PROVE Image(U) = {}
      BY <3>1
    <3> HIDE DEF Image
    <3> QED  BY <2>2, <3>1, SumEmpty
  <2>5. PICK x \in U : TRUE
    BY <2>4
  <2>6. SumFunctionOnSet(f, Image(U \ {x})) = SumFunctionOnSet(e, U \ {x})
    BY <2>1, <2>5
  <2>7. Image(U) \ {h[x]} = Image(U \ {x}) /\ h[x] \in Image(U)
    BY <2>2
  <2>8. \A y \in Image(U) : f[y] \in Int
    BY <2>2
  <2>9. \A y \in U : e[y] \in Int
    BY <2>2
  <2>10. e[x] = f[h[x]]
    BY <2>2
  <2> HIDE DEF Image, Bad
  <2>11. SumFunctionOnSet(f, Image(U)) = f[h[x]] + SumFunctionOnSet(f, Image(U) \ {h[x]})
    BY <2>3, <2>7, <2>8, SumElement
  <2>12. SumFunctionOnSet(e, U) = e[x] + SumFunctionOnSet(e, U \ {x})
    BY <2>3, <2>9, SumElement
  <2> QED  BY <2>2, <2>6, <2>7, <2>10, <2>11, <2>12
<1> QED  BY <1>1

(* Equal values add up to their number times one of them.                  *)
LEMMA SumConstant ==
  ASSUME NEW S, IsFiniteSet(S), NEW c \in Int, NEW f, \A x \in S : f[x] = c
  PROVE  SumFunctionOnSet(f, S) = c * Cardinality(S)
<1> DEFINE Sum(T) == SumFunctionOnSet(f, T)
           Bad == {T \in SUBSET S : Sum(T) # c * Cardinality(T)}
<1>1. ASSUME Bad # {} PROVE FALSE
  <2>1. PICK T \in Bad : \A U \in Bad : U \subseteq T => U = T
    <3>1. Bad \in SUBSET (SUBSET S)
      OBVIOUS
    <3> HIDE DEF Bad
    <3> QED  BY <1>1, <3>1, MinimalSubset
  <2>2. T \in SUBSET S /\ Sum(T) # c * Cardinality(T) /\ IsFiniteSet(T)
    BY FS_Subset
  <2>3. T # {}
    <3>1. Sum({}) = 0 /\ Cardinality({}) = 0
      BY SumEmpty, FS_EmptySet
    <3> HIDE DEF Sum
    <3> QED  BY <2>2, <3>1
  <2>4. PICK x \in T : Sum(T) = f[x] + Sum(T \ {x})
    BY <2>2, <2>3, SumOne
  <2>5. Sum(T \ {x}) = c * Cardinality(T \ {x})
    <3>1. T \ {x} \notin Bad /\ T \ {x} \in SUBSET S
      BY <2>1, <2>2, <2>4
    <3> HIDE DEF Sum
    <3> QED  BY <3>1
  <2>6. Cardinality(T \ {x}) = Cardinality(T) - 1 /\ Cardinality(T) \in Nat
    BY <2>2, <2>4, FS_RemoveElement, FS_CardinalityType
  <2>7. f[x] = c
    BY <2>2, <2>4
  <2>8. ASSUME NEW n \in Nat PROVE c + c * (n - 1) = c * n
    OBVIOUS
  <2> HIDE DEF Sum
  <2> QED  BY <2>2, <2>4, <2>5, <2>6, <2>7, <2>8
<1> QED  BY <1>1

(* Two sets that share nothing add up to the sum over both.                *)
LEMMA SumUnion ==
  ASSUME NEW S, IsFiniteSet(S), NEW T, IsFiniteSet(T), S \cap T = {},
         NEW f, \A x \in S \cup T : f[x] \in Int
  PROVE  SumFunctionOnSet(f, S \cup T) = SumFunctionOnSet(f, S) + SumFunctionOnSet(f, T)
<1> DEFINE Sum(U) == SumFunctionOnSet(f, U)
           Bad == {U \in SUBSET T : Sum(S \cup U) # Sum(S) + Sum(U)}
<1>1. ASSUME Bad # {} PROVE FALSE
  <2>1. PICK U \in Bad : \A V \in Bad : V \subseteq U => V = U
    <3>1. Bad \in SUBSET (SUBSET T)
      OBVIOUS
    <3> HIDE DEF Bad
    <3> QED  BY <1>1, <3>1, MinimalSubset
  <2>2. U \in SUBSET T /\ Sum(S \cup U) # Sum(S) + Sum(U)
    OBVIOUS
  <2>3. IsFiniteSet(U) /\ IsFiniteSet(S \cup U)
    BY <2>2, FS_Subset, FS_Union
  <2>4. Sum({}) = 0 /\ Sum(S) \in Int
    BY SumEmpty, SumInt
  <2>5. U # {}
    <3> SUFFICES ASSUME U = {} PROVE FALSE
      OBVIOUS
    <3>1. S \cup U = S
      OBVIOUS
    <3>2. Sum(S \cup U) = Sum(S) /\ Sum(U) = Sum({})
      BY <3>1
    <3> HIDE DEF Sum, Bad
    <3> QED  BY <2>2, <2>4, <3>2
  <2>6. PICK x \in U : TRUE
    BY <2>5
  <2>7. U \ {x} \in SUBSET T /\ U \ {x} # U
    BY <2>2
  <2>8. Sum(S \cup (U \ {x})) = Sum(S) + Sum(U \ {x})
    <3> HIDE DEF Sum
    <3> QED  BY <2>1, <2>7
  <2>9. (S \cup U) \ {x} = S \cup (U \ {x}) /\ x \in S \cup U
    BY <2>2
  <2>10. \A y \in S \cup U : f[y] \in Int
    BY <2>2
  <2>11. Sum(S \cup U) = f[x] + Sum(S \cup (U \ {x}))
    BY <2>3, <2>9, <2>10, SumElement
  <2>12. Sum(U) = f[x] + Sum(U \ {x})
    BY <2>3, <2>10, SumElement
  <2>13. Sum(U \ {x}) \in Int /\ f[x] \in Int
    BY <2>3, <2>10, FS_Subset, SumInt
  <2> HIDE DEF Sum, Bad
  <2> QED  BY <2>2, <2>4, <2>8, <2>11, <2>12, <2>13
<1> QED  BY <1>1

LEMMA SumScaled ==
  ASSUME NEW S, IsFiniteSet(S), NEW f, \A x \in S : f[x] \in Int, NEW c \in Int,
         NEW g, \A x \in S : g[x] = c * f[x]
  PROVE  SumFunctionOnSet(g, S) = c * SumFunctionOnSet(f, S)
<1> DEFINE F(T) == SumFunctionOnSet(f, T)
           G(T) == SumFunctionOnSet(g, T)
           Bad == {T \in SUBSET S : G(T) # c * F(T)}
<1>1. \A x \in S : g[x] \in Int
  OBVIOUS
<1>2. \A T \in SUBSET S : IsFiniteSet(T) /\ F(T) \in Int /\ G(T) \in Int
  BY <1>1, FS_Subset, SumInt
<1>3. ASSUME Bad # {} PROVE FALSE
  <2>1. PICK T \in Bad : \A U \in Bad : U \subseteq T => U = T
    <3>1. Bad \in SUBSET (SUBSET S)
      OBVIOUS
    <3> HIDE DEF Bad
    <3> QED  BY <1>3, <3>1, MinimalSubset
  <2>2. T \in SUBSET S /\ G(T) # c * F(T)
    OBVIOUS
  <2>3. T # {}
    <3>1. F({}) = 0 /\ G({}) = 0 /\ c * 0 = 0
      BY SumEmpty
    <3> HIDE DEF F, G
    <3> QED  BY <2>2, <3>1
  <2>4. PICK x \in T : TRUE
    BY <2>3
  <2>5. G(T \ {x}) = c * F(T \ {x}) /\ T \ {x} \in SUBSET S
    <3>1. T \ {x} \notin Bad
      BY <2>1, <2>4
    <3> HIDE DEF F, G
    <3> QED  BY <2>2, <3>1
  <2>6. F(T) = f[x] + F(T \ {x}) /\ G(T) = g[x] + G(T \ {x})
    <3>1. IsFiniteSet(T)
      BY <1>2, <2>2
    <3>2. \A y \in T : f[y] \in Int
      BY <2>2
    <3>3. \A y \in T : g[y] \in Int
      BY <1>1, <2>2
    <3> QED  BY <2>4, <3>1, <3>2, <3>3, SumElement
  <2> DEFINE rest == F(T \ {x})
             fx == f[x]
  <2>7. rest \in Int /\ fx \in Int /\ g[x] = c * fx
    BY <1>2, <2>2, <2>4, <2>5
  <2>8. G(T) = c * fx + c * rest /\ F(T) = fx + rest
    <3> HIDE DEF F, G
    <3> QED  BY <2>5, <2>6, <2>7
  <2> HIDE DEF rest, fx, F, G
  <2>9. c * (fx + rest) = c * fx + c * rest
    BY <2>7
  <2> QED  BY <2>2, <2>8, <2>9
<1>4. S \in SUBSET S /\ S \notin Bad
  BY <1>3
<1> QED  BY <1>4

LEMMA SumPlus ==
  ASSUME NEW S, IsFiniteSet(S), NEW f, NEW e, \A x \in S : f[x] \in Int /\ e[x] \in Int,
         NEW g, \A x \in S : g[x] = f[x] + e[x]
  PROVE  SumFunctionOnSet(g, S) = SumFunctionOnSet(f, S) + SumFunctionOnSet(e, S)
<1> DEFINE F(T) == SumFunctionOnSet(f, T)
           E(T) == SumFunctionOnSet(e, T)
           G(T) == SumFunctionOnSet(g, T)
           Bad == {T \in SUBSET S : G(T) # F(T) + E(T)}
<1>1. \A x \in S : g[x] \in Int
  OBVIOUS
<1>2. \A T \in SUBSET S : IsFiniteSet(T) /\ F(T) \in Int /\ E(T) \in Int /\ G(T) \in Int
  BY <1>1, FS_Subset, SumInt
<1>3. ASSUME Bad # {} PROVE FALSE
  <2>1. PICK T \in Bad : \A U \in Bad : U \subseteq T => U = T
    <3>1. Bad \in SUBSET (SUBSET S)
      OBVIOUS
    <3> HIDE DEF Bad
    <3> QED  BY <1>3, <3>1, MinimalSubset
  <2>2. T \in SUBSET S /\ G(T) # F(T) + E(T)
    OBVIOUS
  <2>3. T # {}
    <3>1. F({}) = 0 /\ E({}) = 0 /\ G({}) = 0 /\ 0 = 0 + 0
      BY SumEmpty
    <3> HIDE DEF F, E, G
    <3> QED  BY <2>2, <3>1
  <2>4. PICK x \in T : TRUE
    BY <2>3
  <2> DEFINE rest == T \ {x}
  <2>5. G(rest) = F(rest) + E(rest) /\ rest \in SUBSET S
    <3>1. rest \notin Bad
      BY <2>1, <2>4
    <3> HIDE DEF F, E, G
    <3> QED  BY <2>2, <3>1
  <2>6. /\ F(T) = f[x] + F(rest) /\ E(T) = e[x] + E(rest) /\ G(T) = g[x] + G(rest)
        /\ f[x] \in Int /\ e[x] \in Int /\ g[x] = f[x] + e[x]
    <3>1. IsFiniteSet(T)
      BY <1>2, <2>2
    <3>2. /\ \A y \in T : f[y] \in Int
          /\ \A y \in T : e[y] \in Int
          /\ \A y \in T : g[y] \in Int
      BY <1>1, <2>2
    <3> QED  BY <2>2, <2>4, <3>1, <3>2, SumElement
  <2>7. F(rest) \in Int /\ E(rest) \in Int
    BY <1>2, <2>5
  <2> HIDE DEF F, E, G, rest
  <2> QED  BY <2>2, <2>5, <2>6, <2>7
<1>4. S \in SUBSET S /\ S \notin Bad
  BY <1>3
<1> QED  BY <1>4

-----------------------------------------------------------------------------
(* Folds.                                                                  *)

\* g folds the elements of S into base, c choosing which comes last of a subset.
FoldsInto(g, S, base, step, c) ==
  \A s \in SUBSET S : g[s] = IF s = {} THEN base ELSE step[<<g[s \ {c[s]}], c[s]>>]

(* A step that stays in A can be folded over any finite set, and the       *)
(* results are in A.                                                       *)
LEMMA FoldExists ==
  ASSUME NEW S, IsFiniteSet(S), NEW A, NEW base \in A, NEW step \in [A \X S -> A],
         NEW c, \A s \in SUBSET S : s # {} => c[s] \in s
  PROVE  \E g \in [SUBSET S -> A] : FoldsInto(g, S, base, step, c)
<1> DEFINE D(n) == {s \in SUBSET S : Cardinality(s) <= n}
           Val(g, s) == IF s = {} THEN base ELSE step[<<g[s \ {c[s]}], c[s]>>]
           Good(g, n) == g \in [D(n) -> A] /\ \A s \in D(n) : g[s] = Val(g, s)
           Bad == {n \in Nat : ~(\E g : Good(g, n))}
<1>1. SUBSET S = D(Cardinality(S)) /\ Cardinality(S) \in Nat
  BY FS_Subset, FS_CardinalityType
<1>2. \A s \in SUBSET S : /\ IsFiniteSet(s) /\ Cardinality(s) \in Nat
                           /\ \A x \in s : Cardinality(s \ {x}) = Cardinality(s) - 1
  BY FS_Subset, FS_RemoveElement, FS_CardinalityType
<1>3. ASSUME Bad # {} PROVE FALSE
  <2>1. PICK n \in Bad : \A m \in Bad : n <= m
    <3>1. Bad \in SUBSET Nat
      OBVIOUS
    <3> HIDE DEF Bad
    <3> QED  BY <1>3, <3>1, LeastNat
  <2>2. n \in Nat /\ ~(\E g : Good(g, n))
    OBVIOUS
  <2>3. CASE n = 0
    <3>1. D(0) = {{}}
      BY <1>2, FS_EmptySet
    <3> DEFINE g == [s \in {{}} |-> base]
    <3>2. Good(g, 0)
      BY <3>1
    <3> HIDE DEF Good
    <3> QED  BY <2>2, <2>3, <3>2
  <2>4. CASE n # 0
    <3>1. n - 1 \in Nat /\ \E g : Good(g, n - 1)
      <4>1. n - 1 \in Nat /\ n - 1 \notin Bad
        <5> HIDE DEF Bad
        <5> QED  BY <2>1, <2>2, <2>4
      <4> HIDE DEF Good
      <4> QED  BY <4>1
    <3>2. PICK g : Good(g, n - 1)
      BY <3>1
    <3> DEFINE h == [s \in D(n) |-> Val(g, s)]
    <3>3. ASSUME NEW s \in D(n), s # {}
          PROVE  c[s] \in s /\ s \ {c[s]} \in D(n - 1)
      BY <1>2, <3>1, <3>3
    <3>4. ASSUME NEW s \in D(n - 1) PROVE s \in D(n) /\ h[s] = g[s]
      <4>1. Cardinality(s) \in Nat /\ s \in D(n)
        BY <1>2, <3>1
      <4>2. g[s] = Val(g, s)
        BY <3>2
      <4> HIDE DEF Val, D
      <4> QED  BY <4>1, <4>2
    <3>5. ASSUME NEW s \in D(n) PROVE h[s] = Val(h, s) /\ h[s] \in A
      <4>1. h[s] = Val(g, s)
        OBVIOUS
      <4>2. CASE s = {}
        BY <4>1, <4>2
      <4>3. CASE s # {}
        <5>1. c[s] \in s /\ s \ {c[s]} \in D(n - 1) /\ s \subseteq S
          BY <3>3, <4>3
        <5>2. h[s \ {c[s]}] = g[s \ {c[s]}]
          BY <3>4, <5>1
        <5>3. g[s \ {c[s]}] \in A
          BY <3>2, <5>1
        <5> HIDE DEF h, D
        <5> QED  BY <4>1, <4>3, <5>1, <5>2, <5>3
      <4> QED  BY <4>2, <4>3
    <3>6. h \in [D(n) -> A]
      <4> HIDE DEF Val, D
      <4>1. h = [s \in D(n) |-> h[s]]
        OBVIOUS
      <4> HIDE DEF h
      <4> QED  BY <3>5, <4>1
    <3>7. Good(h, n)
      <4> HIDE DEF h, Val, D
      <4> QED  BY <3>5, <3>6
    <3> HIDE DEF Good
    <3> QED  BY <2>2, <3>7
  <2> QED  BY <2>3, <2>4
<1>4. PICK g : Good(g, Cardinality(S))
  BY <1>1, <1>3
<1>5. g \in [SUBSET S -> A] /\ FoldsInto(g, S, base, step, c)
  BY <1>1, <1>4 DEF FoldsInto
<1> QED  BY <1>5

-----------------------------------------------------------------------------
(* Ranks in a strict order, given as a set of pairs.                       *)

StrictOrder(R, S) ==
  /\ \A m \in S : <<m, m>> \notin R
  /\ \A m, n, o \in S : <<m, n>> \in R /\ <<n, o>> \in R => <<m, o>> \in R
  /\ \A m, n \in S : m = n \/ <<m, n>> \in R \/ <<n, m>> \in R

RankIn(R, S, m) == Cardinality({n \in S : <<n, m>> \in R})

LEMMA RankBounds ==
  ASSUME NEW S, IsFiniteSet(S), NEW R, StrictOrder(R, S)
  PROVE  /\ \A m \in S : RankIn(R, S, m) \in 0..(Cardinality(S) - 1)
         /\ \A m, n \in S : <<m, n>> \in R => RankIn(R, S, m) < RankIn(R, S, n)
<1> DEFINE Below(m) == {n \in S : <<n, m>> \in R}
<1>1. ASSUME NEW m \in S
      PROVE  /\ IsFiniteSet(Below(m)) /\ Cardinality(Below(m)) \in Nat
             /\ Cardinality(Below(m)) < Cardinality(S) /\ Cardinality(S) \in Nat
  <2>1. Below(m) \in SUBSET S /\ m \notin Below(m)
    BY DEF StrictOrder
  <2> HIDE DEF Below
  <2>2. /\ IsFiniteSet(Below(m)) /\ Cardinality(Below(m)) <= Cardinality(S)
        /\ Cardinality(Below(m)) # Cardinality(S)
    BY <2>1, FS_Subset
  <2>3. Cardinality(Below(m)) \in Nat /\ Cardinality(S) \in Nat
    BY <2>2, FS_CardinalityType
  <2> QED  BY <2>2, <2>3
<1>2. ASSUME NEW m \in S, NEW n \in S, <<m, n>> \in R
      PROVE  Cardinality(Below(m)) < Cardinality(Below(n))
  <2>1. Below(m) \in SUBSET Below(n) /\ m \in Below(n) /\ m \notin Below(m)
    BY <1>2 DEF StrictOrder
  <2>2. IsFiniteSet(Below(n)) /\ Cardinality(Below(m)) \in Nat /\ Cardinality(Below(n)) \in Nat
    BY <1>1
  <2> HIDE DEF Below
  <2>3. /\ Cardinality(Below(m)) <= Cardinality(Below(n))
        /\ Cardinality(Below(m)) # Cardinality(Below(n))
    BY <2>1, <2>2, FS_Subset
  <2> QED  BY <2>2, <2>3
<1>3. \A m \in S : RankIn(R, S, m) = Cardinality(Below(m))
  BY DEF RankIn
<1> HIDE DEF Below
<1> QED  BY <1>1, <1>2, <1>3

(* Every rank is taken.                                                    *)
LEMMA RankTaken ==
  ASSUME NEW S, IsFiniteSet(S), NEW R, StrictOrder(R, S)
  PROVE  \A k \in 0..(Cardinality(S) - 1) : \E m \in S : RankIn(R, S, m) = k
<1> DEFINE n == Cardinality(S)
           K == 0..(n - 1)
           f == [m \in S |-> RankIn(R, S, m)]
<1>1. n \in Nat
  BY FS_CardinalityType
<1>2. IsFiniteSet(K) /\ Cardinality(K) = n
  BY <1>1, FS_Interval
<1>3. f \in [S -> K]
  BY RankBounds
<1>4. \A a, b \in S : f[a] = f[b] => a = b
  <2> SUFFICES ASSUME NEW a \in S, NEW b \in S, a # b PROVE f[a] # f[b]
    OBVIOUS
  <2>1. <<a, b>> \in R \/ <<b, a>> \in R
    BY DEF StrictOrder
  <2>2. f[a] < f[b] \/ f[b] < f[a]
    BY <2>1, RankBounds
  <2>3. f[a] \in Int /\ f[b] \in Int
    BY <1>3
  <2> HIDE DEF f
  <2> QED  BY <2>2, <2>3
<1>5. f \in Injection(S, K)
  BY <1>3, <1>4 DEF Injection, IsInjective
<1>6. f \in Surjection(S, K)
  <2> HIDE DEF f, K
  <2>1. Cardinality(S) = Cardinality(K)
    BY <1>2
  <2> QED  BY <1>2, <1>5, <2>1, FS_Injection
<1>7. ASSUME NEW k \in K PROVE \E m \in S : f[m] = k
  BY <1>6 DEF Surjection
<1> QED  BY <1>7

-----------------------------------------------------------------------------
(* Matching.                                                               *)

\* Orders that differ in their place in the stream of commands.
BookOK(book) ==
  /\ IsFiniteSet(book)
  /\ \A m \in book : /\ m.side \in Sides
                     /\ m.price \in Int /\ m.qty \in Int /\ m.seq \in Int
  /\ \A m, n \in book : m.seq = n.seq => m = n

\* Price-time priority as a set of pairs.
AheadIn(S) == {mn \in S \X S : Ahead(mn[1], mn[2])}

LEMMA AheadStrict ==
  ASSUME NEW S, BookOK(S), NEW side \in Sides, \A m \in S : m.side = side
  PROVE  StrictOrder(AheadIn(S), S)
<1>1. \A m, n \in S : <<m, n>> \in AheadIn(S) <=> Ahead(m, n)
  BY DEF AheadIn
<1>2. \A m \in S : ~Ahead(m, m)
  BY DEF Ahead, Better, BookOK
<1>3. \A m, n, o \in S : Ahead(m, n) /\ Ahead(n, o) => Ahead(m, o)
  BY DEF Ahead, Better, BookOK
<1>4. \A m, n \in S : m = n \/ Ahead(m, n) \/ Ahead(n, m)
  BY DEF Ahead, Better, BookOK
<1> QED  BY <1>1, <1>2, <1>3, <1>4 DEF StrictOrder

(* The queue of one side of the book: all its orders, those ahead first.   *)
LEMMA QueueOrder ==
  ASSUME NEW S, BookOK(S), NEW side \in Sides, \A m \in S : m.side = side
  PROVE  /\ Cardinality(S) \in Nat /\ DOMAIN Queue(S) = 1..Cardinality(S)
         /\ \A i \in 1..Cardinality(S) :
              /\ Queue(S)[i] \in S
              /\ Cardinality({n \in S : Ahead(n, Queue(S)[i])}) = i - 1
         /\ \A m \in S : \E i \in 1..Cardinality(S) : Queue(S)[i] = m
         /\ \A i, j \in 1..Cardinality(S) : Queue(S)[i] = Queue(S)[j] => i = j
<1> DEFINE R == AheadIn(S)
           n == Cardinality(S)
           rank(m) == Cardinality({o \in S : Ahead(o, m)})
<1>1. StrictOrder(R, S) /\ IsFiniteSet(S) /\ n \in Nat
  BY AheadStrict, FS_CardinalityType DEF BookOK
<1>2. ASSUME NEW m \in S PROVE RankIn(R, S, m) = rank(m)
  <2>1. {o \in S : <<o, m>> \in R} = {o \in S : Ahead(o, m)}
    BY DEF AheadIn
  <2> QED  BY <2>1 DEF RankIn
<1>3. \A m \in S : rank(m) \in 0..(n - 1)
  BY <1>1, <1>2, RankBounds
<1>4. ASSUME NEW m \in S, NEW o \in S, rank(m) = rank(o) PROVE m = o
  <2>1. <<m, o>> \in R => rank(m) < rank(o)
    BY <1>1, <1>2, RankBounds
  <2>2. <<o, m>> \in R => rank(o) < rank(m)
    BY <1>1, <1>2, RankBounds
  <2>3. rank(m) \in Int /\ rank(o) \in Int
    BY <1>3
  <2> HIDE DEF R, rank
  <2> QED  BY <1>1, <1>4, <2>1, <2>2, <2>3 DEF StrictOrder
<1>5. \A k \in 0..(n - 1) : \E m \in S : rank(m) = k
  BY <1>1, <1>2, RankTaken
<1>6. Queue(S) = [i \in 1..n |-> CHOOSE m \in S : rank(m) = i - 1]
  BY DEF Queue
<1> HIDE DEF R, rank, n
<1>7. ASSUME NEW i \in 1..n PROVE Queue(S)[i] \in S /\ rank(Queue(S)[i]) = i - 1
  <2>1. i - 1 \in 0..(n - 1)
    BY <1>1
  <2>2. \E m \in S : rank(m) = i - 1
    BY <1>5, <2>1
  <2> QED  BY <1>6, <2>2
<1>8. ASSUME NEW m \in S PROVE \E i \in 1..n : Queue(S)[i] = m
  <2>1. rank(m) + 1 \in 1..n /\ (rank(m) + 1) - 1 = rank(m)
    BY <1>1, <1>3
  <2>2. Queue(S)[rank(m) + 1] = m
    BY <1>4, <1>7, <2>1
  <2> QED  BY <2>1, <2>2
<1>9. ASSUME NEW i \in 1..n, NEW j \in 1..n, Queue(S)[i] = Queue(S)[j] PROVE i = j
  <2>1. i - 1 = j - 1
    BY <1>7, <1>9
  <2> QED  BY <1>1, <2>1
<1> QED  BY <1>1, <1>6, <1>7, <1>8, <1>9 DEF n, rank

(* The makers are orders of the other side, with something to give.        *)
LEMMA MakersOf ==
  ASSUME NEW book, BookOK(book), NEW t, t.side \in Sides, t.qty \in Int
  PROVE  /\ \A m \in book : FillQty(book, t, m) \in Int
         /\ BookOK(Makers(book, t))
         /\ \A m \in Makers(book, t) : /\ m \in Crossing(book, t) /\ m \in book
                                       /\ m.side # t.side
                                       /\ FillQty(book, t, m) \in Nat \ {0}
<1>1. ASSUME NEW m \in book PROVE FillQty(book, t, m) \in Int
  <2> DEFINE S == {n \in Matchable(book, t) : Ahead(n, m)}
  <2>1. S \in SUBSET book /\ IsFiniteSet(S)
    <3>1. S \in SUBSET book
      BY DEF Matchable, Crossing
    <3> HIDE DEF S
    <3> QED  BY <3>1, FS_Subset DEF BookOK
  <2>2. QtyOf(S) \in Int
    <3> DEFINE f == [n \in S |-> n.qty]
    <3>1. \A n \in S : f[n] \in Int
      BY <2>1 DEF BookOK
    <3>2. QtyOf(S) = SumFunctionOnSet(f, S)
      BY DEF QtyOf, SumFunction
    <3> HIDE DEF f, S
    <3> QED  BY <2>1, <3>1, <3>2, SumInt
  <2> HIDE DEF S
  <2>3. m.qty \in Int
    BY DEF BookOK
  <2>4. t.qty - QtyOf(S) \in Int
    BY <2>2
  <2>5. FillQty(book, t, m) = LET wanted == t.qty - QtyOf(S)
                              IN  CASE m \notin Matchable(book, t) \/ wanted <= 0 -> 0
                                    [] m \in Matchable(book, t) /\ wanted > 0 ->
                                         IF wanted < m.qty THEN wanted ELSE m.qty
    BY DEF FillQty, S
  <2> QED  BY <2>3, <2>4, <2>5
<1>2. \A m \in Makers(book, t) : /\ m \in Crossing(book, t) /\ m \in book
                                 /\ m.side # t.side /\ FillQty(book, t, m) > 0
  BY DEF Makers, Matchable, Crossing
<1>3. BookOK(Makers(book, t))
  <2>1. Makers(book, t) \in SUBSET book
    BY <1>2
  <2> QED  BY <2>1, FS_Subset DEF BookOK
<1> QED  BY <1>1, <1>2, <1>3

(* No maker gives more than it has.                                        *)
LEMMA FillBounds ==
  ASSUME NEW book, BookOK(book), \A m \in book : m.qty \in Nat,
         NEW t, t.side \in Sides, t.qty \in Int, NEW m \in book
  PROVE  FillQty(book, t, m) \in 0..m.qty
<1> DEFINE S == {n \in Matchable(book, t) : Ahead(n, m)}
           wanted == t.qty - QtyOf(S)
           f == [n \in S |-> n.qty]
<1>1. QtyOf(S) \in Int
  <2>1. S \in SUBSET book
    BY DEF Matchable, Crossing
  <2>2. QtyOf(S) = SumFunctionOnSet(f, S) /\ \A n \in S : f[n] \in Int
    BY <2>1 DEF QtyOf, SumFunction, BookOK
  <2>3. IsFiniteSet(S)
    <3> HIDE DEF S
    <3> QED  BY <2>1, FS_Subset DEF BookOK
  <2> HIDE DEF S, f
  <2> QED  BY <2>2, <2>3, SumInt
<1>2. wanted \in Int
  <2> HIDE DEF S
  <2> QED  BY <1>1
<1>3. FillQty(book, t, m) =
        CASE m \notin Matchable(book, t) \/ wanted <= 0 -> 0
          [] m \in Matchable(book, t) /\ wanted > 0 -> IF wanted < m.qty THEN wanted ELSE m.qty
  BY DEF FillQty
<1> HIDE DEF wanted
<1>4. m.qty \in Nat
  OBVIOUS
<1> QED  BY <1>2, <1>3, <1>4

(* Every trade is one with a maker, for all the maker gives.               *)
LEMMA TradesOf ==
  ASSUME NEW book, BookOK(book), NEW t, t.side \in Sides, t.qty \in Int
  PROVE  /\ \E n \in Nat : DOMAIN Trades(book, t) = 1..n
         /\ \A i \in DOMAIN Trades(book, t) : \E m \in Makers(book, t) :
              Trades(book, t)[i] = TradeOf(t, m, FillQty(book, t, m))
<1> DEFINE S == Makers(book, t)
<1>1. PICK side \in Sides : side # t.side /\ \A m \in S : m.side = side
  <2>1. \A m \in S : m.side \in Sides /\ m.side # t.side
    BY MakersOf DEF BookOK
  <2>2. \E side \in Sides : side # t.side /\ \A s \in Sides : s # t.side => s = side
    BY DEF Sides
  <2> QED  BY <2>1, <2>2
<1>2. /\ Cardinality(S) \in Nat /\ DOMAIN Queue(S) = 1..Cardinality(S)
      /\ \A i \in 1..Cardinality(S) : Queue(S)[i] \in S
  <2>1. BookOK(S)
    BY MakersOf
  <2> HIDE DEF S
  <2> QED  BY <1>1, <2>1, QueueOrder
<1>3. Trades(book, t) = [i \in 1..Cardinality(S) |->
                           TradeOf(t, Queue(S)[i], FillQty(book, t, Queue(S)[i]))]
  BY <1>2 DEF Trades
<1> HIDE DEF S
<1> QED  BY <1>2, <1>3 DEF S

(* Matching gives a taker all it wants, or all there is to match with:     *)
(* what the makers fill adds up to the lesser of the two.                  *)
LEMMA FillsAddUp ==
  ASSUME NEW book, BookOK(book), \A m \in book : m.qty \in Nat,
         NEW t, t.side \in Sides, t.qty \in Nat
  PROVE  /\ Unfilled(book, t) \in 0..t.qty
         /\ QtyOf(Matchable(book, t)) \in Nat
         /\ Unfilled(book, t) = IF t.qty <= QtyOf(Matchable(book, t)) THEN 0
                                ELSE t.qty - QtyOf(Matchable(book, t))
<1> DEFINE M == Matchable(book, t)
           R == AheadIn(M)
           fill == [m \in M |-> FillQty(book, t, m)]
           qty == [m \in M |-> m.qty]
           Fill(P) == SumFunctionOnSet(fill, P)
           Qty(P) == SumFunctionOnSet(qty, P)
           Want(P) == IF t.qty <= Qty(P) THEN t.qty ELSE Qty(P)
           First(P) == \A m \in P, n \in M : Ahead(n, m) => n \in P
           Bad == {P \in SUBSET M : First(P) /\ Fill(P) # Want(P)}
<1>1. /\ M \in SUBSET book /\ IsFiniteSet(M) /\ BookOK(M)
      /\ \A m \in M : m.side # t.side /\ m.qty \in Nat
  <2>1. M \in SUBSET book /\ \A m \in M : m.side # t.side
    BY DEF Matchable, Crossing
  <2> HIDE DEF M
  <2>2. IsFiniteSet(M)
    BY <2>1, FS_Subset DEF BookOK
  <2> QED  BY <2>1, <2>2 DEF BookOK
<1>2. StrictOrder(R, M)
  <2>1. PICK side \in Sides : side # t.side /\ \A s \in Sides : s # t.side => s = side
    BY DEF Sides
  <2>2. \A m \in M : m.side = side
    BY <1>1, <2>1 DEF BookOK
  <2> HIDE DEF M
  <2> QED  BY <1>1, <2>2, AheadStrict
<1>3. \A m, n \in M : <<m, n>> \in R <=> Ahead(m, n)
  BY DEF AheadIn
<1>4. \A m \in M : fill[m] \in Int /\ qty[m] \in Nat /\ qty[m] = m.qty
  <2>1. \A m \in book : FillQty(book, t, m) \in Int
    BY MakersOf
  <2> HIDE DEF M
  <2> QED  BY <1>1, <2>1
<1>5. \A P \in SUBSET M : IsFiniteSet(P) /\ Fill(P) \in Int /\ Qty(P) \in Nat
  <2> HIDE DEF M, fill, qty
  <2> QED  BY <1>1, <1>4, FS_Subset, SumInt, SumNat
<1>6. \A S \in SUBSET M : QtyOf(S) = Qty(S)
  <2> SUFFICES ASSUME NEW S \in SUBSET M PROVE QtyOf(S) = Qty(S)
    OBVIOUS
  <2> DEFINE f == [m \in S |-> m.qty]
  <2>1. QtyOf(S) = SumFunctionOnSet(f, S)
    BY DEF QtyOf, SumFunction
  <2>2. \A m \in S : f[m] = qty[m]
    BY <1>4
  <2> HIDE DEF f, qty, M
  <2> QED  BY <1>5, <2>1, <2>2, SumSame
<1>7. ASSUME NEW m \in M
      PROVE  LET wanted == t.qty - Qty({n \in M : Ahead(n, m)})
             IN  fill[m] = IF wanted <= 0 THEN 0 ELSE IF wanted < qty[m] THEN wanted ELSE qty[m]
  <2> DEFINE S == {n \in M : Ahead(n, m)}
             wanted == t.qty - Qty(S)
  <2>1. QtyOf(S) = Qty(S)
    BY <1>6
  <2>2. wanted \in Int
    <3>1. Qty(S) \in Nat
      BY <1>5
    <3> HIDE DEF Qty, S
    <3> QED  BY <3>1
  <2>3. fill[m] = FillQty(book, t, m)
    OBVIOUS
  <2>4. FillQty(book, t, m) =
          CASE m \notin M \/ wanted <= 0 -> 0
            [] m \in M /\ wanted > 0 -> IF wanted < m.qty THEN wanted ELSE m.qty
    BY <2>1 DEF FillQty
  <2> HIDE DEF wanted, fill, M
  <2>5. fill[m] = IF wanted <= 0 THEN 0 ELSE IF wanted < qty[m] THEN wanted ELSE qty[m]
    BY <1>4, <2>2, <2>3, <2>4
  <2> QED  BY <2>5 DEF wanted
<1> HIDE DEF fill, qty, R, M
<1>8. ASSUME Bad # {} PROVE FALSE
  <2>1. PICK P \in Bad : \A U \in Bad : U \subseteq P => U = P
    <3>1. Bad \in SUBSET (SUBSET M)
      OBVIOUS
    <3> HIDE DEF Bad
    <3> QED  BY <1>1, <1>8, <3>1, MinimalSubset
  <2>2. P \in SUBSET M /\ First(P) /\ Fill(P) # Want(P) /\ IsFiniteSet(P)
    BY <1>5
  <2>3. P # {}
    <3>1. Fill({}) = 0 /\ Qty({}) = 0
      BY SumEmpty
    <3> HIDE DEF Fill, Qty
    <3> QED  BY <2>2, <3>1
  <2>4. PICK m \in P : \A n \in P : n # m => Ahead(n, m)
    <3>1. StrictOrder(R, P) /\ Cardinality(P) \in Nat /\ Cardinality(P) # 0
      BY <1>2, <2>2, <2>3, FS_EmptySet, FS_CardinalityType DEF StrictOrder
    <3>2. Cardinality(P) - 1 \in 0..(Cardinality(P) - 1)
      BY <3>1
    <3>3. PICK m \in P : RankIn(R, P, m) = Cardinality(P) - 1
      BY <2>2, <3>1, <3>2, RankTaken
    <3>4. \A n \in P : <<m, n>> \notin R
      <4> SUFFICES ASSUME NEW n \in P, <<m, n>> \in R PROVE FALSE
        OBVIOUS
      <4>1. RankIn(R, P, m) < RankIn(R, P, n) /\ RankIn(R, P, n) \in 0..(Cardinality(P) - 1)
        BY <2>2, <3>1, RankBounds
      <4> QED  BY <3>1, <3>3, <4>1
    <3>5. \A n \in P : n # m => <<n, m>> \in R
      BY <3>1, <3>4 DEF StrictOrder
    <3> QED  BY <1>3, <2>2, <3>5
  <2> DEFINE Q == P \ {m}
  <2>5. Q \in SUBSET M /\ First(Q) /\ Q \subseteq P /\ Q # P
    <3>1. ~Ahead(m, m) /\ \A n, o \in M : Ahead(n, o) => ~Ahead(o, n)
      BY <1>2, <1>3, <2>2 DEF StrictOrder
    <3>2. ASSUME NEW o \in Q, NEW n \in M, Ahead(n, o) PROVE n \in Q
      <4>1. Ahead(o, m) /\ o \in M /\ m \in M
        BY <2>2, <2>4
      <4>2. n # m
        BY <3>1, <3>2, <4>1
      <4> QED  BY <2>2, <3>2, <4>2
    <3> QED  BY <2>2, <3>2
  <2>6. Fill(Q) = Want(Q)
    <3> HIDE DEF Fill, Want, First
    <3> QED  BY <2>1, <2>5
  <2>7. Q = {n \in M : Ahead(n, m)}
    <3>1. ~Ahead(m, m)
      BY <1>2, <1>3, <2>2 DEF StrictOrder
    <3> QED  BY <2>2, <2>4, <3>1
  <2>8. Fill(P) = fill[m] + Fill(Q) /\ Qty(P) = qty[m] + Qty(Q)
    <3>1. \A x \in P : fill[x] \in Int /\ qty[x] \in Int
      BY <1>4, <2>2
    <3> QED  BY <2>2, <3>1, SumElement
  <2>9. LET wanted == t.qty - Qty(Q)
        IN  fill[m] = IF wanted <= 0 THEN 0 ELSE IF wanted < qty[m] THEN wanted ELSE qty[m]
    BY <1>7, <2>2, <2>7
  <2>10. fill[m] \in Int /\ qty[m] \in Nat /\ Qty(Q) \in Nat /\ Fill(Q) \in Int
    BY <1>4, <1>5, <2>2, <2>5
  <2>11. Fill(P) # (IF t.qty <= Qty(P) THEN t.qty ELSE Qty(P))
    BY <2>2
  <2>12. Fill(Q) = IF t.qty <= Qty(Q) THEN t.qty ELSE Qty(Q)
    BY <2>6
  <2> HIDE DEF Q, Fill, Qty
  <2> QED  BY <2>8, <2>9, <2>10, <2>11, <2>12
<1>9. Fill(M) = Want(M)
  <2>1. M \in SUBSET M /\ First(M)
    OBVIOUS
  <2>2. M \notin Bad
    BY <1>8
  <2> HIDE DEF Fill, Want, First
  <2> QED  BY <2>1, <2>2
<1>10. Unfilled(book, t) = t.qty - Fill(M)
  <2> DEFINE N == Makers(book, t)
             f == [m \in N |-> FillQty(book, t, m)]
  <2>1. N \in SUBSET M /\ \A m \in M : fill[m] = FillQty(book, t, m) /\ (m \notin N => fill[m] = 0)
    <3>1. \A m \in M : fill[m] = FillQty(book, t, m)
      BY DEF fill
    <3>2. \A m \in M : fill[m] >= 0
      <4> SUFFICES ASSUME NEW m \in M PROVE fill[m] >= 0
        OBVIOUS
      <4> DEFINE S == {n \in M : Ahead(n, m)}
                 wanted == t.qty - Qty(S)
      <4>1. wanted \in Int
        <5>1. Qty(S) \in Nat
          BY <1>5
        <5> HIDE DEF Qty, S
        <5> QED  BY <5>1
      <4>2. fill[m] = IF wanted <= 0 THEN 0 ELSE IF wanted < qty[m] THEN wanted ELSE qty[m]
        BY <1>7
      <4> HIDE DEF wanted
      <4> QED  BY <1>4, <4>1, <4>2
    <3>3. \A m \in M : m \in N <=> FillQty(book, t, m) > 0
      BY DEF Makers, M
    <3>4. N \in SUBSET M
      BY DEF Makers, M
    <3> QED  BY <1>4, <3>1, <3>2, <3>3, <3>4
  <2>2. Unfilled(book, t) = t.qty - SumFunctionOnSet(f, N)
    BY DEF Unfilled, SumFunction
  <2>3. SumFunctionOnSet(f, N) = Fill(N)
    <3>1. \A m \in N : f[m] = fill[m]
      BY <2>1
    <3>2. IsFiniteSet(N)
      BY <1>5, <2>1
    <3> HIDE DEF f, N
    <3> QED  BY <3>1, <3>2, SumSame
  <2> HIDE DEF N
  <2>4. Fill(N) = Fill(M)
    <3> HIDE DEF Fill
    <3> QED  BY <1>1, <1>4, <2>1, SumRest DEF Fill
  <2> QED  BY <2>2, <2>3, <2>4
<1>11. QtyOf(M) = Qty(M) /\ Qty(M) \in Nat
  BY <1>5, <1>6
<1>12. Fill(M) = IF t.qty <= Qty(M) THEN t.qty ELSE Qty(M)
  BY <1>9
<1> HIDE DEF Fill, Qty
<1>13. Unfilled(book, t) \in 0..t.qty
  BY <1>10, <1>11, <1>12
<1> QED  BY <1>10, <1>11, <1>12, <1>13 DEF M

(* The states a create reports are states of orders that have rows.        *)
LEMMA ReportedStates ==
  ASSUME NEW book, BookOK(book), NEW t, t.side \in Sides, t.qty \in Nat \ {0}, t.orig = t.qty,
         \A m \in book : m.qty \in Nat
  PROVE  /\ TakerState(book, t).orderId = t.id
         /\ TakerState(book, t).status \in Statuses /\ TakerState(book, t).remaining \in Nat
         /\ IsFiniteSet(MakerStates(book, t))
         /\ \A s \in MakerStates(book, t) : /\ \E m \in book : s.orderId = m.id
                                            /\ s.status \in Statuses /\ s.remaining \in Nat
<1> DEFINE left == Unfilled(book, t)
<1>1. left \in 0..t.qty
  BY FillsAddUp
<1>2. left = 0 \/ left > 0
  BY <1>1
<1>3. left < t.orig \/ left = t.orig
  BY <1>1
<1>4. Discarded(t, left) \in Statuses
  BY DEF Discarded, Statuses, Terminal
<1>5. "filled" \in Statuses /\ "partial" \in Statuses /\ "open" \in Statuses
  BY DEF Statuses, Terminal
<1> DEFINE status == CASE left = 0                        -> "filled"
                       [] left > 0 /\ ~Rests(book, t)     -> Discarded(t, left)
                       [] Rests(book, t) /\ left < t.orig -> "partial"
                       [] Rests(book, t) /\ left = t.orig -> "open"
<1>6. status \in Statuses
  <2> HIDE DEF left
  <2> QED  BY <1>2, <1>3, <1>4, <1>5, Zenon
<1>7. TakerState(book, t) = [orderId |-> t.id, status |-> status, remaining |-> left]
  BY Zenon DEF TakerState, OrderState
<1> HIDE DEF status, left
<1>8. /\ TakerState(book, t).orderId = t.id
      /\ TakerState(book, t).status \in Statuses /\ TakerState(book, t).remaining \in Nat
  BY <1>1, <1>6, <1>7
<1> DEFINE M == Makers(book, t)
           rest(m) == m.qty - FillQty(book, t, m)
           state == [m \in M |-> OrderState(m.id, IF rest(m) = 0 THEN "filled" ELSE "partial",
                                            rest(m))]
<1>9. MakerStates(book, t) = {state[m] : m \in M}
  BY DEF MakerStates
<1>10. \A m \in M : m \in book /\ rest(m) \in Nat
  <2> SUFFICES ASSUME NEW m \in M PROVE m \in book /\ rest(m) \in Nat
    OBVIOUS
  <2>1. m \in book /\ FillQty(book, t, m) \in Nat \ {0} /\ m.qty \in Nat
    BY MakersOf
  <2>2. FillQty(book, t, m) <= m.qty
    BY <2>1, FillBounds
  <2> QED  BY <2>1, <2>2
<1>11. IsFiniteSet(M)
  BY MakersOf DEF BookOK
<1>12. IsFiniteSet(MakerStates(book, t))
  <2> HIDE DEF M, state
  <2> QED  BY <1>9, <1>11, ImageFinite
<1>13. ASSUME NEW s \in MakerStates(book, t)
       PROVE  (\E m \in book : s.orderId = m.id) /\ s.status \in Statuses /\ s.remaining \in Nat
  <2>1. PICK m \in M : s = OrderState(m.id, IF rest(m) = 0 THEN "filled" ELSE "partial", rest(m))
    BY <1>9
  <2> HIDE DEF M, rest
  <2> QED  BY <1>5, <1>10, <2>1 DEF OrderState
<1> QED  BY <1>8, <1>12, <1>13
-----------------------------------------------------------------------------
(* The loop of submit, maker by maker.                                     *)

LEMMA QtyFacts ==
  ASSUME NEW S, IsFiniteSet(S), \A m \in S : m.qty \in Nat
  PROVE  /\ QtyOf(S) \in Nat
         /\ \A P \in SUBSET S : QtyOf(P) \in Nat /\ QtyOf(P) <= QtyOf(S)
         /\ \A m \in S : QtyOf(S) = QtyOf(S \ {m}) + m.qty
<1> DEFINE qty == [m \in S |-> m.qty]
           Qty(P) == SumFunctionOnSet(qty, P)
<1>1. \A m \in S : qty[m] = m.qty /\ qty[m] \in Nat /\ qty[m] \in Int
  OBVIOUS
<1> HIDE DEF qty
<1>2. ASSUME NEW P \in SUBSET S PROVE QtyOf(P) = Qty(P)
  <2> DEFINE f == [m \in P |-> m.qty]
  <2>1. QtyOf(P) = SumFunctionOnSet(f, P) /\ IsFiniteSet(P)
    BY FS_Subset DEF QtyOf, SumFunction
  <2>2. \A m \in P : f[m] = qty[m]
    BY <1>1
  <2> HIDE DEF f
  <2> QED  BY <2>1, <2>2, SumSame
<1>3. \A P \in SUBSET S : Qty(P) \in Nat /\ Qty(P) <= Qty(S)
  <2>1. \A P \in SUBSET S : IsFiniteSet(P) /\ \A x \in P : qty[x] \in Nat
    BY <1>1, FS_Subset
  <2> QED  BY <1>1, <2>1, SumNat, SumSubset
<1>4. ASSUME NEW m \in S PROVE Qty(S) = Qty(S \ {m}) + m.qty
  <2>1. Qty(S) = qty[m] + Qty(S \ {m})
    BY <1>1, SumElement
  <2>2. Qty(S \ {m}) \in Nat
    BY <1>3
  <2> HIDE DEF Qty
  <2> QED  BY <1>1, <2>1, <2>2
<1> HIDE DEF Qty
<1>5. S \in SUBSET S /\ \A m \in S : S \ {m} \in SUBSET S
  OBVIOUS
<1> QED  BY <1>2, <1>3, <1>4, <1>5

(* An order behind all others of a queue is its last.                      *)
LEMMA QueueAppend ==
  ASSUME NEW S, BookOK(S), NEW side \in Sides, \A m \in S : m.side = side,
         NEW m \in S, \A n \in S \ {m} : Ahead(n, m)
  PROVE  LET c == Cardinality(S \ {m})
         IN  /\ c \in Nat /\ Cardinality(S) = c + 1
             /\ \A i \in 1..c : Queue(S)[i] = Queue(S \ {m})[i]
             /\ Queue(S)[c + 1] = m
<1> DEFINE D == S \ {m}
           c == Cardinality(D)
           rank(P, o) == Cardinality({n \in P : Ahead(n, o)})
<1>1. BookOK(D) /\ (\A n \in D : n.side = side) /\ c \in Nat /\ Cardinality(S) = c + 1
  <2>1. IsFiniteSet(S)
    BY DEF BookOK
  <2>2. IsFiniteSet(D) /\ Cardinality(D) = Cardinality(S) - 1
    BY <2>1, FS_RemoveElement
  <2>3. Cardinality(S) \in Nat /\ c \in Nat
    BY <2>1, <2>2, FS_CardinalityType
  <2>4. BookOK(D)
    BY <2>2 DEF BookOK
  <2> HIDE DEF D
  <2> QED  BY <2>2, <2>3, <2>4 DEF D
<1>2. ASSUME NEW n \in S PROVE ~Ahead(n, n) /\ \A o \in S : Ahead(n, o) => ~Ahead(o, n)
  BY DEF Ahead, Better, BookOK
<1>3. ASSUME NEW o \in D PROVE rank(S, o) = rank(D, o)
  <2>1. {n \in S : Ahead(n, o)} = {n \in D : Ahead(n, o)}
    BY <1>2
  <2> QED  BY <2>1
<1>4. rank(S, m) = c
  <2>1. {n \in S : Ahead(n, m)} = D
    BY <1>2
  <2> QED  BY <2>1
<1>5. /\ DOMAIN Queue(D) = 1..c
      /\ \A i \in 1..c : Queue(D)[i] \in D /\ rank(D, Queue(D)[i]) = i - 1
  BY <1>1, QueueOrder
<1>6. /\ DOMAIN Queue(S) = 1..(c + 1)
      /\ \A i \in 1..(c + 1) : Queue(S)[i] \in S /\ rank(S, Queue(S)[i]) = i - 1
      /\ \A n \in S : \E i \in 1..(c + 1) : Queue(S)[i] = n
  BY <1>1, QueueOrder
<1> HIDE DEF D, c, rank
<1>7. ASSUME NEW n \in S, NEW i \in 1..(c + 1), rank(S, n) = i - 1
      PROVE  Queue(S)[i] = n
  <2>1. PICK j \in 1..(c + 1) : Queue(S)[j] = n
    BY <1>6
  <2>2. rank(S, n) = j - 1
    BY <1>6, <2>1
  <2>3. i = j
    BY <1>1, <1>7, <2>2
  <2> QED  BY <2>1, <2>3
<1>8. \A i \in 1..c : Queue(S)[i] = Queue(D)[i]
  <2> SUFFICES ASSUME NEW i \in 1..c PROVE Queue(S)[i] = Queue(D)[i]
    OBVIOUS
  <2>1. Queue(D)[i] \in D /\ rank(D, Queue(D)[i]) = i - 1 /\ i \in 1..(c + 1)
    BY <1>1, <1>5
  <2>2. rank(S, Queue(D)[i]) = i - 1 /\ Queue(D)[i] \in S
    BY <1>3, <2>1 DEF D
  <2> QED  BY <1>7, <2>1, <2>2
<1>9. Queue(S)[c + 1] = m
  <2>1. c + 1 \in 1..(c + 1) /\ (c + 1) - 1 = c
    BY <1>1
  <2> QED  BY <1>4, <1>7, <2>1
<1> QED  BY <1>1, <1>8, <1>9 DEF D, c

\* What a taker can meet: orders with something to give, and it wants something.
Meeting(book, t) ==
  /\ BookOK(book) /\ \A m \in book : m.qty \in Nat \ {0}
  /\ t.side \in Sides /\ t.qty \in Nat \ {0}

\* Makers the loop has met: the first of those the taker can match with.
Met(book, t, D) ==
  /\ D \in SUBSET Matchable(book, t)
  /\ \A m \in D, n \in Matchable(book, t) : Ahead(n, m) => n \in D

LEMMA MatchableFacts ==
  ASSUME NEW book, NEW t, Meeting(book, t)
  PROVE  LET M == Matchable(book, t)
         IN  /\ M \in SUBSET book /\ BookOK(M) /\ IsFiniteSet(M)
             /\ \A m \in M : m.qty \in Nat \ {0}
             /\ \E side \in Sides : side # t.side /\ \A m \in M : m.side = side
             /\ \A m \in M : ~Ahead(m, m)
             /\ \A m, n \in M : m = n \/ Ahead(m, n) \/ Ahead(n, m)
             /\ \A m, n \in M : Ahead(m, n) => ~Ahead(n, m)
<1> DEFINE M == Matchable(book, t)
<1>1. M \in SUBSET book /\ \A m \in M : m.side # t.side
  BY DEF Matchable, Crossing
<1> HIDE DEF M
<1>2. PICK side \in Sides : side # t.side /\ \A s \in Sides : s # t.side => s = side
  BY DEF Meeting, Sides
<1>3. \A m \in M : m.side = side /\ m.qty \in Nat \ {0}
  BY <1>1, <1>2 DEF Meeting, BookOK
<1>4. IsFiniteSet(M)
  BY <1>1, FS_Subset DEF Meeting, BookOK
<1>5. BookOK(M)
  BY <1>1, <1>4 DEF Meeting, BookOK
<1>6. StrictOrder(AheadIn(M), M)
  BY <1>3, <1>5, AheadStrict
<1>7. \A m, n \in M : <<m, n>> \in AheadIn(M) <=> Ahead(m, n)
  BY DEF AheadIn
<1>8. /\ \A m \in M : ~Ahead(m, m)
      /\ \A m, n \in M : m = n \/ Ahead(m, n) \/ Ahead(n, m)
      /\ \A m, n \in M : Ahead(m, n) => ~Ahead(n, m)
  BY <1>6, <1>7 DEF StrictOrder
<1> QED  BY <1>1, <1>2, <1>3, <1>4, <1>5, <1>8 DEF M

(* What an order gives is what it has, as far as those ahead leave a wish. *)
LEMMA FillOf ==
  ASSUME NEW book, NEW t, Meeting(book, t), NEW m \in book
  PROVE  LET M == Matchable(book, t)
             before == {n \in M : Ahead(n, m)}
         IN  /\ QtyOf(before) \in Nat
             /\ m \notin M => FillQty(book, t, m) = 0
             /\ m \in M /\ QtyOf(before) >= t.qty => FillQty(book, t, m) = 0
             /\ m \in M /\ QtyOf(before) + m.qty <= t.qty => FillQty(book, t, m) = m.qty
             /\ m \in M /\ QtyOf(before) < t.qty /\ QtyOf(before) + m.qty > t.qty
                => FillQty(book, t, m) = t.qty - QtyOf(before)
<1> DEFINE M == Matchable(book, t)
           before == {n \in M : Ahead(n, m)}
           wanted == t.qty - QtyOf(before)
<1>1. QtyOf(before) \in Nat
  <2>1. before \in SUBSET M /\ IsFiniteSet(M) /\ \A n \in M : n.qty \in Nat
    BY MatchableFacts
  <2> HIDE DEF before, M
  <2> QED  BY <2>1, QtyFacts
<1>2. FillQty(book, t, m) =
        CASE m \notin M \/ wanted <= 0 -> 0
          [] m \in M /\ wanted > 0 -> IF wanted < m.qty THEN wanted ELSE m.qty
  BY DEF FillQty
<1>3. t.qty \in Nat /\ m.qty \in Nat \ {0}
  BY DEF Meeting
<1> HIDE DEF M, before
<1>4. m \notin M => FillQty(book, t, m) = 0
  BY <1>2
<1>5. ASSUME m \in M
      PROVE  FillQty(book, t, m) = IF wanted <= 0 THEN 0
                                   ELSE IF wanted < m.qty THEN wanted ELSE m.qty
  <2>1. wanted \in Int
    BY <1>1, <1>3
  <2> HIDE DEF wanted
  <2> QED  BY <1>2, <1>3, <1>5, <2>1
<1> QED  BY <1>1, <1>3, <1>4, <1>5 DEF M, before

(* As long as the taker wants more, makers met have given all they had.    *)
LEMMA MetInFull ==
  ASSUME NEW book, NEW t, Meeting(book, t), NEW D, Met(book, t, D), QtyOf(D) <= t.qty,
         NEW m \in D
  PROVE  FillQty(book, t, m) = m.qty
<1> DEFINE M == Matchable(book, t)
           before == {n \in M : Ahead(n, m)}
<1>1. /\ M \in SUBSET book /\ IsFiniteSet(M) /\ (\A n \in M : n.qty \in Nat \ {0})
      /\ D \in SUBSET M /\ m \in M /\ ~Ahead(m, m)
  BY MatchableFacts DEF Met
<1>2. before \in SUBSET (D \ {m})
  BY <1>1 DEF Met
<1>3. IsFiniteSet(D) /\ IsFiniteSet(D \ {m}) /\ \A n \in D : n.qty \in Nat
  <2> HIDE DEF M
  <2> QED  BY <1>1, FS_Subset
<1>4. QtyOf(D) = QtyOf(D \ {m}) + m.qty /\ QtyOf(D) \in Nat
  BY <1>3, QtyFacts
<1>5. QtyOf(before) <= QtyOf(D \ {m}) /\ QtyOf(D \ {m}) \in Nat /\ QtyOf(before) \in Nat
  <2> HIDE DEF before
  <2> QED  BY <1>2, <1>3, QtyFacts
<1>6. QtyOf(before) + m.qty <= t.qty
  <2>1. m.qty \in Nat /\ t.qty \in Nat
    BY <1>3 DEF Meeting
  <2> HIDE DEF before
  <2> QED  BY <1>4, <1>5, <2>1
<1>7. m \in book
  BY <1>1
<1> QED  BY <1>1, <1>6, <1>7, FillOf

\* Once those of D are met, the next one is asked for what they have left wanting.
GivesNext(book, t, D, m) ==
  LET wanted == t.qty - QtyOf(D)
  IN  /\ QtyOf(D) \in Nat /\ QtyOf(D \cup {m}) = QtyOf(D) + m.qty
      /\ FillQty(book, t, m) = IF m.qty < wanted THEN m.qty ELSE wanted

LEMMA NextMet ==
  ASSUME NEW book, NEW t, Meeting(book, t), NEW D, Met(book, t, D), QtyOf(D) < t.qty,
         NEW m \in Matchable(book, t), m \notin D,
         \A n \in Matchable(book, t) \ D : n = m \/ Ahead(m, n)
  PROVE  /\ Met(book, t, D \cup {m})
         /\ \A n \in D : Ahead(n, m)
         /\ GivesNext(book, t, D, m)
<1> DEFINE M == Matchable(book, t)
           before == {n \in M : Ahead(n, m)}
           E == D \cup {m}
<1>1. /\ M \in SUBSET book /\ IsFiniteSet(M) /\ (\A n \in M : n.qty \in Nat \ {0})
      /\ D \in SUBSET M /\ m \in M /\ m \notin D /\ ~Ahead(m, m)
      /\ \A n, o \in M : n = o \/ Ahead(n, o) \/ Ahead(o, n)
      /\ \A n, o \in M : Ahead(n, o) => ~Ahead(o, n)
  BY MatchableFacts DEF Met
<1>2. \A n \in D : Ahead(n, m)
  BY <1>1 DEF Met
<1>3. before = D
  BY <1>1, <1>2
<1>4. Met(book, t, E)
  BY <1>1, <1>3 DEF Met
<1>5. IsFiniteSet(E) /\ (\A n \in E : n.qty \in Nat) /\ m \in E /\ E \ {m} = D
  <2>1. E \in SUBSET M
    BY <1>1
  <2>2. m \in E /\ E \ {m} = D
    BY <1>1
  <2> HIDE DEF M, E
  <2> QED  BY <1>1, <2>1, <2>2, FS_Subset
<1>6. QtyOf(E) = QtyOf(D) + m.qty /\ QtyOf(D) \in Nat
  <2>1. D \in SUBSET E
    OBVIOUS
  <2> HIDE DEF E
  <2> QED  BY <1>5, <2>1, QtyFacts
<1>7. t.qty \in Nat /\ m.qty \in Nat \ {0} /\ m \in book
  BY <1>1 DEF Meeting
<1>8. FillQty(book, t, m) = IF m.qty < t.qty - QtyOf(D) THEN m.qty ELSE t.qty - QtyOf(D)
  <2>1. /\ QtyOf(D) + m.qty <= t.qty => FillQty(book, t, m) = m.qty
        /\ QtyOf(D) + m.qty > t.qty => FillQty(book, t, m) = t.qty - QtyOf(D)
    BY <1>1, <1>3, <1>7, FillOf
  <2> QED  BY <1>6, <1>7, <2>1
<1> HIDE DEF E
<1>9. GivesNext(book, t, D, m)
  BY <1>6, <1>8 DEF GivesNext, E
<1> QED  BY <1>2, <1>4, <1>9 DEF E

(* Once those met have enough, nobody else gives anything.                 *)
LEMMA EnoughMet ==
  ASSUME NEW book, NEW t, Meeting(book, t), NEW D, Met(book, t, D), QtyOf(D) >= t.qty,
         NEW m \in book, m \notin D
  PROVE  FillQty(book, t, m) = 0
<1> DEFINE M == Matchable(book, t)
           before == {n \in M : Ahead(n, m)}
<1>1. CASE m \notin M
  BY <1>1, FillOf
<1>2. CASE m \in M
  <2>1. /\ IsFiniteSet(M) /\ (\A n \in M : n.qty \in Nat) /\ D \in SUBSET M
        /\ \A n, o \in M : n = o \/ Ahead(n, o) \/ Ahead(o, n)
    BY MatchableFacts DEF Met
  <2>2. D \in SUBSET before /\ before \in SUBSET M
    BY <1>2, <2>1 DEF Met
  <2>3. IsFiniteSet(before) /\ \A n \in before : n.qty \in Nat
    <3> HIDE DEF M, before
    <3> QED  BY <2>1, <2>2, FS_Subset
  <2>4. QtyOf(D) \in Nat /\ QtyOf(D) <= QtyOf(before) /\ QtyOf(before) \in Nat
    <3> HIDE DEF before
    <3> QED  BY <2>2, <2>3, QtyFacts
  <2>5. QtyOf(before) >= t.qty
    <3>1. t.qty \in Nat
      BY DEF Meeting
    <3> HIDE DEF before
    <3> QED  BY <2>4, <3>1
  <2> QED  BY <1>2, <2>5, FillOf
<1> QED  BY <1>1, <1>2

(* A create gives its order to the book exactly if some of it may rest.    *)
LEMMA TakerRests ==
  ASSUME NEW b, BookOK(b), \A m \in b : m.qty \in Nat,
         NEW t, t.side \in Sides, t.qty \in Nat \ {0}, t.orig = t.qty
  PROVE  TakerState(b, t).status \in {"open", "partial"} <=> Rests(b, t)
<1> DEFINE left == Unfilled(b, t)
           status == CASE left = 0                        -> "filled"
                       [] left > 0 /\ ~Rests(b, t)     -> Discarded(t, left)
                       [] Rests(b, t) /\ left < t.orig -> "partial"
                       [] Rests(b, t) /\ left = t.orig -> "open"
<1>1. left \in 0..t.qty
  BY FillsAddUp
<1>2. TakerState(b, t).status = status
  BY Zenon DEF TakerState, OrderState
<1>3. Rests(b, t) => left > 0
  BY DEF Rests
<1>4. Discarded(t, left) \in {"cancelled", "rejected"}
  BY DEF Discarded
<1> HIDE DEF left
<1>5. /\ left = 0 => status = "filled"
      /\ left > 0 /\ ~Rests(b, t) => status = Discarded(t, left)
      /\ Rests(b, t) => status \in {"open", "partial"}
  <2>1. CASE left = 0
    <3>1. ~(left > 0) /\ ~Rests(b, t)
      BY <1>3, <2>1
    <3>2. status = "filled"
      BY <2>1, <3>1, Zenon
    <3> QED  BY <3>1, <3>2
  <2>2. CASE left > 0 /\ ~Rests(b, t)
    <3>1. left # 0
      BY <2>2
    <3>2. status = Discarded(t, left)
      BY <2>2, <3>1, Zenon
    <3> QED  BY <2>2, <3>1, <3>2
  <2>3. CASE Rests(b, t)
    <3>1. left # 0 /\ (left < t.orig \/ left = t.orig) /\ left > 0
      BY <1>1, <1>3, <2>3
    <3>2. left < t.orig => left # t.orig
      BY <1>1
    <3>3. status \in {"open", "partial"}
      BY <2>3, <3>1, <3>2, Zenon
    <3> QED  BY <2>3, <3>1, <3>3
  <2> QED  BY <1>1, <2>1, <2>2, <2>3
<1> HIDE DEF status
<1> QED  BY <1>1, <1>2, <1>4, <1>5

-----------------------------------------------------------------------------
(* Settlement.                                                             *)

Account ==
  [balance : Nat, locked : Int, pool : Nat, position : Position \cup {None},
   fees : Nat, insurance : Int]

\* All the money an account and the two system accounts hold.
Money(a) == a.balance + a.locked + a.fees + a.insurance

\* What is locked and neither reserved by the order nor margin of the position.
Unbacked(a) == a.locked - a.pool - MarginOf(a.position)

\* From account a to b: profit is paid in, delta is added to the exposure, and
\* nothing to the order's reserve.
Moved(a, b, profit, delta) ==
  /\ b \in Account
  /\ b.pool <= a.pool
  /\ Money(b) = Money(a) + profit
  /\ Unbacked(b) = Unbacked(a)
  /\ Exposure(b.position) = Exposure(a.position) + delta

-----------------------------------------------------------------------------
(* Arithmetic.                                                             *)

LEMMA RoundInt ==
  ASSUME NEW n \in Int, NEW d \in Nat \ {0}
  PROVE  Round(n, d) \in Int
BY DEF Round

LEMMA RoundNat ==
  ASSUME NEW n \in Nat, NEW d \in Nat \ {0}
  PROVE  Round(n, d) \in Nat
BY DEF Round

(* Rounding a share of m gives no more than m, and no less than nothing.   *)
LEMMA RoundShare ==
  ASSUME NEW m \in Nat, NEW k \in Nat, NEW d \in Nat \ {0}, k <= d
  PROVE  Round(m * k, d) \in 0..m
<1>1. m * k >= 0 /\ m * k <= m * d
  OBVIOUS
<1>2. ASSUME NEW x \in Nat, x <= m * d PROVE Round(x, d) \in 0..m
  <2>1. 2 * x + d >= 0 /\ 2 * x + d < (m + 1) * (2 * d)
    BY <1>2
  <2> QED  BY <2>1 DEF Round
<1> QED  BY <1>1, <1>2

(* A set of numbers no greater than d has a greatest one.                  *)
LEMMA GreatestUpTo ==
  ASSUME NEW d \in Nat, NEW S \in SUBSET (1..d), S # {}
  PROVE  Max(S) \in S
<1> DEFINE T == {d - x : x \in S}
<1>2. T \in SUBSET Nat /\ T # {}
  <2>1. \A x \in S : d - x \in Nat
    OBVIOUS
  <2>2. PICK x \in S : TRUE
    OBVIOUS
  <2>3. d - x \in T
    BY <2>2
  <2> QED  BY <2>1, <2>3
<1>3. PICK t \in T : \A u \in T : t <= u
  <2> HIDE DEF T
  <2> QED  BY <1>2, LeastNat
<1>4. PICK x \in S : t = d - x
  OBVIOUS
<1>5. \A y \in S : x >= y
  <2> SUFFICES ASSUME NEW y \in S, ~(x >= y) PROVE FALSE
    OBVIOUS
  <2>1. d - y \in T /\ d - y < t
    BY <1>4
  <2> QED  BY <1>3, <2>1
<1>6. \E z \in S : \A y \in S : z >= y
  BY <1>5
<1> QED  BY <1>6 DEF Max

(* A fraction in lowest terms is a fraction.                               *)
LEMMA LowestTermsType ==
  ASSUME NEW n \in Nat, NEW d \in Nat \ {0}
  PROVE  LowestTerms(n, d) \in [num : Nat, den : Nat \ {0}]
<1> DEFINE S == {k \in 1..d : n % k = 0 /\ d % k = 0}
           g == Max(S)
<1>1. 1 \in S
  OBVIOUS
<1>2. g \in S
  <2>1. S \in SUBSET (1..d) /\ S # {}
    BY <1>1
  <2> HIDE DEF S
  <2> QED  BY <2>1, GreatestUpTo
<1> HIDE DEF g
<1>3. g \in 1..d
  BY <1>2
<1>4. n \div g \in Nat /\ d \div g \in Nat \ {0}
  BY <1>3
<1> QED  BY <1>4 DEF LowestTerms, g

-----------------------------------------------------------------------------
(* The three parts of settleSide.                                          *)

LEMMA ReducedMoved ==
  ASSUME NEW a \in Account, a.position # None,
         NEW p \in Nat, NEW k \in 1..a.position.qty, NEW liquidation \in BOOLEAN
  PROVE  /\ Realized(a.position, p, k) \in Int
         /\ Moved(a, Reduced(a, p, k, liquidation), Realized(a.position, p, k),
                  -(Sign(a.position.side) * k))
         /\ Reduced(a, p, k, liquidation).pool = a.pool
         /\ k = a.position.qty => Reduced(a, p, k, liquidation).position = None
<1> DEFINE pos == a.position
           b == Reduced(a, p, k, liquidation)
           realized == Realized(pos, p, k)
           released == Released(pos, k)
<1>1. pos \in Position
  BY DEF Account
<1>2. released \in 0..pos.margin /\ (k = pos.qty => released = pos.margin)
  <2>1. pos.margin \in Nat /\ pos.qty \in Nat \ {0} /\ k \in Nat /\ k <= pos.qty
    BY <1>1 DEF Position
  <2> QED  BY <2>1, RoundShare DEF Released
<1>3. realized \in Int
  <2>1. /\ Sign(pos.side) \in Int
        /\ pos.entry.den \in Nat \ {0} /\ pos.entry.num \in Nat
    BY <1>1 DEF Position, Sign
  <2>2. Sign(pos.side) * (p * pos.entry.den - pos.entry.num) * k \in Int
    BY <2>1
  <2> QED  BY <2>1, <2>2, RoundInt DEF Realized
<1> DEFINE credit == released + realized
           balance == IF liquidation THEN a.balance ELSE a.balance + credit
           left == IF k = pos.qty THEN None
                   ELSE [pos EXCEPT !.qty = @ - k, !.margin = @ - released]
           paid == IF liquidation THEN credit ELSE balance - Positive(balance)
<1>4. b = [a EXCEPT !.locked = @ - released, !.balance = Positive(balance),
                    !.insurance = @ + paid, !.position = left]
  BY DEF Reduced
<1> HIDE DEF realized, released
<1>5. /\ left \in Position \cup {None}
      /\ MarginOf(left) = pos.margin - released
      /\ Exposure(left) = Exposure(pos) - Sign(pos.side) * k
  <2>1. CASE k = pos.qty
    <3>1. left = None /\ pos.margin - released = 0
      BY <1>1, <1>2, <2>1 DEF Position
    <3>2. Exposure(pos) = Sign(pos.side) * k
      BY <2>1 DEF Exposure
    <3> QED  BY <1>1, <3>1, <3>2 DEF MarginOf, Exposure, Position, Sign
  <2>2. CASE k # pos.qty
    <3>1. /\ left = [pos EXCEPT !.qty = @ - k, !.margin = @ - released]
          /\ left \in Position
      <4>1. left = [pos EXCEPT !.qty = @ - k, !.margin = @ - released]
        BY <2>2
      <4>2. pos.qty - k \in Nat \ {0} /\ pos.margin - released \in Nat
        BY <1>1, <1>2, <2>2 DEF Position
      <4> HIDE DEF left
      <4> QED  BY <1>1, <4>1, <4>2 DEF Position
    <3>2. left # None /\ left.side = pos.side /\ left.qty = pos.qty - k
          /\ left.margin = pos.margin - released
      BY <1>1, <3>1, SettlementAssumption DEF Position
    <3> QED  BY <1>1, <3>1, <3>2 DEF MarginOf, Exposure, Position, Sign
  <2> QED  BY <2>1, <2>2
<1>6. /\ a.balance \in Nat /\ a.locked \in Int /\ a.pool \in Nat /\ a.fees \in Nat
      /\ a.insurance \in Int
  BY DEF Account
<1>7. balance \in Int /\ Positive(balance) \in Nat /\ paid \in Int
      /\ Positive(balance) - released + paid = a.balance + realized
  BY <1>1, <1>2, <1>3, <1>6 DEF Positive, Position
<1> HIDE DEF left, paid, balance
<1>8. /\ b.locked = a.locked - released /\ b.balance = Positive(balance)
      /\ b.insurance = a.insurance + paid /\ b.position = left
      /\ b.pool = a.pool /\ b.fees = a.fees
  BY <1>4 DEF Account
<1>9. b \in Account
  <2>1. a.locked - released \in Int /\ a.insurance + paid \in Int
    BY <1>1, <1>2, <1>6, <1>7 DEF Position
  <2> HIDE DEF b
  <2> QED  BY <1>4, <1>5, <1>6, <1>7, <2>1 DEF Account
<1>10. Money(b) = Money(a) + realized
  <2>1. released \in Int /\ realized \in Int /\ Positive(balance) \in Int
    BY <1>1, <1>2, <1>3, <1>7 DEF Position
  <2>2. /\ a.locked \in Int /\ a.fees \in Int /\ a.insurance \in Int /\ a.balance \in Int
        /\ paid \in Int /\ Positive(balance) - released + paid = a.balance + realized
    BY <1>6, <1>7
  <2> HIDE DEF b
  <2> QED  BY <1>8, <2>1, <2>2 DEF Money
<1>11. Unbacked(b) = Unbacked(a)
  <2>1. MarginOf(pos) = pos.margin
    BY DEF MarginOf
  <2> QED  BY <1>1, <1>2, <1>5, <1>6, <1>8, <2>1 DEF Unbacked, Position
<1>12. Exposure(b.position) = Exposure(pos) + -(Sign(pos.side) * k)
  BY <1>1, <1>5, <1>8 DEF Exposure, Sign, Position
<1>13. b.pool <= a.pool
  BY <1>6, <1>8
<1> QED  BY <1>3, <1>8, <1>9, <1>10, <1>11, <1>12, <1>13 DEF Moved, realized, left

LEMMA FeeNat ==
  ASSUME NEW p \in Nat, NEW q \in Nat
  PROVE  Fee(p, q) \in Nat
<1>1. p * q * FeeNum \in Nat
  BY SettlementAssumption
<1> QED  BY <1>1, RoundNat, SettlementAssumption DEF Fee

LEMMA ChargedMoved ==
  ASSUME NEW a \in Account, NEW p \in Nat, NEW q \in Nat, NEW liquidation \in BOOLEAN
  PROVE  /\ Moved(a, Charged(a, p, q, liquidation), 0, 0)
         /\ Charged(a, p, q, liquidation).position = a.position
<1> DEFINE b == Charged(a, p, q, liquidation)
           due == IF liquidation THEN 0 ELSE Fee(p, q)
           fromPool == Lower(a.pool, due)
           fromBalance == Lower(Positive(a.balance), due - fromPool)
<1>1. /\ a.balance \in Nat /\ a.locked \in Int /\ a.pool \in Nat /\ a.fees \in Nat
      /\ a.insurance \in Int /\ a.position \in Position \cup {None}
  BY DEF Account
<1>2. due \in Nat
  BY FeeNat
<1> HIDE DEF due
<1>3. fromPool \in 0..a.pool /\ fromPool \in 0..due
  BY <1>1, <1>2 DEF Lower
<1> HIDE DEF fromPool
<1>4. fromBalance \in 0..a.balance
  BY <1>1, <1>2, <1>3 DEF Lower, Positive
<1>5. b = [a EXCEPT !.pool = @ - fromPool, !.locked = @ - fromPool,
                    !.balance = @ - fromBalance, !.fees = @ + fromPool + fromBalance]
  BY DEF Charged, due, fromPool
<1> HIDE DEF fromBalance, b
<1>6. /\ b.pool = a.pool - fromPool /\ b.locked = a.locked - fromPool
      /\ b.balance = a.balance - fromBalance /\ b.fees = a.fees + fromPool + fromBalance
      /\ b.position = a.position /\ b.insurance = a.insurance
  BY <1>5 DEF Account
<1>7. /\ a.pool - fromPool \in Nat /\ a.locked - fromPool \in Int
      /\ a.balance - fromBalance \in Nat /\ a.fees + fromPool + fromBalance \in Nat
  BY <1>1, <1>3, <1>4
<1>8. b \in Account
  BY <1>5, <1>7 DEF Account
<1>9. Money(b) = Money(a)
  BY <1>1, <1>3, <1>4, <1>6 DEF Money
<1>10. MarginOf(a.position) \in Int /\ Exposure(a.position) \in Int
  BY <1>1 DEF MarginOf, Exposure, Position, Sign
<1>11. Unbacked(b) = Unbacked(a)
  BY <1>1, <1>3, <1>6, <1>10 DEF Unbacked
<1>12. Money(a) \in Int
  BY <1>1 DEF Money
<1>13. b.pool <= a.pool
  BY <1>1, <1>3, <1>6
<1> QED  BY <1>6, <1>8, <1>9, <1>10, <1>11, <1>12, <1>13 DEF Moved, b

LEMMA OpenedMoved ==
  ASSUME NEW a \in Account, NEW p \in Nat, NEW k \in Nat \ {0},
         NEW lev \in Nat \ {0}, NEW dir \in {1, -1},
         a.position # None => Sign(a.position.side) = dir
  PROVE  Moved(a, Opened(a, p, k, lev, dir), 0, dir * k)
<1> DEFINE b == Opened(a, p, k, lev, dir)
           pos == a.position
           required == Round(p * k, lev)
           fromPool == Lower(a.pool, required)
           fromBalance == Lower(Positive(a.balance), required - fromPool)
           margin == fromPool + fromBalance
           fresh == [side |-> IF dir = 1 THEN "long" ELSE "short", qty |-> k,
                     entry |-> [num |-> p, den |-> 1], margin |-> margin, lev |-> lev]
           average == LowestTerms(pos.entry.num * pos.qty + p * k * pos.entry.den,
                                  pos.entry.den * (pos.qty + k))
           grown == [pos EXCEPT !.qty = @ + k, !.margin = @ + margin, !.entry = average]
           left == IF pos = None THEN fresh ELSE grown
<1>1. /\ a.balance \in Nat /\ a.locked \in Int /\ a.pool \in Nat /\ a.fees \in Nat
      /\ a.insurance \in Int /\ pos \in Position \cup {None}
  BY DEF Account
<1>2. required \in Nat
  <2>1. p * k \in Nat
    OBVIOUS
  <2> QED  BY <2>1, RoundNat
<1> HIDE DEF required
<1>3. fromPool \in 0..a.pool /\ fromPool \in 0..required
  BY <1>1, <1>2 DEF Lower
<1> HIDE DEF fromPool
<1>4. fromBalance \in 0..a.balance
  BY <1>1, <1>2, <1>3 DEF Lower, Positive
<1>5. b = [a EXCEPT !.pool = @ - fromPool, !.balance = @ - fromBalance,
                    !.locked = @ + fromBalance, !.position = left]
  BY DEF Opened, required, fromPool
<1> HIDE DEF fromBalance
<1>6. margin \in Nat
  BY <1>3, <1>4
<1> HIDE DEF margin
<1>7. /\ left \in Position
      /\ left.margin = MarginOf(pos) + margin
      /\ Sign(left.side) * left.qty = Exposure(pos) + dir * k
  <2>1. CASE pos = None
    <3>1. fresh \in Position
      BY <1>6 DEF Position
    <3> QED  BY <1>6, <2>1, <3>1 DEF MarginOf, Exposure, Sign
  <2>2. CASE pos # None
    <3>1. /\ pos \in Position /\ pos.qty \in Nat \ {0} /\ pos.margin \in Nat
          /\ pos.entry.num \in Nat /\ pos.entry.den \in Nat \ {0}
          /\ pos.side \in {"long", "short"}
      BY <1>1, <2>2 DEF Position
    <3>2. /\ pos.entry.num * pos.qty + p * k * pos.entry.den \in Nat
          /\ pos.entry.den * (pos.qty + k) \in Nat \ {0}
      BY <3>1
    <3>3. average \in [num : Nat, den : Nat \ {0}]
      BY <3>2, LowestTermsType
    <3>4. pos.qty + k \in Nat \ {0} /\ pos.margin + margin \in Nat
      BY <1>6, <3>1
    <3> HIDE DEF average
    <3>5. grown \in Position
      BY <3>1, <3>3, <3>4 DEF Position
    <3>6. /\ grown.margin = pos.margin + margin /\ grown.qty = pos.qty + k
          /\ grown.side = pos.side
      BY <3>1 DEF Position
    <3>7. Sign(pos.side) * (pos.qty + k) = Sign(pos.side) * pos.qty + dir * k
      BY <2>2, <3>1 DEF Sign
    <3> QED  BY <2>2, <3>5, <3>6, <3>7 DEF MarginOf, Exposure
  <2> QED  BY <2>1, <2>2
<1> HIDE DEF left, b
<1>8. /\ b.pool = a.pool - fromPool /\ b.locked = a.locked + fromBalance
      /\ b.balance = a.balance - fromBalance /\ b.fees = a.fees
      /\ b.position = left /\ b.insurance = a.insurance
  BY <1>5 DEF Account
<1>9. /\ a.pool - fromPool \in Nat /\ a.locked + fromBalance \in Int
      /\ a.balance - fromBalance \in Nat
  BY <1>1, <1>3, <1>4
<1>10. b \in Account
  BY <1>5, <1>7, <1>9 DEF Account
<1>11. MarginOf(left) = left.margin /\ Exposure(left) = Sign(left.side) * left.qty
  BY <1>7, SettlementAssumption DEF MarginOf, Exposure
<1>12. MarginOf(pos) \in Int
  BY <1>1 DEF MarginOf, Position
<1>13. Money(b) = Money(a) /\ Money(a) \in Int
  BY <1>1, <1>3, <1>4, <1>8 DEF Money
<1>14. Unbacked(b) = Unbacked(a)
  BY <1>1, <1>3, <1>4, <1>7, <1>8, <1>11, <1>12 DEF Unbacked, margin
<1>15. b.pool <= a.pool
  BY <1>1, <1>3, <1>8
<1> QED  BY <1>7, <1>8, <1>10, <1>11, <1>13, <1>14, <1>15 DEF Moved, b

-----------------------------------------------------------------------------

\* The profit settleSide realizes.
Profit(pos, p, q, dir) ==
  LET k == ReduceQty(pos, q, dir) IN IF k > 0 THEN Realized(pos, p, k) ELSE 0

(* Settling one side of a trade: the money of user, fee account and        *)
(* insurance fund grows by the realized profit alone, what is locked stays *)
(* backed by reserve and margin, no balance, reserve or margin goes below  *)
(* zero, and the position moves by exactly the quantity traded, through    *)
(* zero if need be (settleSide, also for liquidations).                    *)
THEOREM SettleSideMovesMoney ==
  ASSUME NEW a \in Account, NEW p \in Nat, NEW q \in Nat \ {0},
         NEW lev \in Nat \ {0}, NEW liquidation \in BOOLEAN, NEW dir \in {1, -1}
  PROVE  Moved(a, SettleSide(a, p, q, lev, liquidation, dir),
               Profit(a.position, p, q, dir), dir * q)
<1> DEFINE pos == a.position
           k == ReduceQty(pos, q, dir)
           reduced == IF k > 0 THEN Reduced(a, p, k, liquidation) ELSE a
           charged == Charged(reduced, p, q, liquidation)
           profit == Profit(pos, p, q, dir)
<1>1. pos \in Position \cup {None}
  BY DEF Account
<1>2. /\ k \in 0..q
      /\ k > 0 => pos # None /\ k \in 1..pos.qty /\ Sign(pos.side) = -dir
      /\ k < q => pos = None \/ k = pos.qty \/ (k = 0 /\ Sign(pos.side) = dir)
  BY <1>1 DEF ReduceQty, Position, Lower, Sign
<1> HIDE DEF k
<1>3. profit = IF k > 0 THEN Realized(pos, p, k) ELSE 0
  BY DEF Profit, k
<1> HIDE DEF profit
<1>4. /\ profit \in Int
      /\ Moved(a, reduced, profit, dir * k)
      /\ k < q => reduced.position = None \/ Sign(reduced.position.side) = dir
  <2>1. CASE k > 0
    <3>1. pos # None /\ k \in 1..pos.qty
      BY <1>2, <2>1
    <3>2. /\ Realized(pos, p, k) \in Int
          /\ Moved(a, Reduced(a, p, k, liquidation), Realized(pos, p, k),
                   -(Sign(pos.side) * k))
          /\ k = pos.qty => Reduced(a, p, k, liquidation).position = None
      BY <3>1, ReducedMoved
    <3>3. -(Sign(pos.side) * k) = dir * k
      BY <1>2, <2>1
    <3> QED  BY <1>2, <1>3, <2>1, <3>1, <3>2, <3>3
  <2>2. CASE ~(k > 0)
    <3>1. k = 0 /\ profit = 0 /\ reduced = a
      BY <1>2, <1>3, <2>2
    <3>2. Money(a) \in Int /\ Exposure(pos) \in Int
      BY <1>1 DEF Account, Money, Exposure, Position, Sign
    <3>3. Moved(a, a, 0, dir * 0)
      BY <3>2 DEF Moved, Account
    <3>4. 0 < q => pos = None \/ Sign(pos.side) = dir
      BY <1>1, <1>2, <3>1 DEF Position
    <3> QED  BY <3>1, <3>3, <3>4
  <2> QED  BY <2>1, <2>2
<1> HIDE DEF reduced
<1>5. reduced \in Account
  BY <1>4 DEF Moved
<1>6. Moved(reduced, charged, 0, 0) /\ charged.position = reduced.position
  BY <1>5, ChargedMoved
<1> HIDE DEF charged
<1>7. charged \in Account /\ Moved(a, charged, profit, dir * k)
  <2>1. Money(a) \in Int /\ Exposure(pos) \in Int
    BY <1>1 DEF Account, Money, Exposure, Position, Sign
  <2>2. a.pool \in Nat /\ reduced.pool \in Nat /\ charged.pool \in Nat
    BY <1>4, <1>6 DEF Account, Moved
  <2> QED  BY <1>2, <1>4, <1>6, <2>1, <2>2 DEF Moved
<1>8. CASE q > k
  <2>1. q - k \in Nat \ {0}
    BY <1>2, <1>8
  <2>2. charged.position # None => Sign(charged.position.side) = dir
    BY <1>2, <1>4, <1>6, <1>8
  <2>3. Moved(charged, Opened(charged, p, q - k, lev, dir), 0, dir * (q - k))
    BY <1>7, <2>1, <2>2, OpenedMoved
  <2>4. dir * k + dir * (q - k) = dir * q
    BY <1>2
  <2>5. Money(a) \in Int /\ Exposure(pos) \in Int
    BY <1>1 DEF Account, Money, Exposure, Position, Sign
  <2>6. Moved(a, Opened(charged, p, q - k, lev, dir), profit, dir * q)
    <3>1. /\ a.pool \in Nat /\ charged.pool \in Nat
          /\ Opened(charged, p, q - k, lev, dir).pool \in Nat
      BY <1>7, <2>3 DEF Account, Moved
    <3> DEFINE c == Opened(charged, p, q - k, lev, dir)
    <3>2. /\ c \in Account /\ c.pool <= charged.pool /\ charged.pool <= a.pool
          /\ Money(c) = Money(charged) + 0 /\ Money(charged) = Money(a) + profit
          /\ Unbacked(c) = Unbacked(charged) /\ Unbacked(charged) = Unbacked(a)
          /\ Exposure(c.position) = Exposure(charged.position) + dir * (q - k)
          /\ Exposure(charged.position) = Exposure(pos) + dir * k
      BY <1>7, <2>3 DEF Moved
    <3> HIDE DEF c
    <3>3. /\ dir * k \in Int /\ dir * (q - k) \in Int /\ dir * q \in Int
          /\ Money(a) + profit \in Int
      BY <1>2, <1>4, <2>5
    <3>4. Exposure(c.position) = Exposure(pos) + dir * q /\ Money(c) = Money(a) + profit
      BY <2>4, <2>5, <3>2, <3>3
    <3>5. c.pool <= a.pool
      BY <3>1, <3>2 DEF c
    <3>6. Moved(a, c, profit, dir * q)
      BY <3>2, <3>4, <3>5 DEF Moved
    <3> QED  BY <3>6 DEF c
  <2> QED  BY <1>8, <2>6 DEF SettleSide, k, reduced, charged, profit
<1>9. CASE ~(q > k)
  <2>1. k = q
    BY <1>2, <1>9
  <2> QED  BY <1>7, <1>9, <2>1 DEF SettleSide, k, reduced, charged, profit
<1> QED  BY <1>8, <1>9

(* Ending an order gives its reserve back and moves no other money.        *)
THEOREM RefundMovesMoney ==
  ASSUME NEW a \in Account
  PROVE  Moved(a, Refunded(a), 0, 0) /\ Refunded(a).pool = 0
<1>1. /\ a.balance \in Nat /\ a.locked \in Int /\ a.pool \in Nat /\ a.fees \in Nat
      /\ a.insurance \in Int /\ a.position \in Position \cup {None}
  BY DEF Account
<1>2. MarginOf(a.position) \in Int /\ Exposure(a.position) \in Int
  BY <1>1 DEF MarginOf, Exposure, Position, Sign
<1>3. Refunded(a) \in Account
  <2>1. a.balance + a.pool \in Nat /\ a.locked - a.pool \in Int /\ 0 \in Nat
    BY <1>1
  <2> QED  BY <2>1 DEF Refunded, Account
<1>4. /\ Refunded(a).balance = a.balance + a.pool /\ Refunded(a).locked = a.locked - a.pool
      /\ Refunded(a).pool = 0 /\ Refunded(a).fees = a.fees
      /\ Refunded(a).insurance = a.insurance /\ Refunded(a).position = a.position
  BY DEF Refunded, Account
<1> QED  BY <1>1, <1>2, <1>3, <1>4 DEF Moved, Money, Unbacked

-----------------------------------------------------------------------------
(* What a position cost, exactly: a fraction, of which money is rounded.   *)

Within(x, b) == -b <= x /\ x <= b

\* What a position cost is a fraction.
Num(pos) == IF pos = None THEN 0 ELSE Sign(pos.side) * pos.qty * pos.entry.num

Den(pos) == IF pos = None THEN 1 ELSE pos.entry.den

LEMMA FractionTypes ==
  ASSUME NEW pos \in Position \cup {None}
  PROVE  Num(pos) \in Int /\ Den(pos) \in Nat \ {0}
<1>1. CASE pos = None
  BY <1>1 DEF Num, Den
<1>2. CASE pos # None
  <2>1. /\ Sign(pos.side) \in Int /\ pos.qty \in Int /\ pos.entry.num \in Int
        /\ pos.entry.den \in Nat \ {0}
    BY <1>2 DEF Position, Sign
  <2>2. Sign(pos.side) * pos.qty * pos.entry.num \in Int
    BY <2>1
  <2> QED  BY <1>2, <2>1, <2>2 DEF Num, Den
<1> QED  BY <1>1, <1>2

(* Rounding moves a value by no more than half a unit.                     *)
LEMMA RoundNear ==
  ASSUME NEW n \in Int, NEW d \in Nat \ {0}
  PROVE  Within(2 * (d * Round(n, d) - n), d)
<1> DEFINE r == Round(n, d)
           e == 2 * d
<1>1. e \in Nat \ {0} /\ r = (2 * n + d) \div e /\ 2 * n + d \in Int
  BY DEF Round
<1> HIDE DEF r, e
<1>2. r \in Int /\ e * r <= 2 * n + d /\ 2 * n + d < e * r + e
  BY <1>1
<1>3. e * r = 2 * (d * r) /\ d * r \in Int /\ e = 2 * d
  BY <1>1, <1>2 DEF e
<1> DEFINE x == d * r
<1>4. x \in Int /\ 2 * x <= 2 * n + d /\ 2 * n + d < 2 * x + 2 * d
  BY <1>2, <1>3
<1> HIDE DEF x
<1>5. Within(2 * (x - n), d)
  BY <1>4 DEF Within
<1> QED  BY <1>5 DEF x, r

LEMMA TimesMonotonic ==
  ASSUME NEW c \in Nat \ {0}, NEW x \in Int, NEW y \in Int
  PROVE  c * x <= c * y <=> x <= y
<1>1. c * (y - x) >= 0 <=> y - x >= 0
  BY SMT
<1>2. c * (y - x) = c * y - c * x
  BY SMT
<1> QED  BY <1>1, <1>2

LEMMA Rescaled ==
  ASSUME NEW d \in Nat \ {0}, NEW k \in Nat \ {0}, NEW x \in Int, NEW y \in Int,
         d * y = k * x, Within(x, d)
  PROVE  Within(y, k)
<1>1. -d <= x /\ x <= d /\ -d \in Int /\ -k \in Int
  BY DEF Within
<1>2. k * (-d) <= k * x /\ k * x <= k * d
  BY <1>1, TimesMonotonic
<1>3. k * (-d) = d * (-k) /\ k * d = d * k
  OBVIOUS
<1>4. d * (-k) <= d * y /\ d * y <= d * k
  BY <1>2, <1>3
<1>5. -k <= y /\ y <= k
  BY <1>1, <1>4, TimesMonotonic
<1> QED  BY <1>5 DEF Within

(* A unit of D makes cost and both fractions whole: n over d before, m over *)
(* e after, where z over d is what is realized and c what is paid.  The    *)
(* rounding of z is all that money and cost differ by.                     *)
LEMMA RoundingError ==
  ASSUME NEW D \in Nat \ {0}, NEW d \in Nat \ {0}, NEW e \in Nat \ {0},
         NEW n \in Int, NEW m \in Int, NEW z \in Int, NEW c \in Int, NEW cost \in Int,
         cost * d = D * n, m * d = e * (n + d * c + z)
  PROVE  Within(2 * (D * e * Round(z, d) - (D * m - e * cost - D * e * c)), D * e)
<1> DEFINE r == Round(z, d)
           w == D * m - e * cost - D * e * c
<1>1. r \in Int /\ Within(2 * (d * r - z), d)
  BY RoundInt, RoundNear
<1> HIDE DEF r
<1>2. d * w = D * e * z
  <2>1. d * w = D * (m * d) - e * (cost * d) - D * e * d * c
    OBVIOUS
  <2>2. D * (m * d) = D * (e * (n + d * c + z)) /\ e * (cost * d) = e * (D * n)
    OBVIOUS
  <2>3. D * (e * (n + d * c + z)) = D * e * n + D * e * d * c + D * e * z
    OBVIOUS
  <2>4. e * (D * n) = D * e * n
    OBVIOUS
  <2> HIDE DEF w
  <2> DEFINE x == D * e * n
             y == D * e * d * c
             v == D * e * z
  <2>5. x \in Int /\ y \in Int /\ v \in Int /\ d * w = (x + y + v) - x - y
    BY <2>1, <2>2, <2>3, <2>4
  <2> HIDE DEF x, y, v
  <2>6. d * w = v
    BY <2>5
  <2> QED  BY <2>6 DEF v
<1>3. w \in Int /\ D * e \in Nat \ {0}
  OBVIOUS
<1> DEFINE k == D * e
           x == 2 * (d * r - z)
           y == 2 * (k * r - w)
<1> HIDE DEF w
<1>4. d * y = k * x
  <2>1. d * y = 2 * (k * (d * r)) - 2 * (d * w)
    BY <1>1, <1>3
  <2>2. k * x = 2 * (k * (d * r)) - 2 * (k * z)
    BY <1>1, <1>3
  <2>3. d * w = k * z
    BY <1>2
  <2> QED  BY <2>1, <2>2, <2>3
<1>5. x \in Int /\ y \in Int /\ k \in Nat \ {0}
  BY <1>1, <1>3
<1>6. Within(x, d)
  BY <1>1
<1> HIDE DEF x, y, k
<1>7. Within(y, k)
  BY <1>4, <1>5, <1>6, Rescaled
<1> QED  BY <1>7 DEF y, k, r, w

\* From one position to the next: c was paid, and z parts of the old entry realized.
Exact(pos, next, c, z) ==
  Num(next) * Den(pos) = Den(next) * (Num(pos) + Den(pos) * c + z)

\* What realizing k units at price p is, in parts of the entry, before it is rounded.
Parts(pos, p, k) == Sign(pos.side) * (p * pos.entry.den - pos.entry.num) * k

LEMMA ReducedExact ==
  ASSUME NEW a \in Account, a.position # None,
         NEW p \in Nat, NEW k \in 1..a.position.qty, NEW liquidation \in BOOLEAN
  PROVE  /\ Parts(a.position, p, k) \in Int
         /\ Realized(a.position, p, k) = Round(Parts(a.position, p, k), Den(a.position))
         /\ Exact(a.position, Reduced(a, p, k, liquidation).position,
                  -(Sign(a.position.side) * (k * p)), Parts(a.position, p, k))
<1> DEFINE pos == a.position
           next == Reduced(a, p, k, liquidation).position
           s == Sign(pos.side)
           n == pos.entry.num
           d == pos.entry.den
           m == pos.qty
           g == Released(pos, k)
           rest == [pos EXCEPT !.qty = @ - k, !.margin = @ - g]
<1>1. pos \in Position /\ pos # None
  BY DEF Account
<1>2. s \in Int /\ n \in Int /\ d \in Nat \ {0} /\ m \in Int /\ k \in Int
  BY <1>1 DEF Position, Sign
<1>3. Num(pos) = s * m * n /\ Den(pos) = d /\ Parts(pos, p, k) = s * (p * d - n) * k
  BY <1>1 DEF Num, Den, Parts
<1>4. next = IF k = m THEN None ELSE rest
  BY DEF Reduced, Account
<1>5. k # m => /\ rest # None /\ Num(rest) = s * (m - k) * n /\ Den(rest) = d
  <2> SUFFICES ASSUME k # m
               PROVE  rest # None /\ Num(rest) = s * (m - k) * n /\ Den(rest) = d
    OBVIOUS
  <2>1. rest # None
    <3>1. g \in 0..pos.margin
      <4>1. pos.margin \in Nat /\ m \in Nat \ {0} /\ k \in Nat /\ k <= m
        BY <1>1 DEF Position
      <4>2. Round(pos.margin * k, m) \in 0..pos.margin
        BY <4>1, RoundShare
      <4> QED  BY <4>1, <4>2 DEF Released
    <3>2. rest \in Position
      <4> HIDE DEF g
      <4>1. pos.margin \in Nat /\ pos.margin - g \in Nat
        BY <1>1, <3>1 DEF Position
      <4>2. m - k \in Nat \ {0}
        BY <1>1 DEF Position
      <4> QED  BY <1>1, <4>1, <4>2 DEF Position
    <3> QED  BY <3>2, SettlementAssumption
  <2>2. rest.side = pos.side /\ rest.qty = m - k /\ rest.entry = pos.entry
    BY <1>1 DEF Position
  <2> HIDE DEF rest
  <2> QED  BY <2>1, <2>2 DEF Num, Den
<1> HIDE DEF s, n, d, m, g, rest, next
<1>6. Parts(pos, p, k) \in Int
  BY <1>2, <1>3
<1>7. Realized(pos, p, k) = Round(Parts(pos, p, k), Den(pos))
  BY <1>3 DEF Realized, Parts, d
<1>8. Exact(pos, next, -(s * (k * p)), Parts(pos, p, k))
  <2>1. s * m * n + d * (-(s * (k * p))) + s * (p * d - n) * k = s * (m - k) * n
    <3>1. d * (-(s * (k * p))) = -(s * p * d * k)
      BY <1>2
    <3>2. s * (p * d - n) * k = s * p * d * k - s * n * k
      BY <1>2
    <3>3. s * (m - k) * n = s * m * n - s * n * k
      BY <1>2
    <3> DEFINE x == s * p * d * k
               y == s * n * k
               z == s * m * n
    <3>4. x \in Int /\ y \in Int /\ z \in Int
      BY <1>2
    <3> HIDE DEF x, y, z
    <3>5. z + -x + (x - y) = z - y
      BY <3>4
    <3> QED  BY <3>1, <3>2, <3>3, <3>5 DEF x, y, z
  <2>2. CASE k = m
    <3>1. next = None /\ Num(next) = 0 /\ Den(next) = 1
      BY <1>4, <2>2 DEF Num, Den
    <3>2. s * (m - k) * n = 0
      BY <1>2, <2>2
    <3> QED  BY <1>2, <1>3, <2>1, <3>1, <3>2 DEF Exact
  <2>3. CASE k # m
    <3>1. Num(next) = s * (m - k) * n /\ Den(next) = d
      BY <1>4, <1>5, <2>3
    <3>2. Num(pos) + Den(pos) * (-(s * (k * p))) + Parts(pos, p, k) = Num(next)
      BY <1>3, <2>1, <3>1
    <3>3. Num(next) * d = d * Num(next)
      BY <1>2, <3>1
    <3> QED  BY <1>3, <3>1, <3>2, <3>3 DEF Exact
  <2> QED  BY <2>2, <2>3
<1> QED  BY <1>6, <1>7, <1>8 DEF next, s

(* Lowest terms are the same fraction.                                     *)
LEMMA LowestTermsSame ==
  ASSUME NEW n \in Nat, NEW d \in Nat \ {0}
  PROVE  LowestTerms(n, d).num * d = n * LowestTerms(n, d).den
<1> DEFINE S == {k \in 1..d : n % k = 0 /\ d % k = 0}
           g == Max(S)
<1>1. g \in S
  <2>1. 1 \in S
    OBVIOUS
  <2>2. S \in SUBSET (1..d) /\ S # {}
    BY <2>1
  <2> HIDE DEF S
  <2> QED  BY <2>2, GreatestUpTo
<1>2. LowestTerms(n, d) = [num |-> n \div g, den |-> d \div g]
  BY DEF LowestTerms
<1>3. g \in 1..d /\ n % g = 0 /\ d % g = 0
  BY <1>1
<1> HIDE DEF g
<1>4. ASSUME NEW m \in Nat, m % g = 0 PROVE m \div g \in Nat /\ m = g * (m \div g)
  BY <1>3, <1>4
<1>5. PICK x, y : x = n \div g /\ y = d \div g
  OBVIOUS
<1>6. x \in Nat /\ y \in Nat /\ n = g * x /\ d = g * y
  BY <1>3, <1>4, <1>5
<1>7. x * (g * y) = (g * x) * y
  BY <1>3, <1>6
<1>8. LowestTerms(n, d).num = x /\ LowestTerms(n, d).den = y
  BY <1>2, <1>5
<1> QED  BY <1>6, <1>7, <1>8

LEMMA OpenedExact ==
  ASSUME NEW a \in Account, NEW p \in Nat, NEW k \in Nat \ {0},
         NEW lev \in Nat \ {0}, NEW dir \in {1, -1},
         a.position # None => Sign(a.position.side) = dir
  PROVE  Exact(a.position, Opened(a, p, k, lev, dir).position, dir * (k * p), 0)
<1> DEFINE pos == a.position
           next == Opened(a, p, k, lev, dir).position
           n == pos.entry.num
           d == pos.entry.den
           m == pos.qty
           average == LowestTerms(n * m + p * k * d, d * (m + k))
<1>1. pos \in Position \cup {None}
  BY DEF Account
<1>2. next \in Position \cup {None} /\ Exposure(next) = Exposure(pos) + dir * k
  <2> DEFINE b == Opened(a, p, k, lev, dir)
  <2>1. Moved(a, b, 0, dir * k)
    BY OpenedMoved
  <2> HIDE DEF b
  <2>2. b \in Account /\ Exposure(b.position) = Exposure(a.position) + dir * k
    BY <2>1 DEF Moved
  <2> QED  BY <2>2 DEF b, Account
<1>3. next # None
  <2>1. CASE pos = None
    <3>1. Exposure(pos) = 0 /\ dir * k # 0
      BY <2>1 DEF Exposure
    <3>2. Exposure(None) = 0 /\ 0 + dir * k = dir * k
      BY DEF Exposure
    <3> QED  BY <1>2, <3>1, <3>2
  <2>2. CASE pos # None
    <3>1. Exposure(pos) = dir * m /\ m \in Nat \ {0}
      BY <1>1, <2>2 DEF Exposure, Position
    <3>2. dir * m + dir * k # 0
      BY <3>1
    <3>3. Exposure(None) = 0
      BY DEF Exposure
    <3> QED  BY <1>2, <3>1, <3>2, <3>3
  <2> QED  BY <2>1, <2>2
<1>4. CASE pos = None
  <2>1. /\ next.qty = k /\ next.entry = [num |-> p, den |-> 1]
        /\ next.side = IF dir = 1 THEN "long" ELSE "short"
    BY <1>4 DEF Opened, Account
  <2>2. Sign(next.side) = dir
    BY <2>1 DEF Sign
  <2>3. Num(next) = dir * k * p /\ Den(next) = 1
    BY <1>3, <2>1, <2>2 DEF Num, Den
  <2>4. Num(pos) = 0 /\ Den(pos) = 1
    BY <1>4 DEF Num, Den
  <2>5. dir * k * p * 1 = 1 * (0 + 1 * (dir * (k * p)) + 0)
    OBVIOUS
  <2> QED  BY <2>3, <2>4, <2>5 DEF Exact
<1>5. CASE pos # None
  <2>1. /\ n \in Nat /\ d \in Nat \ {0} /\ m \in Nat \ {0} /\ pos \in Position
        /\ Sign(pos.side) = dir
    BY <1>1, <1>5 DEF Position
  <2>2. next.qty = m + k /\ next.side = pos.side /\ next.entry = average
    BY <1>5, <2>1 DEF Opened, Account, Position
  <2> HIDE DEF n, d, m, next
  <2>3. n * m + p * k * d \in Nat /\ d * (m + k) \in Nat \ {0}
    BY <2>1
  <2>4. /\ average.num * (d * (m + k)) = (n * m + p * k * d) * average.den
        /\ average.num \in Nat /\ average.den \in Nat
    BY <2>3, LowestTermsSame, LowestTermsType
  <2> DEFINE x == average.num
             y == average.den
  <2>5. Num(next) = dir * (m + k) * x /\ Den(next) = y
    BY <1>3, <2>1, <2>2 DEF Num, Den
  <2>6. Num(pos) = dir * m * n /\ Den(pos) = d
    BY <1>5, <2>1 DEF Num, Den, n, d, m
  <2>7. x * (d * (m + k)) = (n * m + p * k * d) * y /\ x \in Nat /\ y \in Nat
    BY <2>4
  <2> HIDE DEF x, y, average
  <2>8. dir * (m + k) * x * d = y * (dir * m * n + d * (dir * (k * p)) + 0)
    <3>1. dir * (m + k) * x * d = dir * (x * (d * (m + k)))
      BY <2>1, <2>7
    <3>2. y * (dir * m * n + d * (dir * (k * p)) + 0) = dir * ((n * m + p * k * d) * y)
      BY <2>1, <2>7
    <3> QED  BY <2>7, <3>1, <3>2
  <2> HIDE DEF pos
  <2>9. Num(next) * Den(pos) = dir * (m + k) * x * d
    BY <2>5, <2>6, Zenon
  <2>10. Den(next) * (Num(pos) + Den(pos) * (dir * (k * p)) + 0)
           = y * (dir * m * n + d * (dir * (k * p)) + 0)
    BY <2>5, <2>6, Zenon
  <2>11. Exact(pos, next, dir * (k * p), 0)
    BY <2>8, <2>9, <2>10, Zenon DEF Exact
  <2> QED  BY <2>11 DEF pos, next
<1> QED  BY <1>4, <1>5 DEF next

(* Settling one side of a trade, exactly: from what the position cost to   *)
(* what it costs then is what was paid and what was realized, and the      *)
(* profit is that, rounded once.                                           *)
LEMMA SideExact ==
  ASSUME NEW a \in Account, NEW p \in Nat, NEW q \in Nat \ {0},
         NEW lev \in Nat \ {0}, NEW liquidation \in BOOLEAN, NEW dir \in {1, -1}
  PROVE  \E z \in Int :
           /\ Profit(a.position, p, q, dir) = Round(z, Den(a.position))
           /\ Exact(a.position, SettleSide(a, p, q, lev, liquidation, dir).position,
                    dir * (q * p), z)
<1> DEFINE pos == a.position
           k == ReduceQty(pos, q, dir)
           reduced == IF k > 0 THEN Reduced(a, p, k, liquidation) ELSE a
           charged == Charged(reduced, p, q, liquidation)
           opened == IF q > k THEN Opened(charged, p, q - k, lev, dir) ELSE charged
           z == IF k > 0 THEN Parts(pos, p, k) ELSE 0
           mid == charged.position
           last == opened.position
<1>1. pos \in Position \cup {None} /\ Num(pos) \in Int /\ Den(pos) \in Nat \ {0}
  BY FractionTypes DEF Account
<1>2. /\ k \in 0..q
      /\ k > 0 => pos # None /\ k \in 1..pos.qty /\ Sign(pos.side) = -dir
      /\ k < q => \/ pos = None
                  \/ k = pos.qty /\ k > 0
                  \/ k = 0 /\ Sign(pos.side) = dir
  BY <1>1 DEF ReduceQty, Position, Lower, Sign
<1>3. SettleSide(a, p, q, lev, liquidation, dir) = opened
  BY DEF SettleSide
<1>4. Profit(pos, p, q, dir) = IF k > 0 THEN Realized(pos, p, k) ELSE 0
  BY DEF Profit
<1> HIDE DEF k, opened
<1>5. /\ reduced \in Account /\ z \in Int /\ Profit(pos, p, q, dir) = Round(z, Den(pos))
      /\ Exact(pos, reduced.position, dir * (k * p), z)
      /\ k > 0 /\ k = pos.qty => reduced.position = None
      /\ k = 0 => reduced.position = pos /\ z = 0
  <2>1. CASE k > 0
    <3>1. a.position # None /\ k \in 1..a.position.qty
      BY <1>2, <2>1
    <3>2. /\ Moved(a, Reduced(a, p, k, liquidation), Realized(pos, p, k), -(Sign(pos.side) * k))
          /\ k = pos.qty => Reduced(a, p, k, liquidation).position = None
      BY <3>1, ReducedMoved
    <3>3. /\ Parts(pos, p, k) \in Int
          /\ Realized(pos, p, k) = Round(Parts(pos, p, k), Den(pos))
          /\ Exact(pos, Reduced(a, p, k, liquidation).position,
                   -(Sign(pos.side) * (k * p)), Parts(pos, p, k))
      BY <3>1, ReducedExact
    <3>4. -(Sign(pos.side) * (k * p)) = dir * (k * p)
      <4>1. Sign(pos.side) = -dir /\ k * p \in Int
        BY <1>2, <2>1
      <4> QED  BY <4>1
    <3>5. reduced = Reduced(a, p, k, liquidation) /\ z = Parts(pos, p, k) /\ k # 0
      BY <2>1
    <3>6. Reduced(a, p, k, liquidation) \in Account
      BY <3>2 DEF Moved
    <3>7. Exact(pos, Reduced(a, p, k, liquidation).position, dir * (k * p), Parts(pos, p, k))
      BY <3>3, <3>4
    <3> HIDE DEF reduced, z, pos
    <3> QED  BY <1>4, <2>1, <3>2, <3>3, <3>5, <3>6, <3>7
  <2>2. CASE ~(k > 0)
    <3>1. k = 0 /\ reduced = a /\ z = 0 /\ dir * (k * p) = 0
      BY <1>2, <2>2
    <3>2. Round(0, Den(pos)) = 0
      <4> DEFINE d == Den(pos)
      <4>1. d \in Nat \ {0}
        BY <1>1
      <4> HIDE DEF d
      <4> DEFINE e == 2 * d
      <4>2. e \in Nat \ {0} /\ d < e /\ 2 * 0 + d = d
        BY <4>1
      <4>3. Round(0, d) = d \div e
        BY <4>1, <4>2 DEF Round
      <4> HIDE DEF e
      <4> QED  BY <4>1, <4>2, <4>3 DEF d
    <3>3. Exact(pos, pos, 0, 0)
      <4> DEFINE n == Num(pos)
                 d == Den(pos)
      <4>1. n * d = d * (n + d * 0 + 0)
        BY <1>1
      <4> QED  BY <4>1 DEF Exact
    <3> QED  BY <1>4, <3>1, <3>2, <3>3
  <2> QED  BY <2>1, <2>2
<1> HIDE DEF reduced, z
<1>6. charged \in Account /\ mid = reduced.position
  BY <1>5, ChargedMoved DEF Moved
<1> HIDE DEF charged
<1>7. last = IF q > k THEN Opened(charged, p, q - k, lev, dir).position ELSE mid
  BY DEF opened
<1>8. CASE q > k
  <2>1. q - k \in Nat \ {0} /\ mid \in Position \cup {None}
    BY <1>2, <1>6, <1>8 DEF Account
  <2>2. mid = None \/ (k = 0 /\ mid = pos /\ Sign(pos.side) = dir)
    BY <1>2, <1>5, <1>6, <1>8
  <2>3. Exact(mid, last, dir * ((q - k) * p), 0)
    BY <1>6, <1>7, <1>8, <2>1, <2>2, OpenedExact
  <2>4. last \in Position \cup {None}
    <3>1. charged.position # None => Sign(charged.position.side) = dir
      BY <2>2
    <3>2. PICK r \in Nat \ {0} : r = q - k
      BY <2>1
    <3>3. Moved(charged, Opened(charged, p, r, lev, dir), 0, dir * r)
      BY <1>6, <3>1, OpenedMoved
    <3>4. last = Opened(charged, p, r, lev, dir).position
      BY <1>7, <1>8, <3>2
    <3> QED  BY <3>3, <3>4 DEF Moved, Account
  <2>5. Num(last) \in Int /\ Den(last) \in Nat \ {0}
    BY <2>4, FractionTypes
  <2>6. CASE mid = None
    <3>1. Num(mid) = 0 /\ Den(mid) = 1
      BY <2>6 DEF Num, Den
    <3>2. PICK x, y : x = dir * (k * p) /\ y = dir * ((q - k) * p)
      OBVIOUS
    <3>3. x \in Int /\ y \in Int /\ x + y = dir * (q * p)
      BY <1>2, <3>2
    <3>4. 0 * Den(pos) = 1 * (Num(pos) + Den(pos) * x + z)
      BY <1>5, <1>6, <3>1, <3>2 DEF Exact
    <3>5. Num(last) * 1 = Den(last) * (0 + 1 * y + 0)
      BY <2>3, <3>1, <3>2 DEF Exact
    <3> DEFINE n == Num(pos)
               d == Den(pos)
               m == Num(last)
               e == Den(last)
    <3>6. /\ n \in Int /\ d \in Int /\ m \in Int /\ e \in Int /\ z \in Int
          /\ 0 = n + d * x + z /\ m = e * y
      BY <1>1, <1>5, <2>5, <3>3, <3>4, <3>5
    <3> HIDE DEF n, d, m, e
    <3>7. n + d * (x + y) + z = d * y
      <4>1. d * (x + y) = d * x + d * y
        BY <3>3, <3>6
      <4> QED  BY <3>3, <3>6, <4>1
    <3>8. m * d = e * (d * y)
      BY <3>3, <3>6
    <3>9. m * d = e * (n + d * (x + y) + z)
      BY <3>7, <3>8
    <3>10. Exact(pos, last, dir * (q * p), z)
      BY <3>3, <3>9 DEF Exact, n, d, m, e
    <3> QED  BY <1>3, <1>5, <3>10
  <2>7. CASE k = 0 /\ mid = pos
    <3>1. q - k = q /\ z = 0
      BY <1>5, <2>7
    <3>2. Exact(pos, last, dir * (q * p), z)
      BY <2>3, <2>7, <3>1
    <3> QED  BY <1>3, <1>5, <3>2
  <2> QED  BY <2>2, <2>6, <2>7
<1>9. CASE ~(q > k)
  <2>1. k = q /\ last = mid
    BY <1>2, <1>7, <1>9
  <2> QED  BY <1>3, <1>5, <1>6, <2>1
<1> QED  BY <1>8, <1>9

-----------------------------------------------------------------------------
(* Trades at the entry price.                                              *)

\* Opened at price p throughout.
EnteredAt(pos, p) == pos # None => pos.entry.num = p * pos.entry.den

(* Closing a position at its entry price realizes nothing and costs no fee. *)
LEMMA ReducedAtEntry ==
  ASSUME NEW a \in Account, a.position # None, NEW p \in Nat, EnteredAt(a.position, p),
         NEW k \in 1..a.position.qty, NEW liquidation \in BOOLEAN
  PROVE  /\ Realized(a.position, p, k) = 0
         /\ Reduced(a, p, k, liquidation).fees = a.fees
         /\ EnteredAt(Reduced(a, p, k, liquidation).position, p)
<1> DEFINE pos == a.position
           b == Reduced(a, p, k, liquidation)
           realized == Realized(pos, p, k)
           released == Released(pos, k)
           left == IF k = pos.qty THEN None
                   ELSE [pos EXCEPT !.qty = @ - k, !.margin = @ - released]
<1>1. pos \in Position
  BY DEF Account
<1>2. realized = 0
  <2>1. Sign(pos.side) \in Int /\ pos.entry.den \in Nat \ {0} /\ p * pos.entry.den - pos.entry.num = 0
    <3>1. pos.entry.den \in Nat \ {0} /\ pos.entry.num \in Nat /\ Sign(pos.side) \in Int
      BY <1>1 DEF Position, Sign
    <3>2. pos.entry.num = p * pos.entry.den
      BY DEF EnteredAt
    <3>3. \A x \in Nat, y \in Nat : x = y => y - x = 0
      OBVIOUS
    <3> QED  BY ONLY <3>1, <3>2, <3>3, p \in Nat
  <2>2. \A s \in Int : s * 0 * k = 0
    OBVIOUS
  <2>3. realized = Round(0, pos.entry.den)
    BY <2>1, <2>2 DEF Realized
  <2>4. ASSUME NEW d \in Nat \ {0} PROVE Round(0, d) = 0
    <3>1. 0 * 0 = 0 /\ 0 \in Nat /\ 0 <= d /\ \A x \in 0..0 : x = 0
      OBVIOUS
    <3>2. Round(0 * 0, d) \in 0..0
      BY <3>1, RoundShare
    <3> QED  BY ONLY <3>1, <3>2, Zenon
  <2> HIDE DEF pos, realized
  <2> QED  BY ONLY <2>1, <2>3, <2>4
<1> HIDE DEF realized
<1>3. EnteredAt(left, p)
  BY <1>1 DEF EnteredAt, Position
<1>4. b.fees = a.fees /\ b.position = left
  BY DEF Reduced, Account
<1> HIDE DEF b, left
<1> QED  BY <1>2, <1>3, <1>4 DEF b, realized

(* A position that grows at its entry price keeps it.                      *)
LEMMA OpenedAtEntry ==
  ASSUME NEW a \in Account, NEW p \in Nat, EnteredAt(a.position, p),
         NEW k \in Nat \ {0}, NEW lev \in Nat \ {0}, NEW dir \in {1, -1}
  PROVE  /\ Opened(a, p, k, lev, dir).fees = a.fees
         /\ Opened(a, p, k, lev, dir).insurance = a.insurance
         /\ EnteredAt(Opened(a, p, k, lev, dir).position, p)
<1> DEFINE pos == a.position
           b == Opened(a, p, k, lev, dir)
           average == LowestTerms(pos.entry.num * pos.qty + p * k * pos.entry.den,
                                  pos.entry.den * (pos.qty + k))
<1>1. b.fees = a.fees /\ b.insurance = a.insurance
  BY DEF Opened, Account
<1>2. CASE pos = None
  <2>1. b.position.entry = [num |-> p, den |-> 1]
    BY <1>2 DEF Opened, Account
  <2>2. EnteredAt(b.position, p)
    BY <2>1 DEF EnteredAt
  <2> QED  BY <1>1, <2>2
<1>3. CASE pos # None
  <2>1. /\ pos \in Position /\ pos.qty \in Nat \ {0}
        /\ pos.entry.num = p * pos.entry.den /\ pos.entry.den \in Nat \ {0}
    BY <1>3 DEF Account, Position, EnteredAt
  <2>2. b.position.entry = average
    BY <1>3, <2>1 DEF Opened, Account, Position
  <2>3. ASSUME NEW n \in Nat, NEW d \in Nat \ {0}, n = p * d
        PROVE  LowestTerms(n, d).num = p * LowestTerms(n, d).den
    <3> DEFINE x == LowestTerms(n, d).num
               y == LowestTerms(n, d).den
    <3>1. x \in Nat /\ y \in Nat /\ x * d = n * y
      BY LowestTermsType, LowestTermsSame
    <3> HIDE DEF x, y
    <3>2. d * x = d * (p * y)
      BY <2>3, <3>1
    <3>3. p * y \in Int /\ x \in Int
      BY <3>1
    <3>4. x <= p * y /\ p * y <= x
      <4>1. d * x <= d * (p * y) /\ d * (p * y) <= d * x
        BY <3>1, <3>2
      <4> QED  BY <3>3, <4>1, TimesMonotonic
    <3>5. x = p * y
      BY <3>3, <3>4
    <3> QED  BY <3>5 DEF x, y
  <2>4. ASSUME NEW d \in Nat \ {0}, NEW q \in Nat \ {0}
        PROVE  /\ (p * d) * q + p * k * d = p * (d * (q + k))
               /\ d * (q + k) \in Nat \ {0} /\ p * (d * (q + k)) \in Nat
    OBVIOUS
  <2> DEFINE d == pos.entry.den
             q == pos.qty
  <2>5. LowestTerms((p * d) * q + p * k * d, d * (q + k)).num
          = p * LowestTerms((p * d) * q + p * k * d, d * (q + k)).den
    <3> HIDE DEF d, q
    <3>1. d \in Nat \ {0} /\ q \in Nat \ {0}
      BY <2>1 DEF d, q
    <3> QED  BY <2>3, <2>4, <3>1
  <2>6. average.num = p * average.den
    BY <2>1, <2>5
  <2>7. EnteredAt(b.position, p)
    BY <2>2, <2>6 DEF EnteredAt
  <2> QED  BY <1>1, <2>7
<1> QED  BY <1>2, <1>3

(* Where no fee is charged, a trade at the entry price realizes nothing and *)
(* leaves a position entered at it.                                        *)
LEMMA SideAtEntry ==
  ASSUME NEW a \in Account, NEW p \in Nat, EnteredAt(a.position, p), FeeNum = 0,
         NEW q \in Nat \ {0}, NEW lev \in Nat \ {0}, NEW dir \in {1, -1},
         NEW liquidation \in BOOLEAN
  PROVE  /\ Profit(a.position, p, q, dir) = 0
         /\ SettleSide(a, p, q, lev, liquidation, dir).fees = a.fees
         /\ EnteredAt(SettleSide(a, p, q, lev, liquidation, dir).position, p)
<1> DEFINE pos == a.position
           k == ReduceQty(pos, q, dir)
           reduced == IF k > 0 THEN Reduced(a, p, k, liquidation) ELSE a
           charged == Charged(reduced, p, q, liquidation)
           Same(b) == b \in Account /\ b.fees = a.fees /\ EnteredAt(b.position, p)
<1>1. /\ k \in 0..q
      /\ k > 0 => pos # None /\ k \in 1..pos.qty
  <2>1. pos \in Position \cup {None}
    BY DEF Account
  <2> QED  BY <2>1 DEF ReduceQty, Position, Lower
<1>2. Profit(pos, p, q, dir) = IF k > 0 THEN Realized(pos, p, k) ELSE 0
  BY DEF Profit
<1>3. SettleSide(a, p, q, lev, liquidation, dir)
        = IF q > k THEN Opened(charged, p, q - k, lev, dir) ELSE charged
  BY DEF SettleSide
<1> HIDE DEF k
<1>4. Same(reduced) /\ Profit(pos, p, q, dir) = 0
  <2>1. CASE k > 0
    <3>1. pos # None /\ k \in 1..pos.qty
      BY <1>1, <2>1
    <3>2. Reduced(a, p, k, liquidation) \in Account
      <4>1. Moved(a, Reduced(a, p, k, liquidation), Realized(a.position, p, k), -(Sign(a.position.side) * k))
        BY <3>1, ReducedMoved
      <4> QED  BY <4>1 DEF Moved
    <3>3. /\ Realized(pos, p, k) = 0
          /\ Reduced(a, p, k, liquidation).fees = a.fees
          /\ EnteredAt(Reduced(a, p, k, liquidation).position, p)
      BY <3>1, ReducedAtEntry
    <3> QED  BY <1>2, <2>1, <3>2, <3>3
  <2>2. CASE ~(k > 0)
    BY <1>2, <2>2
  <2> QED  BY <2>1, <2>2
<1> HIDE DEF reduced
<1>5. Same(charged)
  <2>1. Moved(reduced, charged, 0, 0) /\ charged.position = reduced.position
    BY <1>4, ChargedMoved
  <2>2. Fee(p, q) = 0
    <3>1. p * q * 0 = 0
      OBVIOUS
    <3>2. Fee(p, q) = Round(0, FeeDen)
      BY <3>1 DEF Fee
    <3>3. Round(0 * 0, FeeDen) \in 0..0
      BY RoundShare, SettlementAssumption
    <3>4. 0 * 0 = 0
      OBVIOUS
    <3> QED  BY <3>2, <3>3, <3>4
  <2>3. /\ reduced.pool \in Nat /\ reduced.balance \in Nat /\ reduced.fees \in Nat
    BY <1>4 DEF Account
  <2>4. Lower(reduced.pool, 0) = 0 /\ Lower(Positive(reduced.balance), 0) = 0
    BY <2>3 DEF Lower, Positive
  <2>5. charged.fees = reduced.fees
    <3> DEFINE due == IF liquidation THEN 0 ELSE Fee(p, q)
               fromPool == Lower(reduced.pool, due)
               fromBalance == Lower(Positive(reduced.balance), due - fromPool)
    <3>1. charged = [reduced EXCEPT !.pool = @ - fromPool, !.locked = @ - fromPool,
                                    !.balance = @ - fromBalance,
                                    !.fees = @ + fromPool + fromBalance]
      BY DEF Charged
    <3>3. fromPool = 0 /\ fromBalance = 0
      BY <2>2, <2>4
    <3> HIDE DEF fromPool, fromBalance
    <3> HIDE DEF charged
    <3>2. charged.fees = reduced.fees + fromPool + fromBalance
      BY <1>4, <3>1 DEF Account
    <3> QED  BY <2>3, <3>2, <3>3
  <2>6. charged \in Account
    BY <2>1 DEF Moved
  <2> HIDE DEF charged
  <2> QED  BY <1>4, <2>1, <2>5, <2>6
<1> HIDE DEF charged
<1>6. CASE q > k
  <2>1. q - k \in Nat \ {0}
    BY <1>1, <1>6
  <2> DEFINE opened == Opened(charged, p, q - k, lev, dir)
  <2>2. opened.fees = charged.fees /\ EnteredAt(opened.position, p)
    BY <1>5, <2>1, OpenedAtEntry
  <2>3. SettleSide(a, p, q, lev, liquidation, dir) = opened
    BY <1>3, <1>6
  <2> HIDE DEF opened
  <2> QED  BY <1>4, <1>5, <2>2, <2>3
<1>7. CASE ~(q > k)
  BY <1>3, <1>4, <1>5, <1>7
<1> QED  BY <1>6, <1>7

-----------------------------------------------------------------------------
(* Funding.                                                                *)

LEMMA PaymentBounds ==
  ASSUME NEW balance \in Nat, NEW pos \in Position, NEW mark \in Nat, NEW num \in Int
  PROVE  /\ PaymentOf(balance, pos, mark, num).cash \in 0..balance
         /\ PaymentOf(balance, pos, mark, num).margin \in 0..pos.margin
<1> DEFINE due == Round(pos.qty * mark * Magnitude(num), FundDen)
           cash == Lower(Positive(balance), due)
<1>1. pos.qty \in Nat /\ pos.margin \in Nat /\ Magnitude(num) \in Nat
  BY DEF Position, Magnitude
<1>2. pos.qty * mark * Magnitude(num) \in Nat
  BY <1>1
<1>3. due \in Nat
  BY <1>2, RoundNat, FundingAssumption
<1> HIDE DEF due
<1>4. cash \in 0..balance /\ due - cash \in Nat
  BY <1>3 DEF Lower, Positive
<1>5. PaymentOf(balance, pos, mark, num) = [cash |-> cash, margin |-> Lower(pos.margin, due - cash)]
  BY DEF PaymentOf, due
<1> HIDE DEF cash
<1>6. Lower(pos.margin, due - cash) \in 0..pos.margin
  BY <1>1, <1>4 DEF Lower
<1> QED  BY <1>4, <1>5, <1>6

(* What is rounded down adds up to no more than the whole.                 *)
LEMMA FloorsAddUp ==
  ASSUME NEW S, IsFiniteSet(S), NEW q, \A v \in S : q[v] \in Nat,
         NEW f, NEW c \in Nat, NEW total \in Nat,
         \A v \in S : f[v] \in Nat /\ total * f[v] <= c * q[v]
  PROVE  total * SumFunctionOnSet(f, S) <= c * SumFunctionOnSet(q, S)
<1> DEFINE F(T) == SumFunctionOnSet(f, T)
           Q(T) == SumFunctionOnSet(q, T)
           Bad == {T \in SUBSET S : ~(total * F(T) <= c * Q(T))}
<1>1. \A T \in SUBSET S : IsFiniteSet(T) /\ F(T) \in Nat /\ Q(T) \in Nat
  BY FS_Subset, SumNat
<1>2. ASSUME Bad # {} PROVE FALSE
  <2>1. PICK T \in Bad : \A U \in Bad : U \subseteq T => U = T
    <3>1. Bad \in SUBSET (SUBSET S)
      OBVIOUS
    <3> HIDE DEF Bad
    <3> QED  BY <1>2, <3>1, MinimalSubset
  <2>2. T \in SUBSET S /\ ~(total * F(T) <= c * Q(T))
    OBVIOUS
  <2>3. T # {}
    <3>1. F({}) = 0 /\ Q({}) = 0
      BY SumEmpty
    <3>2. total * 0 <= c * 0
      OBVIOUS
    <3>3. total * F({}) <= c * Q({})
      BY <3>1, <3>2
    <3> HIDE DEF F, Q
    <3> QED  BY <2>2, <3>3
  <2>4. PICK v \in T : TRUE
    BY <2>3
  <2>5. total * F(T \ {v}) <= c * Q(T \ {v}) /\ T \ {v} \in SUBSET S
    <3>1. T \ {v} \notin Bad
      BY <2>1, <2>4
    <3> HIDE DEF F, Q
    <3> QED  BY <2>2, <3>1
  <2>6. F(T) = f[v] + F(T \ {v}) /\ Q(T) = q[v] + Q(T \ {v})
    <3>1. IsFiniteSet(T)
      BY <1>1, <2>2
    <3>2. \A x \in T : f[x] \in Int
      BY <2>2
    <3>3. \A x \in T : q[x] \in Int
      BY <2>2
    <3> QED  BY <2>4, <3>1, <3>2, <3>3, SumElement
  <2> DEFINE fT == F(T \ {v})
             qT == Q(T \ {v})
             fv == f[v]
             qv == q[v]
  <2>7. fT \in Nat /\ qT \in Nat /\ fv \in Nat /\ qv \in Nat /\ total * fv <= c * qv
    BY <1>1, <2>2, <2>4, <2>5
  <2>8. total * fT <= c * qT /\ ~(total * (fv + fT) <= c * (qv + qT))
    <3> HIDE DEF F, Q
    <3> QED  BY <2>2, <2>5, <2>6
  <2> HIDE DEF fT, qT, fv, qv
  <2>9. total * (fv + fT) = total * fv + total * fT /\ c * (qv + qT) = c * qv + c * qT
    BY <2>7
  <2> QED  BY <2>7, <2>8, <2>9
<1>3. S \notin Bad
  BY <1>2
<1> QED  BY <1>3

(* No receiver of funding pays, not even the one whose share takes up the  *)
(* rounding.                                                               *)
LEMMA ShareNat ==
  ASSUME NEW receivers, IsFiniteSet(receivers), NEW positions,
         \A v \in receivers : positions[v] \in Position,
         NEW last \in receivers, NEW u \in receivers, NEW collected \in Nat
  PROVE  Share(u, last, collected, positions, receivers) \in Nat
<1> DEFINE q == [v \in receivers |-> positions[v].qty]
           total == QtyHeld(positions, receivers)
           rest == receivers \ {last}
           f == [v \in rest |-> (collected * positions[v].qty) \div total]
<1>1. \A v \in receivers : positions[v].qty \in Nat \ {0}
  BY DEF Position
<1>2. total = SumFunctionOnSet(q, receivers)
  BY DEF QtyHeld, SumFunction
<1>3. \A v \in receivers : q[v] \in Nat \ {0} /\ q[v] = positions[v].qty
  BY <1>1
<1>4. IsFiniteSet(rest) /\ rest \in SUBSET receivers
  BY FS_Subset
<1> HIDE DEF q
<1>5. total \in Nat \ {0} /\ SumFunctionOnSet(q, rest) <= total /\ SumFunctionOnSet(q, rest) \in Nat
  <2>1. \A v \in receivers : q[v] \in Int /\ q[v] \in Nat
    BY <1>3
  <2>2. SumFunctionOnSet(q, receivers) = q[last] + SumFunctionOnSet(q, rest)
    BY <2>1, SumElement
  <2>3. SumFunctionOnSet(q, rest) \in Nat
    BY <1>4, <2>1, SumNat
  <2> QED  BY <1>2, <1>3, <2>2, <2>3
<1> HIDE DEF total
<1>6. ASSUME NEW n \in Nat PROVE n \div total \in Nat /\ total * (n \div total) <= n
  BY <1>5
<1>7. ASSUME NEW v \in receivers
      PROVE  /\ (collected * positions[v].qty) \div total \in Nat
             /\ total * ((collected * positions[v].qty) \div total) <= collected * q[v]
  <2>1. collected * positions[v].qty \in Nat
    BY <1>1
  <2>2. q[v] = positions[v].qty
    BY <1>3
  <2> QED  BY <1>6, <2>1, <2>2
<1>8. /\ \A v \in rest : q[v] \in Nat
      /\ \A v \in rest : f[v] \in Nat /\ total * f[v] <= collected * q[v]
  BY <1>3, <1>7
<1>9. Share(u, last, collected, positions, receivers) =
        IF u # last THEN (collected * positions[u].qty) \div total
        ELSE collected - SumFunctionOnSet(f, rest)
  BY DEF Share, SumFunction, total
<1> HIDE DEF f, rest
<1>10. SumFunctionOnSet(f, rest) \in Nat
  BY <1>4, <1>8, SumNat
<1>11. total * SumFunctionOnSet(f, rest) <= collected * SumFunctionOnSet(q, rest)
  BY <1>4, <1>5, <1>8, FloorsAddUp
<1>12. SumFunctionOnSet(f, rest) <= collected
  <2> DEFINE x == SumFunctionOnSet(f, rest)
             y == SumFunctionOnSet(q, rest)
  <2>1. x \in Nat /\ y \in Nat /\ y <= total /\ total * x <= collected * y /\ total \in Nat \ {0}
    BY <1>5, <1>10, <1>11
  <2> HIDE DEF x, y
  <2>2. collected * y <= collected * total
    BY <2>1
  <2>3. total * x <= total * collected
    BY <2>1, <2>2
  <2>4. x <= collected
    BY <2>1, <2>3
  <2> QED  BY <2>4 DEF x
<1> QED  BY <1>7, <1>9, <1>10, <1>12

(* What is collected is handed out, to the last unit.                      *)
LEMMA SharesAddUp ==
  ASSUME NEW receivers, IsFiniteSet(receivers), NEW positions,
         \A v \in receivers : positions[v] \in Position,
         NEW last \in receivers, NEW collected \in Nat,
         NEW e, \A u \in receivers : e[u] = Share(u, last, collected, positions, receivers)
  PROVE  SumFunctionOnSet(e, receivers) = collected
<1> DEFINE total == QtyHeld(positions, receivers)
           rest == receivers \ {last}
           f == [v \in rest |-> (collected * positions[v].qty) \div total]
           S == SumFunctionOnSet(f, rest)
<1>1. \A u \in receivers : e[u] \in Int
  BY ShareNat
<1>2. SumFunctionOnSet(e, receivers) = e[last] + SumFunctionOnSet(e, rest)
  BY <1>1, SumElement
<1>3. /\ e[last] = collected - S
      /\ \A u \in rest : e[u] = f[u] /\ f[u] \in Int
  BY <1>1 DEF Share, SumFunction
<1>4. IsFiniteSet(rest)
  BY FS_Subset
<1> HIDE DEF f, rest
<1>5. SumFunctionOnSet(e, rest) = S /\ S \in Int
  BY <1>3, <1>4, SumSame, SumInt
<1> HIDE DEF S
<1> QED  BY <1>2, <1>3, <1>5

\* A position from which m of the margin was taken, and nothing else.
Lessened(pos, left, m) ==
  /\ left \in Position /\ left.margin = pos.margin - m
  /\ left.side = pos.side /\ left.qty = pos.qty /\ left.entry = pos.entry

\* Money moved between holders alone, to the last unit; no balance and no locked
\* balance went below zero; what was taken of the locked balance was taken of the margin.
Shifted(U, users, positions, holders, after) ==
  /\ DOMAIN after.users = U /\ DOMAIN after.positions = DOMAIN positions
  /\ \A u \in U : after.users[u] \in [balance : Nat, locked : Nat]
  /\ \A u \in U : u \notin holders => after.users[u] = users[u]
  /\ \A u \in DOMAIN positions : u \notin holders => after.positions[u] = positions[u]
  /\ \A u \in holders : Lessened(positions[u], after.positions[u],
                                 users[u].locked - after.users[u].locked)
  /\ \E e : /\ SumFunctionOnSet(e, U) = 0
            /\ \A u \in U : /\ e[u] \in Int
                            /\ after.users[u].balance + after.users[u].locked
                                 = users[u].balance + users[u].locked + e[u]

(* A funding period makes and loses no money, whatever the rate and the    *)
(* rounding of payments and shares (runMarket).                            *)
LEMMA FundedMoves ==
  ASSUME NEW U, IsFiniteSet(U), NEW users \in [U -> [balance : Nat, locked : Nat]],
         NEW positions, NEW holders \in SUBSET U, holders \subseteq DOMAIN positions,
         \A u \in holders : positions[u] \in Position /\ positions[u].margin <= users[u].locked,
         NEW mark \in Nat, NEW num \in Int,
         NEW last \in holders \ Payers(positions, holders, num)
  PROVE  Shifted(U, users, positions, holders, Funded(users, positions, holders, mark, num, last))
<1> DEFINE after == Funded(users, positions, holders, mark, num, last)
<1> DEFINE payers == Payers(positions, holders, num)
           receivers == holders \ payers
           pay(u) == PaymentOf(users[u].balance, positions[u], mark, num)
           paid == [u \in payers |-> pay(u).cash + pay(u).margin]
           collected == SumFunction(paid)
           share(u) == Share(u, last, collected, positions, receivers)
           charged(u) == [balance |-> Positive(users[u].balance - pay(u).cash),
                          locked  |-> Positive(users[u].locked - pay(u).margin)]
           credited(u) == [users[u] EXCEPT !.balance = @ + share(u)]
<1>1. /\ payers \in SUBSET holders /\ receivers \in SUBSET holders
      /\ IsFiniteSet(payers) /\ IsFiniteSet(receivers)
  <2>1. payers \in SUBSET holders
    BY DEF Payers
  <2> HIDE DEF payers
  <2>2. payers \in SUBSET U /\ receivers \in SUBSET U
    BY <2>1
  <2> QED  BY <2>1, <2>2, FS_Subset
<1>2. /\ DOMAIN after.positions = DOMAIN positions
      /\ \A u \in DOMAIN positions :
           after.positions[u] = IF u \in payers THEN AfterPaying(positions[u], pay(u)) ELSE positions[u]
  BY DEF Funded
<1>3. /\ DOMAIN after.users = U
      /\ \A u \in U : /\ u \in payers => after.users[u] = charged(u)
                      /\ u \in receivers => after.users[u] = credited(u)
                      /\ u \notin holders => after.users[u] = users[u]
  <2> DEFINE then == [u \in U |-> CASE u \in payers    -> charged(u)
                                    [] u \in receivers -> credited(u)
                                    [] u \notin holders -> users[u]]
  <2>1. after.users = then
    <3>1. DOMAIN users = U
      OBVIOUS
    <3> QED  BY <3>1, Zenon DEF Funded
  <2>2. ASSUME NEW u \in U
        PROVE  /\ u \in payers => then[u] = charged(u)
               /\ u \in receivers => then[u] = credited(u)
               /\ u \notin holders => then[u] = users[u]
    <3>1. /\ u \in payers => u \notin receivers /\ u \in holders
          /\ u \in receivers => u \notin payers /\ u \in holders
      BY <1>1
    <3> HIDE DEF payers, receivers, charged, credited
    <3> QED  BY <3>1, Zenon
  <2>3. DOMAIN then = U
    OBVIOUS
  <2> HIDE DEF then, payers, receivers, charged, credited
  <2> QED  BY <2>1, <2>2, <2>3
<1> HIDE DEF payers
<1>4. ASSUME NEW u \in payers
      PROVE  /\ u \in U /\ u \in holders /\ positions[u] \in Position
             /\ pay(u).cash \in 0..users[u].balance /\ pay(u).margin \in 0..positions[u].margin
             /\ pay(u).cash \in Nat /\ pay(u).margin \in Nat
             /\ paid[u] \in Nat /\ paid[u] = pay(u).cash + pay(u).margin
  <2>1. u \in U /\ u \in holders /\ positions[u] \in Position /\ users[u].balance \in Nat
    BY <1>1
  <2>2. pay(u).cash \in 0..users[u].balance /\ pay(u).margin \in 0..positions[u].margin
    BY <2>1, PaymentBounds
  <2>3. positions[u].margin \in Nat
    BY <2>1 DEF Position
  <2>4. paid[u] = pay(u).cash + pay(u).margin
    OBVIOUS
  <2> HIDE DEF pay, paid
  <2> QED  BY <2>1, <2>2, <2>3, <2>4
<1>5. collected \in Nat /\ collected = SumFunctionOnSet(paid, payers)
  <2>1. \A u \in payers : paid[u] \in Nat
    BY <1>4
  <2>2. collected = SumFunctionOnSet(paid, payers)
    BY DEF SumFunction
  <2> HIDE DEF paid, collected
  <2> QED  BY <1>1, <2>1, <2>2, SumNat
<1> HIDE DEF collected, receivers, pay, paid
<1>6. \A u \in receivers : /\ u \in U /\ u \notin payers /\ positions[u] \in Position
                           /\ share(u) \in Nat
  <2>1. \A v \in receivers : positions[v] \in Position /\ v \in U /\ v \notin payers
    BY <1>1 DEF receivers
  <2>2. last \in receivers
    BY DEF receivers, payers
  <2> QED  BY <1>1, <1>5, <2>1, <2>2, ShareNat
<1> HIDE DEF share
<1> DEFINE e == [u \in U |-> CASE u \in payers    -> -paid[u]
                               [] u \in receivers -> share(u)
                               [] u \notin holders -> 0]
<1>7. \A u \in U : /\ u \in payers => e[u] = -paid[u]
                   /\ u \in receivers => e[u] = share(u)
                   /\ u \notin holders => e[u] = 0
                   /\ e[u] \in Int
  <2> SUFFICES ASSUME NEW u \in U
               PROVE  /\ u \in payers => e[u] = -paid[u]
                      /\ u \in receivers => e[u] = share(u)
                      /\ u \notin holders => e[u] = 0
                      /\ e[u] \in Int
    OBVIOUS
  <2>1. /\ u \in payers => u \notin receivers /\ u \in holders
        /\ u \in receivers => u \notin payers /\ u \in holders
        /\ u \in holders => u \in payers \/ u \in receivers
    BY <1>1 DEF receivers
  <2> QED  BY <1>4, <1>6, <2>1
<1> HIDE DEF e
<1>8. SumFunctionOnSet(e, U) = 0
  <2> DEFINE both == payers \cup receivers
  <2>1. both = holders /\ payers \cap receivers = {} /\ both \in SUBSET U
    BY <1>1 DEF receivers
  <2> HIDE DEF both
  <2>2. SumFunctionOnSet(e, both) = SumFunctionOnSet(e, U)
    BY <1>7, <2>1, SumRest
  <2>3. SumFunctionOnSet(e, both) = SumFunctionOnSet(e, payers) + SumFunctionOnSet(e, receivers)
    BY <1>1, <1>7, <2>1, SumUnion DEF both
  <2>4. SumFunctionOnSet(e, payers) = -collected
    <3>1. PICK c \in Int : c = -1
      OBVIOUS
    <3>2. ASSUME NEW u \in payers PROVE paid[u] \in Int /\ e[u] = c * paid[u]
      BY <1>4, <1>7, <3>1
    <3>3. SumFunctionOnSet(e, payers) = c * SumFunctionOnSet(paid, payers)
      BY <1>1, <3>2, SumScaled
    <3> QED  BY <1>5, <3>1, <3>3
  <2>5. SumFunctionOnSet(e, receivers) = collected
    <3>1. /\ \A v \in receivers : positions[v] \in Position
          /\ \A u \in receivers : e[u] = Share(u, last, collected, positions, receivers)
      BY <1>6, <1>7 DEF share
    <3>2. last \in receivers
      BY DEF receivers, payers
    <3> QED  BY <1>1, <1>5, <3>1, <3>2, SharesAddUp
  <2> QED  BY <1>5, <2>2, <2>3, <2>4, <2>5
<1> DEFINE Settled(u) ==
             /\ after.users[u] \in [balance : Nat, locked : Nat]
             /\ after.users[u].balance + after.users[u].locked
                  = users[u].balance + users[u].locked + e[u]
             /\ u \in holders => Lessened(positions[u], after.positions[u],
                                          users[u].locked - after.users[u].locked)
<1>9. ASSUME NEW u \in payers PROVE Settled(u)
  <2> DEFINE pos == positions[u]
             m == pay(u).margin
             c == pay(u).cash
  <2>1. /\ pos \in Position /\ c \in 0..users[u].balance /\ m \in 0..pos.margin
        /\ c \in Nat /\ m \in Nat
        /\ u \in U /\ users[u].balance \in Nat /\ users[u].locked \in Nat
        /\ u \in DOMAIN positions /\ pos.margin \in Nat /\ pos.margin <= users[u].locked
    <3>1. u \in holders /\ u \in U
      BY <1>4
    <3>2. users[u] \in [balance : Nat, locked : Nat] /\ positions[u] \in Position
          /\ positions[u].margin <= users[u].locked /\ u \in DOMAIN positions
      BY <3>1
    <3> QED  BY <1>4, <3>1, <3>2 DEF Position
  <2>2. /\ after.users[u] = [balance |-> Positive(users[u].balance - c),
                             locked  |-> Positive(users[u].locked - m)]
        /\ after.positions[u] = [pos EXCEPT !.margin = @ - m]
    BY <1>2, <1>3, <2>1 DEF AfterPaying
  <2>3. e[u] = -(c + m)
    BY <1>4, <1>7, <2>1
  <2> HIDE DEF pos, m, c
  <2>4. pos.margin - m \in Nat
    BY <2>1
  <2>5. /\ Positive(users[u].balance - c) = users[u].balance - c
        /\ Positive(users[u].locked - m) = users[u].locked - m
        /\ users[u].balance - c \in Nat /\ users[u].locked - m \in Nat
    BY <2>1 DEF Positive
  <2>6. /\ after.positions[u] \in Position /\ after.positions[u].margin = pos.margin - m
        /\ after.positions[u].side = pos.side /\ after.positions[u].qty = pos.qty
        /\ after.positions[u].entry = pos.entry
    BY <2>1, <2>2, <2>4 DEF Position
  <2>7. /\ after.users[u].balance = users[u].balance - c
        /\ after.users[u].locked = users[u].locked - m
        /\ after.users[u] \in [balance : Nat, locked : Nat]
    BY <2>2, <2>5
  <2>8. users[u].locked - after.users[u].locked = m
    BY <2>1, <2>7
  <2>9. Lessened(pos, after.positions[u], users[u].locked - after.users[u].locked)
    BY <2>6, <2>8 DEF Lessened
  <2> QED  BY <2>1, <2>3, <2>7, <2>9 DEF pos
<1>10. ASSUME NEW u \in receivers PROVE Settled(u)
  <2>1. /\ u \in U /\ u \in DOMAIN positions /\ u \notin payers /\ positions[u] \in Position
        /\ users[u] \in [balance : Nat, locked : Nat] /\ share(u) \in Nat
        /\ e[u] = share(u)
    <3>1. u \in holders /\ u \in U
      BY <1>1
    <3> QED  BY <1>6, <1>7, <3>1
  <2>2. after.users[u] = [users[u] EXCEPT !.balance = @ + share(u)]
        /\ after.positions[u] = positions[u]
    BY <1>2, <1>3, <2>1
  <2>3. /\ after.users[u] \in [balance : Nat, locked : Nat]
        /\ after.users[u].balance = users[u].balance + share(u)
        /\ after.users[u].locked = users[u].locked
    BY <2>1, <2>2
  <2>4. positions[u].margin - (users[u].locked - after.users[u].locked) = positions[u].margin
    BY <2>1, <2>3 DEF Position
  <2> QED  BY <2>1, <2>2, <2>3, <2>4 DEF Lessened
<1>11. ASSUME NEW u \in U, u \notin holders PROVE Settled(u)
  <2>1. after.users[u] = users[u] /\ e[u] = 0 /\ users[u] \in [balance : Nat, locked : Nat]
    BY <1>3, <1>7, <1>11
  <2> QED  BY <1>11, <2>1
<1>12. \A u \in U : Settled(u)
  <2>1. \A u \in U : u \in payers \/ u \in receivers \/ u \notin holders
    BY DEF receivers
  <2> HIDE DEF Settled
  <2> QED  BY <1>9, <1>10, <1>11, <2>1
<1>13. /\ SumFunctionOnSet(e, U) = 0
       /\ \A u \in U : /\ e[u] \in Int
                       /\ after.users[u].balance + after.users[u].locked
                            = users[u].balance + users[u].locked + e[u]
  BY <1>7, <1>8, <1>12
<1>14. \A u \in DOMAIN positions : u \notin holders => after.positions[u] = positions[u]
  BY <1>1, <1>2
<1>15. \A u \in U : u \notin holders => after.users[u] = users[u]
  BY <1>3
<1>16. \A u \in holders : u \in U
  OBVIOUS
<1> HIDE DEF charged, credited, after
<1>17. /\ \A u \in U : after.users[u] \in [balance : Nat, locked : Nat]
       /\ \A u \in holders : Lessened(positions[u], after.positions[u],
                                      users[u].locked - after.users[u].locked)
  BY <1>12, <1>16
<1>18. Shifted(U, users, positions, holders, after)
  BY <1>2, <1>3, <1>13, <1>14, <1>15, <1>17 DEF Shifted
<1> QED  BY <1>18 DEF after

=============================================================================
