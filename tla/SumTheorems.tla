---------------------------- MODULE SumTheorems ----------------------------
(***************************************************************************)
(* What SumFunction and SumFunctionOnSet of module Functions compute: the  *)
(* empty sum, a sum without one of its terms, sums that differ in one      *)
(* term, sums of sums.  The sums of this project's models are all of them  *)
(* sums of a function over a finite set.                                   *)
(*                                                                         *)
(* Both are folds, that is recursive functions on the subsets of the set.  *)
(* That the recursion has a solution, and one only, is proved here from    *)
(* the least counterexample by number of elements (WFMin).                 *)
(***************************************************************************)
EXTENDS Integers, FiniteSets, Functions, FiniteSetTheorems, WellFoundedInduction, TLAPS

Some(s) == CHOOSE x \in s : TRUE

\* g is a solution of the recursion of SumFunctionOnSet(f, S).
Adds(g, f, S) ==
  g = [s \in SUBSET S |-> IF s = {} THEN 0 ELSE f[Some(s)] + g[s \ {Some(s)}]]

LEMMA Unfolds ==
  ASSUME NEW f, NEW S
  PROVE  SumFunctionOnSet(f, S) = (CHOOSE g : Adds(g, f, S))[S]
  BY DEF SumFunctionOnSet, FoldFunctionOnSet, MapThenFoldSet, Adds, Some

\* A set of numbers that has a least member only when it is empty is empty.
LEMMA LeastNumber ==
  ASSUME NEW N \in SUBSET Nat, N # {}
  PROVE  \E n \in N : \A k \in N : n <= k
  <1>1. PICK n \in N : \A k \in N : ~ (<<k, n>> \in OpToRel(<, Nat))
    BY NatLessThanWellFounded, WFMin
  <1>2. \A k \in N : ~ (k < n)
    BY <1>1 DEF OpToRel
  <1> QED BY <1>2

LEMMA SomeSmaller ==
  ASSUME NEW s, IsFiniteSet(s), s # {}
  PROVE  /\ Some(s) \in s
         /\ IsFiniteSet(s \ {Some(s)})
         /\ Cardinality(s) \in Nat \ {0}
         /\ Cardinality(s \ {Some(s)}) = Cardinality(s) - 1
  <1>1. Some(s) \in s
    BY DEF Some
  <1> QED BY <1>1, FS_RemoveElement, FS_CardinalityType, FS_EmptySet

LEMMA Solution ==
  ASSUME NEW f, NEW S, IsFiniteSet(S)
  PROVE  \E g : Adds(g, f, S)
  <1> DEFINE UpTo(n) == {s \in SUBSET S : Cardinality(s) <= n}
             Part(g, n) == g = [s \in UpTo(n) |->
                                  IF s = {} THEN 0 ELSE f[Some(s)] + g[s \ {Some(s)}]]
             Bad == {n \in Nat : ~ \E g : Part(g, n)}
  <1>1. \A s \in SUBSET S : IsFiniteSet(s) /\ Cardinality(s) \in Nat /\ Cardinality(s) <= Cardinality(S)
    BY FS_Subset, FS_CardinalityType
  <1>2. Bad = {}
    <2>1. SUFFICES ASSUME Bad # {} PROVE FALSE
      OBVIOUS
    <2>2. PICK n \in Bad : \A k \in Bad : n <= k
      <3>1. Bad \in SUBSET Nat
        OBVIOUS
      <3> HIDE DEF Bad
      <3> QED BY <2>1, <3>1, LeastNumber
    <2>3. CASE n = 0
      <3>1. UpTo(0) \subseteq {{}}
        BY <1>1, FS_EmptySet
      <3>2. Part([s \in UpTo(0) |-> 0], 0)
        BY <3>1
      <3> QED BY <2>2, <2>3, <3>2
    <2>4. CASE n # 0
      <3>1. n \in Nat /\ n - 1 \in Nat /\ n - 1 \notin Bad
        <4>1. n \in Nat
          OBVIOUS
        <4> HIDE DEF Bad
        <4> QED BY <2>2, <2>4, <4>1
      <3>2. PICK g : Part(g, n - 1)
        BY <3>1
      <3> DEFINE h == [s \in UpTo(n) |->
                         IF s = {} THEN 0 ELSE f[Some(s)] + g[s \ {Some(s)}]]
      <3>3. \A s \in UpTo(n - 1) : h[s] = g[s]
        <4> TAKE s \in UpTo(n - 1)
        <4>1. s \in UpTo(n)
          BY <1>1, <3>1
        <4> QED BY <3>2, <4>1
      <3>4. \A s \in UpTo(n) : s # {} => s \ {Some(s)} \in UpTo(n - 1)
        <4> TAKE s \in UpTo(n)
        <4> HAVE s # {}
        <4> QED BY <1>1, <3>1, SomeSmaller
      <3>5. \A s \in UpTo(n) :
              h[s] = IF s = {} THEN 0 ELSE f[Some(s)] + h[s \ {Some(s)}]
        BY <3>3, <3>4
      <3>6. Part(h, n)
        BY <3>5
      <3> QED BY <2>2, <3>6
    <2> QED BY <2>3, <2>4
  <1>3. PICK g : Part(g, Cardinality(S))
    BY <1>1, <1>2
  <1>4. UpTo(Cardinality(S)) = SUBSET S
    BY <1>1
  <1>5. Adds(g, f, S)
    BY <1>3, <1>4 DEF Adds
  <1> QED BY <1>5

\* Solutions for functions that agree agree on the sets that both cover.
LEMMA SolutionsAgree ==
  ASSUME NEW f, NEW S, IsFiniteSet(S), NEW g, Adds(g, f, S),
         NEW e, NEW T, IsFiniteSet(T), NEW h, Adds(h, e, T),
         \A x \in S \intersect T : f[x] = e[x]
  PROVE  \A U \in SUBSET (S \intersect T) : g[U] = h[U]
  <1> DEFINE Bad == {n \in Nat : \E U \in SUBSET (S \intersect T) :
                                   Cardinality(U) = n /\ g[U] # h[U]}
  <1>1. \A U \in SUBSET (S \intersect T) : IsFiniteSet(U) /\ Cardinality(U) \in Nat
    BY FS_Subset, FS_CardinalityType
  <1>2. ASSUME Bad # {} PROVE FALSE
    <2>1. PICK n \in Bad : \A k \in Bad : n <= k
      <3>1. Bad \in SUBSET Nat
        OBVIOUS
      <3> HIDE DEF Bad
      <3> QED BY <1>2, <3>1, LeastNumber
    <2>2. PICK U \in SUBSET (S \intersect T) : Cardinality(U) = n /\ g[U] # h[U]
      OBVIOUS
    <2>3. /\ g[U] = IF U = {} THEN 0 ELSE f[Some(U)] + g[U \ {Some(U)}]
          /\ h[U] = IF U = {} THEN 0 ELSE e[Some(U)] + h[U \ {Some(U)}]
      BY DEF Adds
    <2>4. U # {}
      BY <2>2, <2>3
    <2> DEFINE V == U \ {Some(U)}
    <2>5. Some(U) \in U /\ Cardinality(V) = n - 1 /\ n - 1 \in Nat
      BY <1>1, <2>2, <2>4, SomeSmaller
    <2>6. n - 1 \notin Bad
      <3>1. n \in Nat
        OBVIOUS
      <3> HIDE DEF Bad
      <3> QED BY <2>1, <3>1
    <2>7. g[V] = h[V]
      BY <2>5, <2>6
    <2> QED BY <2>2, <2>3, <2>4, <2>5, <2>7
  <1> QED BY <1>1, <1>2

\* There is nothing in the sum over no members.
THEOREM SumEmpty ==
  ASSUME NEW f
  PROVE  SumFunctionOnSet(f, {}) = 0
  <1>1. PICK g : Adds(g, f, {})
    BY FS_EmptySet, Solution
  <1>2. Adds(CHOOSE h : Adds(h, f, {}), f, {})
    BY <1>1
  <1> QED BY <1>2, Unfolds DEF Adds

\* The sum depends on the terms alone.
THEOREM SumAgree ==
  ASSUME NEW S, IsFiniteSet(S), NEW f, NEW e, \A x \in S : f[x] = e[x]
  PROVE  SumFunctionOnSet(f, S) = SumFunctionOnSet(e, S)
  <1>1. Adds(CHOOSE h : Adds(h, f, S), f, S)
    BY Solution
  <1>2. Adds(CHOOSE h : Adds(h, e, S), e, S)
    BY Solution
  <1> QED BY <1>1, <1>2, Unfolds, SolutionsAgree

LEMMA SumSome ==
  ASSUME NEW f, NEW S, IsFiniteSet(S), S # {}
  PROVE  SumFunctionOnSet(f, S) = f[Some(S)] + SumFunctionOnSet(f, S \ {Some(S)})
  <1> DEFINE T == S \ {Some(S)}
             g == CHOOSE h : Adds(h, f, S)
             k == CHOOSE h : Adds(h, f, T)
  <1>1. Adds(g, f, S)
    BY Solution
  <1>2. IsFiniteSet(T) /\ T \subseteq S
    BY SomeSmaller
  <1>3. Adds(k, f, T)
    BY <1>2, Solution
  <1>4. g[S] = f[Some(S)] + g[T]
    BY <1>1 DEF Adds
  <1>5. g[T] = k[T]
    <2> HIDE DEF g, k, T
    <2> QED BY <1>1, <1>2, <1>3, SolutionsAgree
  <1>6. SumFunctionOnSet(f, S) = g[S] /\ SumFunctionOnSet(f, T) = k[T]
    BY Unfolds
  <1> QED BY <1>4, <1>5, <1>6

\* Induction on the subsets of a finite set, with a set for the induction formula.
LEMMA SubsetInduction ==
  ASSUME NEW S, IsFiniteSet(S), NEW G, {} \in G,
         \A T \in SUBSET S, x \in S : T \in G /\ x \notin T => T \union {x} \in G
  PROVE  S \in G
  <1> DEFINE Bad == {n \in Nat : \E T \in SUBSET S : Cardinality(T) = n /\ T \notin G}
  <1>1. \A T \in SUBSET S : IsFiniteSet(T) /\ Cardinality(T) \in Nat
    BY FS_Subset, FS_CardinalityType
  <1>2. ASSUME Bad # {} PROVE FALSE
    <2>1. PICK n \in Bad : \A k \in Bad : n <= k
      <3>1. Bad \in SUBSET Nat
        OBVIOUS
      <3> HIDE DEF Bad
      <3> QED BY <1>2, <3>1, LeastNumber
    <2>2. PICK T \in SUBSET S : Cardinality(T) = n /\ T \notin G
      OBVIOUS
    <2> DEFINE U == T \ {Some(T)}
    <2>3. Some(T) \in T /\ Cardinality(U) = n - 1 /\ n - 1 \in Nat
      BY <1>1, <2>2, SomeSmaller
    <2>4. n - 1 \notin Bad
      <3>1. n \in Nat
        OBVIOUS
      <3> HIDE DEF Bad
      <3> QED BY <2>1, <3>1
    <2>5. U \in G
      BY <2>3, <2>4
    <2>6. U \union {Some(T)} = T
      BY <2>3
    <2> QED BY <2>2, <2>3, <2>5, <2>6
  <1> QED BY <1>1, <1>2

LEMMA SumPickType ==
  ASSUME NEW S, IsFiniteSet(S), NEW f, \A x \in S : f[x] \in Int
  PROVE  /\ SumFunctionOnSet(f, S) \in Int
         /\ \A x \in S : SumFunctionOnSet(f, S) = f[x] + SumFunctionOnSet(f, S \ {x})
  <1> DEFINE Sum(T) == SumFunctionOnSet(f, T)
             Bad == {n \in Nat : \E T \in SUBSET S : Cardinality(T) = n /\
                       ~ (Sum(T) \in Int /\ \A x \in T : Sum(T) = f[x] + Sum(T \ {x}))}
  <1>1. \A T \in SUBSET S : IsFiniteSet(T) /\ Cardinality(T) \in Nat
    BY FS_Subset, FS_CardinalityType
  <1>2. ASSUME Bad # {} PROVE FALSE
    <2>1. PICK n \in Bad : \A k \in Bad : n <= k
      <3>1. Bad \in SUBSET Nat
        OBVIOUS
      <3> HIDE DEF Bad
      <3> QED BY <1>2, <3>1, LeastNumber
    <2>2. \A k \in Nat : k < n => k \notin Bad
      <3>1. n \in Nat
        OBVIOUS
      <3> HIDE DEF Bad
      <3> QED BY <2>1, <3>1
    <2>3. PICK T \in SUBSET S : Cardinality(T) = n /\
            ~ (Sum(T) \in Int /\ \A x \in T : Sum(T) = f[x] + Sum(T \ {x}))
      OBVIOUS
    <2>4. \A U \in SUBSET T : U # T =>
            Sum(U) \in Int /\ \A x \in U : Sum(U) = f[x] + Sum(U \ {x})
      <3> TAKE U \in SUBSET T
      <3> HAVE U # T
      <3>1. Cardinality(U) < n /\ Cardinality(U) \in Nat
        BY <1>1, <2>3, FS_Subset
      <3> HIDE DEF Sum
      <3> QED BY <2>2, <3>1
    <2> HIDE DEF Sum
    <2>5. Sum({}) = 0
      BY SumEmpty DEF Sum
    <2>6. ASSUME T = {} PROVE FALSE
      <3>1. Sum(T) = 0 /\ \A x \in T : Sum(T) = f[x] + Sum(T \ {x})
        BY <2>5, <2>6
      <3> QED BY <2>3, <3>1
    <2> DEFINE y == Some(T)
    <2>7. y \in T /\ Sum(T) = f[y] + Sum(T \ {y})
      BY <1>1, <2>6, SumSome, SomeSmaller DEF Sum
    <2> HIDE DEF y
    <2>8. Sum(T) \in Int
      BY <2>4, <2>7
    <2>9. ASSUME NEW x \in T PROVE Sum(T) = f[x] + Sum(T \ {x})
      <3>1. CASE x = y
        BY <2>7, <3>1
      <3>2. CASE x # y
        <4>1. /\ Sum(T \ {y}) = f[x] + Sum((T \ {y}) \ {x})
              /\ Sum(T \ {x}) = f[y] + Sum((T \ {x}) \ {y})
              /\ Sum((T \ {x}) \ {y}) \in Int
          BY <2>4, <2>7, <3>2
        <4>2. (T \ {y}) \ {x} = (T \ {x}) \ {y}
          OBVIOUS
        <4>3. f[x] \in Int /\ f[y] \in Int
          BY <2>7
        <4> DEFINE rest == Sum((T \ {x}) \ {y})
        <4>4. /\ rest \in Int
              /\ Sum(T \ {y}) = f[x] + rest
              /\ Sum(T \ {x}) = f[y] + rest
          BY <4>1, <4>2
        <4> HIDE DEF rest
        <4> QED BY <2>7, <4>3, <4>4
      <3> QED BY <3>1, <3>2
    <2> QED BY <2>3, <2>8, <2>9
  <1>3. \A T \in SUBSET S : Sum(T) \in Int /\ \A x \in T : Sum(T) = f[x] + Sum(T \ {x})
    <2> HIDE DEF Sum
    <2> QED BY <1>1, <1>2
  <1> QED BY <1>3

\* A sum of integers is an integer.
THEOREM SumType ==
  ASSUME NEW S, IsFiniteSet(S), NEW f, \A x \in S : f[x] \in Int
  PROVE  SumFunctionOnSet(f, S) \in Int
  BY SumPickType

\* A sum is any of its terms and the sum of the others.
THEOREM SumPick ==
  ASSUME NEW S, IsFiniteSet(S), NEW f, \A x \in S : f[x] \in Int, NEW x \in S
  PROVE  SumFunctionOnSet(f, S) = f[x] + SumFunctionOnSet(f, S \ {x})
  BY SumPickType

\* A new member adds its term.
THEOREM SumAdd ==
  ASSUME NEW S, IsFiniteSet(S), NEW f, \A y \in S : f[y] \in Int,
         NEW x, x \notin S, f[x] \in Int
  PROVE  SumFunctionOnSet(f, S \union {x}) = f[x] + SumFunctionOnSet(f, S)
  <1> DEFINE T == S \union {x}
  <1>1. IsFiniteSet(T) /\ x \in T /\ T \ {x} = S /\ \A y \in T : f[y] \in Int
    BY FS_AddElement
  <1> HIDE DEF T
  <1>2. SumFunctionOnSet(f, T) = f[x] + SumFunctionOnSet(f, T \ {x})
    BY <1>1, SumPick
  <1> QED BY <1>1, <1>2 DEF T

\* When one term changes the sum changes by as much.
THEOREM SumDiffer ==
  ASSUME NEW S, IsFiniteSet(S), NEW x \in S,
         NEW f, \A y \in S : f[y] \in Int, NEW e, e[x] \in Int,
         \A y \in S \ {x} : e[y] = f[y]
  PROVE  SumFunctionOnSet(e, S) = SumFunctionOnSet(f, S) - f[x] + e[x]
  <1>1. \A y \in S : e[y] \in Int
    OBVIOUS
  <1>2. IsFiniteSet(S \ {x})
    BY FS_RemoveElement
  <1>3. /\ SumFunctionOnSet(e, S) = e[x] + SumFunctionOnSet(e, S \ {x})
        /\ SumFunctionOnSet(f, S) = f[x] + SumFunctionOnSet(f, S \ {x})
    BY <1>1, SumPick
  <1>4. SumFunctionOnSet(e, S \ {x}) = SumFunctionOnSet(f, S \ {x})
    BY <1>2, SumAgree
  <1>5. SumFunctionOnSet(f, S \ {x}) \in Int /\ f[x] \in Int
    BY <1>2, SumType
  <1> QED BY <1>3, <1>4, <1>5

\* Zeros sum to zero.
THEOREM SumZero ==
  ASSUME NEW S, IsFiniteSet(S), NEW f, \A x \in S : f[x] = 0
  PROVE  SumFunctionOnSet(f, S) = 0
  <1> DEFINE G == {T \in SUBSET S : SumFunctionOnSet(f, T) = 0}
  <1>1. {} \in G
    BY SumEmpty
  <1>2. ASSUME NEW T \in SUBSET S, NEW x \in S, T \in G, x \notin T
        PROVE  T \union {x} \in G
    <2>1. IsFiniteSet(T) /\ \A y \in T : f[y] \in Int
      BY FS_Subset
    <2>2. SumFunctionOnSet(f, T \union {x}) = f[x] + SumFunctionOnSet(f, T)
      BY <1>2, <2>1, SumAdd
    <2> QED BY <1>2, <2>2
  <1>3. S \in G
    <2> HIDE DEF G
    <2> QED BY <1>1, <1>2, SubsetInduction
  <1> QED BY <1>3

\* No larger terms, no larger a sum.
THEOREM SumMonotone ==
  ASSUME NEW S, IsFiniteSet(S), NEW f, NEW e,
         \A x \in S : f[x] \in Int /\ e[x] \in Int /\ f[x] <= e[x]
  PROVE  SumFunctionOnSet(f, S) <= SumFunctionOnSet(e, S)
  <1> DEFINE G == {T \in SUBSET S : SumFunctionOnSet(f, T) <= SumFunctionOnSet(e, T)}
  <1>1. {} \in G
    BY SumEmpty
  <1>2. ASSUME NEW T \in SUBSET S, NEW x \in S, T \in G, x \notin T
        PROVE  T \union {x} \in G
    <2>1. IsFiniteSet(T)
      BY FS_Subset
    <2>2. /\ SumFunctionOnSet(f, T \union {x}) = f[x] + SumFunctionOnSet(f, T)
          /\ SumFunctionOnSet(e, T \union {x}) = e[x] + SumFunctionOnSet(e, T)
      BY <1>2, <2>1, SumAdd
    <2>3. SumFunctionOnSet(f, T) \in Int /\ SumFunctionOnSet(e, T) \in Int
      BY <2>1, SumType
    <2> QED BY <1>2, <2>2, <2>3
  <1>3. S \in G
    <2> HIDE DEF G
    <2> QED BY <1>1, <1>2, SubsetInduction
  <1> QED BY <1>3

\* The sum of termwise sums is the sum of the two sums.
THEOREM SumOfSums ==
  ASSUME NEW S, IsFiniteSet(S), NEW f, NEW e, NEW g,
         \A x \in S : f[x] \in Int /\ e[x] \in Int /\ g[x] = f[x] + e[x]
  PROVE  SumFunctionOnSet(g, S) = SumFunctionOnSet(f, S) + SumFunctionOnSet(e, S)
  <1> DEFINE G == {T \in SUBSET S :
        SumFunctionOnSet(g, T) = SumFunctionOnSet(f, T) + SumFunctionOnSet(e, T)}
  <1>1. {} \in G
    BY SumEmpty
  <1>2. ASSUME NEW T \in SUBSET S, NEW x \in S, T \in G, x \notin T
        PROVE  T \union {x} \in G
    <2>1. IsFiniteSet(T) /\ \A y \in S : g[y] \in Int
      BY FS_Subset
    <2>2. /\ SumFunctionOnSet(f, T \union {x}) = f[x] + SumFunctionOnSet(f, T)
          /\ SumFunctionOnSet(e, T \union {x}) = e[x] + SumFunctionOnSet(e, T)
          /\ SumFunctionOnSet(g, T \union {x}) = g[x] + SumFunctionOnSet(g, T)
      BY <1>2, <2>1, SumAdd
    <2>3. SumFunctionOnSet(f, T) \in Int /\ SumFunctionOnSet(e, T) \in Int
      BY <2>1, SumType
    <2> QED BY <1>2, <2>2, <2>3
  <1>3. S \in G
    <2> HIDE DEF G
    <2> QED BY <1>1, <1>2, SubsetInduction
  <1> QED BY <1>3

\* The sum over two sets without a common member is the sum of their sums.
THEOREM SumUnion ==
  ASSUME NEW S, IsFiniteSet(S), NEW R, IsFiniteSet(R), S \intersect R = {},
         NEW f, \A x \in S \union R : f[x] \in Int
  PROVE  SumFunctionOnSet(f, S \union R) = SumFunctionOnSet(f, S) + SumFunctionOnSet(f, R)
  <1> DEFINE G == {T \in SUBSET R :
        SumFunctionOnSet(f, S \union T) = SumFunctionOnSet(f, S) + SumFunctionOnSet(f, T)}
  <1>1. {} \in G
    <2>1. S \union {} = S
      OBVIOUS
    <2> QED BY <2>1, SumEmpty, SumType
  <1>2. ASSUME NEW T \in SUBSET R, NEW x \in R, T \in G, x \notin T
        PROVE  T \union {x} \in G
    <2>1. IsFiniteSet(T) /\ IsFiniteSet(S \union T) /\ x \notin S \union T
      BY <1>2, FS_Subset, FS_Union
    <2>2. /\ SumFunctionOnSet(f, T \union {x}) = f[x] + SumFunctionOnSet(f, T)
          /\ SumFunctionOnSet(f, (S \union T) \union {x}) = f[x] + SumFunctionOnSet(f, S \union T)
      BY <1>2, <2>1, SumAdd
    <2>3. SumFunctionOnSet(f, T) \in Int /\ SumFunctionOnSet(f, S) \in Int
      BY <2>1, SumType
    <2>4. (S \union T) \union {x} = S \union (T \union {x})
      OBVIOUS
    <2>5. SumFunctionOnSet(f, S \union (T \union {x})) =
            f[x] + (SumFunctionOnSet(f, S) + SumFunctionOnSet(f, T))
      BY <1>2, <2>2, <2>4
    <2>6. f[x] \in Int
      OBVIOUS
    <2>7. SumFunctionOnSet(f, S \union (T \union {x})) =
            SumFunctionOnSet(f, S) + SumFunctionOnSet(f, T \union {x})
      BY <2>2, <2>3, <2>5, <2>6
    <2> QED BY <2>7
  <1>3. R \in G
    <2> HIDE DEF G
    <2> QED BY <1>1, <1>2, SubsetInduction
  <1> QED BY <1>3

\* A sum whose terms are all the opposite.
THEOREM SumOpposite ==
  ASSUME NEW S, IsFiniteSet(S), NEW f, NEW e, \A x \in S : f[x] \in Int /\ e[x] = -f[x]
  PROVE  SumFunctionOnSet(e, S) = -SumFunctionOnSet(f, S)
  <1> DEFINE zero == [x \in S |-> 0]
  <1>1. \A x \in S : zero[x] = f[x] + e[x] /\ e[x] \in Int
    OBVIOUS
  <1>2. SumFunctionOnSet(zero, S) = 0
    BY SumZero
  <1> HIDE DEF zero
  <1>3. SumFunctionOnSet(zero, S) = SumFunctionOnSet(f, S) + SumFunctionOnSet(e, S)
    BY <1>1, SumOfSums
  <1>4. SumFunctionOnSet(f, S) \in Int /\ SumFunctionOnSet(e, S) \in Int
    BY <1>1, SumType
  <1> QED BY <1>2, <1>3, <1>4

LEMMA ImageFinite ==
  ASSUME NEW S, IsFiniteSet(S), NEW h
  PROVE  IsFiniteSet({h[x] : x \in S})
  <1> DEFINE Image(T) == {h[x] : x \in T}
             G == {T \in SUBSET S : IsFiniteSet(Image(T))}
  <1>1. {} \in G
    <2>1. Image({}) = {}
      OBVIOUS
    <2> QED BY <2>1, FS_EmptySet
  <1>2. ASSUME NEW T \in SUBSET S, NEW x \in S, T \in G, x \notin T
        PROVE  T \union {x} \in G
    <2>1. Image(T \union {x}) = Image(T) \union {h[x]}
      OBVIOUS
    <2> HIDE DEF Image
    <2>2. IsFiniteSet(Image(T) \union {h[x]})
      BY <1>2, FS_AddElement
    <2> QED BY <2>1, <2>2
  <1>3. S \in G
    <2> HIDE DEF G
    <2> QED BY <1>1, <1>2, SubsetInduction
  <1> QED BY <1>3

\* The same terms, indexed by other members.
THEOREM SumImage ==
  ASSUME NEW S, IsFiniteSet(S), NEW R, NEW h, \A x \in S : h[x] \in R,
         \A y \in R : \E x \in S : h[x] = y,
         \A x, y \in S : h[x] = h[y] => x = y,
         NEW f, NEW e, \A x \in S : f[x] \in Int /\ e[h[x]] = f[x]
  PROVE  SumFunctionOnSet(e, R) = SumFunctionOnSet(f, S)
  <1> DEFINE Image(T) == {h[x] : x \in T}
             G == {T \in SUBSET S :
                     /\ IsFiniteSet(Image(T))
                     /\ SumFunctionOnSet(e, Image(T)) = SumFunctionOnSet(f, T)}
  <1>1. {} \in G
    <2>1. Image({}) = {}
      OBVIOUS
    <2> QED BY <2>1, SumEmpty, FS_EmptySet
  <1>2. ASSUME NEW T \in SUBSET S, NEW x \in S, T \in G, x \notin T
        PROVE  T \union {x} \in G
    <2>1. IsFiniteSet(T) /\ IsFiniteSet(Image(T))
      BY <1>2, FS_Subset
    <2>2. Image(T \union {x}) = Image(T) \union {h[x]} /\ h[x] \notin Image(T)
      BY <1>2
    <2>3. \A y \in Image(T) : e[y] \in Int
      OBVIOUS
    <2> HIDE DEF Image
    <2>4. /\ SumFunctionOnSet(f, T \union {x}) = f[x] + SumFunctionOnSet(f, T)
          /\ SumFunctionOnSet(e, Image(T) \union {h[x]}) = e[h[x]] + SumFunctionOnSet(e, Image(T))
      BY <1>2, <2>1, <2>2, <2>3, SumAdd
    <2>5. IsFiniteSet(Image(T) \union {h[x]})
      BY <2>1, FS_AddElement
    <2> QED BY <1>2, <2>2, <2>4, <2>5
  <1>3. S \in G
    <2> HIDE DEF G
    <2> QED BY <1>1, <1>2, SubsetInduction
  <1>4. R = Image(S)
    OBVIOUS
  <1> HIDE DEF Image
  <1> QED BY <1>3, <1>4

\* A sum over some of the members is the sum over all with zeros for the others.
THEOREM SumSubset ==
  ASSUME NEW S, IsFiniteSet(S), NEW T \in SUBSET S, NEW f, NEW e,
         \A x \in T : f[x] \in Int /\ e[x] = f[x],
         \A x \in S \ T : e[x] = 0
  PROVE  SumFunctionOnSet(e, S) = SumFunctionOnSet(f, T)
  <1>1. IsFiniteSet(T) /\ IsFiniteSet(S \ T)
    BY FS_Subset
  <1>2. T \intersect (S \ T) = {} /\ T \union (S \ T) = S
    OBVIOUS
  <1>3. \A x \in T \union (S \ T) : e[x] \in Int
    OBVIOUS
  <1>4. SumFunctionOnSet(e, T \union (S \ T))
          = SumFunctionOnSet(e, T) + SumFunctionOnSet(e, S \ T)
    BY <1>1, <1>2, <1>3, SumUnion
  <1>5. SumFunctionOnSet(e, S \ T) = 0
    BY <1>1, SumZero
  <1>6. SumFunctionOnSet(e, T) = SumFunctionOnSet(f, T)
    BY <1>1, SumAgree
  <1>7. SumFunctionOnSet(f, T) \in Int
    BY <1>1, SumType
  <1>8. SumFunctionOnSet(e, S) = SumFunctionOnSet(f, T) + 0
    BY <1>2, <1>4, <1>5, <1>6, Zenon
  <1> QED BY <1>7, <1>8

\* Terms that are not negative: none is more than their sum, and the sum is not negative.
THEOREM SumNat ==
  ASSUME NEW S, IsFiniteSet(S), NEW f, \A x \in S : f[x] \in Nat
  PROVE  /\ SumFunctionOnSet(f, S) \in Nat
         /\ \A x \in S : f[x] <= SumFunctionOnSet(f, S)
  <1>1. ASSUME NEW T \in SUBSET S PROVE SumFunctionOnSet(f, T) \in Nat
    <2> DEFINE zero == [x \in T |-> 0]
    <2>1. IsFiniteSet(T) BY FS_Subset
    <2>2. \A x \in T : zero[x] \in Int /\ f[x] \in Int /\ zero[x] <= f[x] /\ zero[x] = 0
      OBVIOUS
    <2> HIDE DEF zero
    <2>3. SumFunctionOnSet(zero, T) = 0
      BY <2>1, <2>2, SumZero
    <2>4. SumFunctionOnSet(zero, T) <= SumFunctionOnSet(f, T)
      BY <2>1, <2>2, SumMonotone
    <2>5. SumFunctionOnSet(f, T) \in Int
      BY <2>1, <2>2, SumType
    <2> QED BY <2>3, <2>4, <2>5
  <1>2. ASSUME NEW x \in S PROVE f[x] <= SumFunctionOnSet(f, S)
    <2>1. S \ {x} \in SUBSET S /\ f[x] \in Nat
      OBVIOUS
    <2>2. SumFunctionOnSet(f, S) = f[x] + SumFunctionOnSet(f, S \ {x})
      BY SumPick
    <2>3. SumFunctionOnSet(f, S \ {x}) \in Nat
      BY <1>1, <2>1
    <2> QED BY <2>1, <2>2, <2>3
  <1> QED BY <1>1, <1>2

\* Equal terms.
THEOREM SumConstant ==
  ASSUME NEW S, IsFiniteSet(S), NEW c \in Int, NEW f, \A x \in S : f[x] = c
  PROVE  SumFunctionOnSet(f, S) = Cardinality(S) * c
  <1> DEFINE G == {T \in SUBSET S : SumFunctionOnSet(f, T) = Cardinality(T) * c}
  <1>1. {} \in G
    BY SumEmpty, FS_EmptySet
  <1>2. ASSUME NEW T \in SUBSET S, NEW x \in S, T \in G, x \notin T
        PROVE  T \union {x} \in G
    <2>1. IsFiniteSet(T) /\ \A y \in T : f[y] \in Int
      BY FS_Subset
    <2>2. Cardinality(T) \in Nat /\ Cardinality(T \union {x}) = Cardinality(T) + 1
      BY <1>2, <2>1, FS_CardinalityType, FS_AddElement
    <2>3. SumFunctionOnSet(f, T \union {x}) = f[x] + SumFunctionOnSet(f, T)
      BY <1>2, <2>1, SumAdd
    <2>4. \A n \in Nat : (n + 1) * c = c + n * c
      OBVIOUS
    <2> QED BY <1>2, <2>2, <2>3, <2>4
  <1>3. S \in G
    <2> HIDE DEF G
    <2> QED BY <1>1, <1>2, SubsetInduction
  <1> QED BY <1>3

\* Differences of neighbours sum to the difference of the ends.
THEOREM SumTelescope ==
  ASSUME NEW m \in Int, NEW n \in Int, m <= n, NEW r, \A k \in m..n : r[k] \in Int,
         NEW f, \A k \in (m + 1)..n : f[k] = r[k - 1] - r[k]
  PROVE  SumFunctionOnSet(f, (m + 1)..n) = r[m] - r[n]
  <1> DEFINE S == (m + 1)..n
             before == [k \in S |-> r[k - 1]]
             minus == [k \in m..n |-> -r[k]]
             down == [k \in S |-> k - 1]
  <1>1. IsFiniteSet(S) /\ IsFiniteSet(m..(n - 1)) /\ IsFiniteSet(m..n)
    <2>1. m + 1 \in Int /\ n - 1 \in Int
      OBVIOUS
    <2> QED BY <2>1, FS_Interval
  <1>2. /\ \A k \in S : /\ before[k] \in Int /\ minus[k] \in Int
                         /\ f[k] = before[k] + minus[k]
                         /\ r[down[k]] = before[k]
                         /\ r[k] \in Int /\ minus[k] = -r[k]
        /\ \A j, k \in S : down[j] = down[k] => j = k
    OBVIOUS
  <1>3. /\ \A k \in S : down[k] \in m..(n - 1)
        /\ \A j \in m..(n - 1) : \E k \in S : down[k] = j
    <2>1. \A j \in m..(n - 1) : j + 1 \in S /\ down[j + 1] = j
      OBVIOUS
    <2>2. \A k \in S : down[k] \in m..(n - 1)
      OBVIOUS
    <2> HIDE DEF S, down
    <2> QED BY <2>1, <2>2
  <1>4. /\ m..n = S \union {m} /\ m \notin S
        /\ m..n = m..(n - 1) \union {n} /\ n \notin m..(n - 1)
        /\ \A k \in m..(n - 1) : r[k] \in Int
        /\ r[m] \in Int /\ r[n] \in Int
    OBVIOUS
  <1> HIDE DEF S, before, minus, down
  <1>5. SumFunctionOnSet(f, S) = SumFunctionOnSet(before, S) + SumFunctionOnSet(minus, S)
    BY <1>1, <1>2, SumOfSums
  <1>6. SumFunctionOnSet(minus, S) = -SumFunctionOnSet(r, S)
    BY <1>1, <1>2, SumOpposite
  <1>7. SumFunctionOnSet(r, m..(n - 1)) = SumFunctionOnSet(before, S)
    <2>1. /\ IsFiniteSet(S)
          /\ \A x, y \in S : down[x] = down[y] => x = y
          /\ \A x \in S : before[x] \in Int /\ r[down[x]] = before[x]
      BY <1>1, <1>2
    <2>2. PICK R : R = m..(n - 1)
      OBVIOUS
    <2>3. /\ \A x \in S : down[x] \in R
          /\ \A y \in R : \E x \in S : down[x] = y
      BY <1>3, <2>2
    <2>4. SumFunctionOnSet(r, R) = SumFunctionOnSet(before, S)
      BY <2>1, <2>3, SumImage, SMT
    <2> QED BY <2>2, <2>4
  <1>8. SumFunctionOnSet(r, m..n) = r[m] + SumFunctionOnSet(r, S)
    <2>1. SumFunctionOnSet(r, S \union {m}) = r[m] + SumFunctionOnSet(r, S)
      BY <1>1, <1>2, <1>4, SumAdd
    <2> QED BY <1>4, <2>1
  <1>9. SumFunctionOnSet(r, m..n) = r[n] + SumFunctionOnSet(r, m..(n - 1))
    <2>1. SumFunctionOnSet(r, m..(n - 1) \union {n}) = r[n] + SumFunctionOnSet(r, m..(n - 1))
      BY <1>1, <1>4, SumAdd
    <2> QED BY <1>4, <2>1
  <1>10. SumFunctionOnSet(r, S) \in Int /\ SumFunctionOnSet(r, m..(n - 1)) \in Int
    BY <1>1, <1>2, <1>4, SumType
  <1> QED BY <1>4, <1>5, <1>6, <1>7, <1>8, <1>9, <1>10 DEF S
=============================================================================
