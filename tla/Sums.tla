-------------------------------- MODULE Sums --------------------------------
(***************************************************************************)
(* Sums over finite sets: what the proofs of the other modules need to     *)
(* know of MapThenSumSet, which the community modules define by recursion. *)
(* That the recursion has a solution, and every fact about it, is proved   *)
(* by an induction that rests on the pigeonhole principle alone.           *)
(***************************************************************************)
EXTENDS Integers, FiniteSets, FiniteSetsExt, FiniteSetTheorems, TLAPS

\* The sum of num[x] for all x in S.
Total(num, S) == MapThenSumSet(LAMBDA x : num[x], S)

-----------------------------------------------------------------------------
(* Induction *)

\* A set of naturals with 0 and with the successor of each of its members has
\* all of them: without n, x |-> x + 1 would squeeze the part of S up to n
\* into one member less.
LEMMA SetInduction ==
  ASSUME NEW S, 0 \in S, \A n \in Nat : n \in S => n + 1 \in S
  PROVE  \A n \in Nat : n \in S
  <1> SUFFICES ASSUME NEW n \in Nat, n \notin S PROVE FALSE
    OBVIOUS
  <1> DEFINE T == {i \in 0..n : i \in S}
             U == {i \in 1..n : i \in S}
             up == [i \in T |-> i + 1]
  <1>1. IsFiniteSet(0..n)
    BY FS_Interval
  <1>2. IsFiniteSet(T)
    BY <1>1, FS_Subset
  <1>3. U = T \ {0} /\ 0 \in T
    OBVIOUS
  <1>4. up \in Injection(T, U)
    <2>1. \A i \in T : i # n /\ i + 1 \in U
      OBVIOUS
    <2> QED
      BY <2>1 DEF Injection, IsInjective
  <1> HIDE DEF T, U, up
  <1>5. IsFiniteSet(U) /\ Cardinality(U) = Cardinality(T) - 1
    BY <1>2, <1>3, FS_RemoveElement
  <1>6. Cardinality(T) <= Cardinality(U) /\ Cardinality(T) \in Nat
    BY <1>2, <1>4, <1>5, FS_Injection, FS_CardinalityType
  <1> QED
    BY <1>5, <1>6

\* What holds of a set whenever it holds of its proper subsets holds of every
\* subset of a finite set.
LEMMA SubsetInduction ==
  ASSUME NEW S, IsFiniteSet(S), NEW Good,
         \A T \in SUBSET S : (\A U \in SUBSET T : U # T => U \in Good) => T \in Good
  PROVE  \A T \in SUBSET S : T \in Good
  <1> DEFINE N == {n \in Nat : \A T \in SUBSET S : Cardinality(T) <= n => T \in Good}
  <1>0. \A T \in SUBSET S : IsFiniteSet(T) /\ Cardinality(T) \in Nat
    BY FS_Subset, FS_CardinalityType
  <1>1. ASSUME NEW T \in SUBSET S, NEW U \in SUBSET T, U # T
        PROVE  Cardinality(U) < Cardinality(T)
    BY <1>0, <1>1, FS_Subset
  <1>2. 0 \in N
    <2> SUFFICES ASSUME NEW T \in SUBSET S, Cardinality(T) <= 0 PROVE T \in Good
      OBVIOUS
    <2>1. \A U \in SUBSET T : U = T
      BY <1>0, <1>1
    <2> QED
      BY <2>1
  <1>3. ASSUME NEW n \in Nat, n \in N PROVE n + 1 \in N
    <2> SUFFICES ASSUME NEW T \in SUBSET S, Cardinality(T) <= n + 1 PROVE T \in Good
      OBVIOUS
    <2>1. ASSUME NEW U \in SUBSET T, U # T PROVE U \in Good
      <3>1. Cardinality(U) < Cardinality(T) /\ U \in SUBSET S
        BY <2>1, <1>1
      <3>2. Cardinality(U) <= n
        BY <1>0, <3>1
      <3> QED
        BY <1>3, <3>1, <3>2
    <2> QED
      BY <2>1
  <1> HIDE DEF N
  <1>4. \A n \in Nat : n \in N
    BY <1>2, <1>3, SetInduction
  <1> QED
    BY <1>0, <1>4 DEF N

-----------------------------------------------------------------------------
(* The recursion *)

Pick(s) == CHOOSE x \in s : TRUE

\* The value of the recursion for s, with f for the smaller sets.
Body(num, f, s) == IF s = {} THEN 0 ELSE num[Pick(s)] + f[s \ {Pick(s)}]

Unfolds(f, num, S) == f = [s \in SUBSET S |-> Body(num, f, s)]

LEMMA PickIsMember ==
  ASSUME NEW s, s # {}
  PROVE  Pick(s) \in s /\ s \ {Pick(s)} # s
  BY DEF Pick

\* A solution for the sets of at most n members gives one for n + 1.
LEMMA SolutionExists ==
  ASSUME NEW S, IsFiniteSet(S), NEW num
  PROVE  \E f : Unfolds(f, num, S)
  <1> DEFINE Solves(f, n) == /\ f = [s \in SUBSET S |-> f[s]]
                             /\ \A s \in SUBSET S : Cardinality(s) <= n => f[s] = Body(num, f, s)
             N == {n \in Nat : \E f : Solves(f, n)}
  <1>0. \A s \in SUBSET S : IsFiniteSet(s) /\ Cardinality(s) \in Nat
    BY FS_Subset, FS_CardinalityType
  <1>1. 0 \in N
    <2> DEFINE f == [s \in SUBSET S |-> 0]
    <2>1. \A s \in SUBSET S : Cardinality(s) <= 0 => s = {}
      BY <1>0, FS_EmptySet
    <2>2. Solves(f, 0)
      BY <2>1 DEF Body
    <2> QED
      BY <2>2
  <1>2. ASSUME NEW n \in Nat, n \in N PROVE n + 1 \in N
    <2>1. PICK f : Solves(f, n)
      BY <1>2
    <2> DEFINE g == [s \in SUBSET S |-> Body(num, f, s)]
    <2>2. ASSUME NEW s \in SUBSET S, Cardinality(s) <= n + 1
          PROVE  g[s] = Body(num, g, s)
      <3>1. CASE s = {}
        BY <3>1 DEF Body
      <3>2. CASE s # {}
        <4> DEFINE r == s \ {Pick(s)}
        <4>1. r \in SUBSET S /\ Cardinality(r) <= n
          <5>1. Cardinality(r) = Cardinality(s) - 1
            BY <3>2, <1>0, PickIsMember, FS_RemoveElement
          <5> QED
            BY <5>1, <2>2, <1>0
        <4>2. f[r] = g[r]
          BY <2>1, <4>1
        <4> QED
          BY <3>2, <4>2 DEF Body
      <3> QED
        BY <3>1, <3>2
    <2>3. g = [s \in SUBSET S |-> g[s]]
      OBVIOUS
    <2>4. Solves(g, n + 1)
      BY <2>2, <2>3
    <2> HIDE DEF g, Solves
    <2> QED
      BY <2>4
  <1> HIDE DEF N
  <1>3. Cardinality(S) \in N
    BY <1>0, <1>1, <1>2, SetInduction
  <1>4. PICK f : Solves(f, Cardinality(S))
    BY <1>3 DEF N
  <1>5. \A s \in SUBSET S : Cardinality(s) <= Cardinality(S)
    BY FS_Subset
  <1>6. \A s \in SUBSET S : f[s] = Body(num, f, s)
    BY <1>4, <1>5
  <1>7. [s \in SUBSET S |-> f[s]] = [s \in SUBSET S |-> Body(num, f, s)]
    BY <1>6
  <1> QED
    BY <1>4, <1>7 DEF Unfolds

\* Total is the value of a solution.
LEMMA TotalIsSolution ==
  ASSUME NEW S, IsFiniteSet(S), NEW num
  PROVE  \E f : Unfolds(f, num, S) /\ Total(num, S) = f[S]
  <1> DEFINE g == CHOOSE f : Unfolds(f, num, S)
  <1>1. Unfolds(g, num, S)
    BY SolutionExists
  <1>2. Total(num, S) = g[S]
    BY DEF Total, MapThenSumSet, MapThenFoldSet, Unfolds, Body, Pick
  <1> QED
    BY <1>1, <1>2

\* Solutions for a set and for a part of it agree on the part.
LEMMA SolutionsAgree ==
  ASSUME NEW S, IsFiniteSet(S), NEW num, NEW f, Unfolds(f, num, S),
         NEW T \in SUBSET S, NEW g, Unfolds(g, num, T)
  PROVE  f[T] = g[T]
  <1> DEFINE Good == {s \in SUBSET T : f[s] = g[s]}
  <1>1. IsFiniteSet(T)
    BY FS_Subset
  <1>2. ASSUME NEW s \in SUBSET T, \A u \in SUBSET s : u # s => u \in Good
        PROVE  s \in Good
    <2>1. f[s] = Body(num, f, s) /\ g[s] = Body(num, g, s)
      BY DEF Unfolds
    <2>2. CASE s = {}
      BY <2>1, <2>2 DEF Body
    <2>3. CASE s # {}
      <3>1. f[s \ {Pick(s)}] = g[s \ {Pick(s)}]
        BY <1>2, <2>3, PickIsMember
      <3> QED
        BY <2>1, <2>3, <3>1 DEF Body
    <2> QED
      BY <2>2, <2>3
  <1> HIDE DEF Good
  <1>3. \A s \in SUBSET T : s \in Good
    BY <1>1, <1>2, SubsetInduction
  <1> QED
    BY <1>3 DEF Good

-----------------------------------------------------------------------------
(* Sums *)

\* The recursion, without the function that solves it.
LEMMA TotalUnfolds ==
  ASSUME NEW S, IsFiniteSet(S), NEW num
  PROVE  Total(num, S) = IF S = {} THEN 0
                         ELSE num[Pick(S)] + Total(num, S \ {Pick(S)})
  <1>1. PICK f : Unfolds(f, num, S) /\ Total(num, S) = f[S]
    BY TotalIsSolution
  <1>2. Total(num, S) = Body(num, f, S)
    BY <1>1 DEF Unfolds
  <1>3. CASE S = {}
    BY <1>2, <1>3 DEF Body
  <1>4. CASE S # {}
    <2> DEFINE R == S \ {Pick(S)}
    <2>1. IsFiniteSet(R) /\ R \in SUBSET S
      BY FS_Subset
    <2>2. PICK g : Unfolds(g, num, R) /\ Total(num, R) = g[R]
      BY <2>1, TotalIsSolution
    <2>3. f[R] = g[R]
      BY <1>1, <2>1, <2>2, SolutionsAgree
    <2> QED
      BY <1>2, <1>4, <2>2, <2>3 DEF Body
  <1> QED
    BY <1>3, <1>4

\* The order in which the members are taken does not matter.
LEMMA TotalRemove ==
  ASSUME NEW S, IsFiniteSet(S), NEW num, \A x \in S : num[x] \in Int
  PROVE  /\ Total(num, S) \in Int
         /\ \A x \in S : Total(num, S) = num[x] + Total(num, S \ {x})
  <1> DEFINE Good == {T \in SUBSET S : /\ Total(num, T) \in Int
                                       /\ \A x \in T : Total(num, T) = num[x] + Total(num, T \ {x})}
  <1>1. ASSUME NEW T \in SUBSET S, \A U \in SUBSET T : U # T => U \in Good
        PROVE  T \in Good
    <2> DEFINE p == Pick(T)
    <2>0. IsFiniteSet(T)
      BY FS_Subset
    <2>1. CASE T = {}
      BY <2>0, <2>1, TotalUnfolds
    <2>2. CASE T # {}
      <3>1. p \in T /\ p \in S /\ T \ {p} \in Good
        BY <1>1, <2>2, PickIsMember
      <3>2. Total(num, T) = num[p] + Total(num, T \ {p})
        BY <2>0, <2>2, TotalUnfolds
      <3> HIDE DEF p
      <3>3. Total(num, T) \in Int
        BY <3>1, <3>2
      <3>4. ASSUME NEW x \in T, x # p
            PROVE  Total(num, T) = num[x] + Total(num, T \ {x})
        <4> DEFINE R == (T \ {p}) \ {x}
        <4>1. R = (T \ {x}) \ {p}
          OBVIOUS
        <4>2. T \ {x} \in Good /\ R \in Good
          <5>1. T \ {x} \in SUBSET T /\ T \ {x} # T /\ R \in SUBSET T /\ R # T
            BY <3>4
          <5> QED
            BY <5>1, <1>1
        <4>3. Total(num, T \ {p}) = num[x] + Total(num, R)
          BY <3>1, <3>4
        <4>4. Total(num, T \ {x}) = num[p] + Total(num, R)
          BY <4>1, <4>2, <3>1, <3>4
        <4>5. num[x] \in Int /\ num[p] \in Int /\ Total(num, R) \in Int
          BY <4>2, <3>1
        <4> HIDE DEF R
        <4> QED
          BY <3>2, <4>3, <4>4, <4>5
      <3> QED
        BY <3>2, <3>3, <3>4
    <2> QED
      BY <2>1, <2>2
  <1> HIDE DEF Good
  <1>2. \A T \in SUBSET S : T \in Good
    BY <1>1, SubsetInduction
  <1> QED
    BY <1>2 DEF Good

\* A member is added.
LEMMA TotalAdd ==
  ASSUME NEW S, IsFiniteSet(S), NEW x, x \notin S, NEW num,
         \A y \in S \cup {x} : num[y] \in Int
  PROVE  Total(num, S \cup {x}) = num[x] + Total(num, S)
  <1> DEFINE T == S \cup {x}
  <1>1. IsFiniteSet(T)
    BY FS_AddElement
  <1>2. T \ {x} = S /\ x \in T
    OBVIOUS
  <1> QED
    BY <1>1, <1>2, TotalRemove

\* Only what num says of the members counts.
LEMMA TotalEqual ==
  ASSUME NEW S, IsFiniteSet(S), NEW num, NEW mun, \A x \in S : num[x] = mun[x]
  PROVE  Total(num, S) = Total(mun, S)
  <1> DEFINE Good == {T \in SUBSET S : Total(num, T) = Total(mun, T)}
  <1>1. ASSUME NEW T \in SUBSET S, \A U \in SUBSET T : U # T => U \in Good
        PROVE  T \in Good
    <2>0. IsFiniteSet(T)
      BY FS_Subset
    <2>1. CASE T = {}
      BY <2>0, <2>1, TotalUnfolds
    <2>2. CASE T # {}
      <3>1. Pick(T) \in S /\ T \ {Pick(T)} \in Good
        BY <1>1, <2>2, PickIsMember
      <3> QED
        BY <2>0, <2>2, <3>1, TotalUnfolds
    <2> QED
      BY <2>1, <2>2
  <1> HIDE DEF Good
  <1>2. \A T \in SUBSET S : T \in Good
    BY <1>1, SubsetInduction
  <1> QED
    BY <1>2 DEF Good

\* The value of one member changes.
LEMMA TotalUpdate ==
  ASSUME NEW S, IsFiniteSet(S), NEW a \in S, NEW num, NEW mun,
         \A x \in S : num[x] \in Int /\ mun[x] \in Int,
         \A x \in S \ {a} : mun[x] = num[x]
  PROVE  Total(mun, S) = Total(num, S) + (mun[a] - num[a])
  <1> DEFINE R == S \ {a}
  <1>1. IsFiniteSet(R)
    BY FS_Subset
  <1>2. Total(num, R) = Total(mun, R)
    BY <1>1, TotalEqual
  <1>3. Total(num, S) = num[a] + Total(num, R) /\ Total(mun, S) = mun[a] + Total(mun, R)
    BY TotalRemove
  <1>4. Total(num, R) \in Int
    BY <1>1, TotalRemove
  <1> QED
    BY <1>2, <1>3, <1>4

\* All but one member count nothing.
LEMMA TotalOfOne ==
  ASSUME NEW S, IsFiniteSet(S), NEW a, NEW num,
         \A x \in S : num[x] \in Int /\ (x # a => num[x] = 0)
  PROVE  Total(num, S) = IF a \in S THEN num[a] ELSE 0
  <1> DEFINE Good == {T \in SUBSET S : Total(num, T) = IF a \in T THEN num[a] ELSE 0}
  <1>1. ASSUME NEW T \in SUBSET S, \A U \in SUBSET T : U # T => U \in Good
        PROVE  T \in Good
    <2>0. IsFiniteSet(T)
      BY FS_Subset
    <2>1. CASE T = {}
      BY <2>0, <2>1, TotalUnfolds
    <2>2. CASE T # {}
      <3>1. Pick(T) \in T /\ Pick(T) \in S /\ T \ {Pick(T)} \in Good
        BY <1>1, <2>2, PickIsMember
      <3>2. Total(num, T) = num[Pick(T)] + Total(num, T \ {Pick(T)})
        BY <2>0, <2>2, TotalUnfolds
      <3>3. CASE Pick(T) = a
        BY <3>1, <3>2, <3>3
      <3>4. CASE Pick(T) # a
        BY <3>1, <3>2, <3>4
      <3> QED
        BY <3>3, <3>4
    <2> QED
      BY <2>1, <2>2
  <1> HIDE DEF Good
  <1>2. \A T \in SUBSET S : T \in Good
    BY <1>1, SubsetInduction
  <1> QED
    BY <1>2 DEF Good

\* Of naturals only, the sum is a natural, and the larger set has the larger sum.
LEMMA TotalOfNaturals ==
  ASSUME NEW S, IsFiniteSet(S), NEW num, \A x \in S : num[x] \in Nat
  PROVE  /\ Total(num, S) \in Nat
         /\ \A T \in SUBSET S : Total(num, T) \in Nat /\ Total(num, T) <= Total(num, S)
  <1> DEFINE Good == {T \in SUBSET S : /\ Total(num, T) \in Nat
                                       /\ \A U \in SUBSET T : Total(num, U) <= Total(num, T)}
  <1>1. ASSUME NEW T \in SUBSET S, \A U \in SUBSET T : U # T => U \in Good
        PROVE  T \in Good
    <2>0. IsFiniteSet(T)
      BY FS_Subset
    <2>1. CASE T = {}
      <3>1. Total(num, T) = 0
        BY <2>0, <2>1, TotalUnfolds
      <3> QED
        BY <2>1, <3>1
    <2>2. CASE T # {}
      <3>1. \A x \in T : /\ Total(num, T) = num[x] + Total(num, T \ {x})
                         /\ T \ {x} \in Good
        <4>1. \A x \in T : Total(num, T) = num[x] + Total(num, T \ {x})
          BY <2>0, TotalRemove
        <4>2. \A x \in T : T \ {x} \in SUBSET T /\ T \ {x} # T
          OBVIOUS
        <4> QED
          BY <1>1, <4>1, <4>2
      <3>2. Total(num, T) \in Nat
        <4>1. PICK x \in T : TRUE
          BY <2>2
        <4>2. Total(num, T \ {x}) \in Nat /\ num[x] \in Nat
          BY <3>1
        <4>3. Total(num, T) = num[x] + Total(num, T \ {x})
          BY <3>1
        <4> QED
          BY <4>2, <4>3
      <3>3. ASSUME NEW U \in SUBSET T, U # T PROVE Total(num, U) <= Total(num, T)
        <4>1. PICK x \in T : U \in SUBSET (T \ {x})
          BY <3>3
        <4>2. Total(num, U) <= Total(num, T \ {x}) /\ Total(num, U) \in Nat
          <5>1. U \in Good
            BY <1>1, <3>3
          <5> QED
            BY <3>1, <4>1, <5>1
        <4>3. Total(num, T \ {x}) \in Nat /\ num[x] \in Nat
          BY <3>1
        <4>4. Total(num, T) = num[x] + Total(num, T \ {x})
          BY <3>1
        <4> QED
          BY <4>2, <4>3, <4>4
      <3> QED
        BY <3>2, <3>3
    <2> QED
      BY <2>1, <2>2
  <1> HIDE DEF Good
  <1>2. \A T \in SUBSET S : T \in Good
    BY <1>1, SubsetInduction
  <1> QED
    BY <1>2 DEF Good

\* The sum over an image, where members may meet, is at most the sum it comes from.
LEMMA TotalOfImage ==
  ASSUME NEW S, IsFiniteSet(S), NEW f, NEW num, NEW mun,
         \A x \in S : num[x] \in Nat /\ mun[f[x]] \in Nat /\ mun[f[x]] <= num[x]
  PROVE  /\ IsFiniteSet({f[x] : x \in S})
         /\ Total(mun, {f[x] : x \in S}) <= Total(num, S)
  <1> DEFINE Image(T) == {f[x] : x \in T}
             Good == {T \in SUBSET S : /\ IsFiniteSet(Image(T))
                                       /\ Total(mun, Image(T)) <= Total(num, T)}
  <1>1. ASSUME NEW T \in SUBSET S, \A U \in SUBSET T : U # T => U \in Good
        PROVE  T \in Good
    <2>0. IsFiniteSet(T)
      BY FS_Subset
    <2>1. CASE T = {}
      <3>1. Image(T) = {}
        BY <2>1
      <3>2. Total(num, T) = 0 /\ Total(mun, {}) = 0 /\ IsFiniteSet({})
        BY <2>0, <2>1, TotalUnfolds, FS_EmptySet
      <3> HIDE DEF Image
      <3> QED
        BY <3>1, <3>2
    <2>2. CASE T # {}
      <3>1. PICK p \in T : TRUE
        BY <2>2
      <3> DEFINE R == T \ {p}
      <3>2. R \in Good
        BY <1>1
      <3>3. Image(T) = Image(R) \cup {f[p]}
        OBVIOUS
      <3>4. Total(num, T) = num[p] + Total(num, R) /\ Total(num, R) \in Nat
        <4>1. \A x \in R : num[x] \in Nat
          OBVIOUS
        <4>2. IsFiniteSet(R)
          BY <2>0, FS_Subset
        <4> QED
          BY <2>0, <4>1, <4>2, TotalRemove, TotalOfNaturals
      <3>5. IsFiniteSet(Image(R)) /\ Total(mun, Image(R)) <= Total(num, R)
        BY <3>2
      <3>6. \A y \in Image(R) \cup {f[p]} : mun[y] \in Nat
        OBVIOUS
      <3>7. Total(mun, Image(R)) \in Nat
        BY <3>5, <3>6, TotalOfNaturals
      <3>8. IsFiniteSet(Image(T))
        <4> HIDE DEF Image, R
        <4>1. IsFiniteSet(Image(R))
          BY <3>5
        <4>2. IsFiniteSet(Image(R) \cup {f[p]})
          BY <4>1, FS_AddElement
        <4> QED
          BY <3>3, <4>2, Zenon
      <3>9. CASE f[p] \in Image(R)
        <4>1. Image(T) = Image(R)
          BY <3>3, <3>9
        <4>2. num[p] \in Nat
          OBVIOUS
        <4> HIDE DEF R, Image
        <4>3. Total(mun, Image(T)) <= Total(num, T)
          BY <3>4, <3>5, <3>7, <4>1, <4>2
        <4> QED
          BY <3>8, <4>3
      <3>10. CASE f[p] \notin Image(R)
        <4>1. Total(mun, Image(T)) = mun[f[p]] + Total(mun, Image(R))
          <5>1. \A y \in Image(R) \cup {f[p]} : mun[y] \in Int
            BY <3>6
          <5> HIDE DEF R, Image
          <5> QED
            BY <3>3, <3>5, <3>10, <5>1, TotalAdd
        <4>2. num[p] \in Nat /\ mun[f[p]] \in Nat /\ mun[f[p]] <= num[p]
          OBVIOUS
        <4> HIDE DEF R, Image
        <4>3. Total(mun, Image(T)) <= Total(num, T)
          BY <3>4, <3>5, <3>7, <4>1, <4>2
        <4> QED
          BY <3>8, <4>3
      <3> QED
        BY <3>9, <3>10
    <2> QED
      BY <2>1, <2>2
  <1> HIDE DEF Good
  <1>2. S \in Good
    BY <1>1, SubsetInduction
  <1> QED
    BY <1>2 DEF Good
=============================================================================
