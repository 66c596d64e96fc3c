---------------------------- MODULE LibraryProofs ----------------------------
(***************************************************************************)
(* The libraries every module is built on: what the fixed-point operations *)
(* compute for every precise unit, what push and removeStorage do to the   *)
(* elements of an array, that the test suite's rounding helpers are the    *)
(* contracts' functions, and that the position storage keeps its invariant *)
(* under every operation a module can apply to it, for any components,     *)
(* modules and units.                                                      *)
(***************************************************************************)
EXTENDS Position, FiniteSetTheorems, WellFoundedInduction, TLAPS

\* The helpers of utils/common/mathUtils.ts.
Tests == INSTANCE MathUtils

-----------------------------------------------------------------------------
(* Induction, on least naturals: the induction theorems of the library take *)
(* an operator, these take a set or a function of truth values.             *)

\* A non-empty set of naturals has a least element.
LEMMA LeastNatural ==
    ASSUME NEW T, T \subseteq Nat, T # {}
    PROVE  \E x \in T : \A y \in T : x <= y
<1> DEFINE R == {ss \in Nat \X Nat : ss[1] < ss[2]}
<1>1. IsWellFoundedOn(R, Nat)
  BY Zenon, NatLessThanWellFounded DEF OpToRel
<1>2. PICK x \in T : \A y \in T : ~ (<<y, x>> \in R)
  BY Zenon, <1>1, WFMin
<1>3. ASSUME NEW y \in T PROVE x <= y
  <2>1. ~ (y < x)
    BY <1>2
  <2>2. x \in Nat /\ y \in Nat
    OBVIOUS
  <2> QED BY <2>1, <2>2
<1> QED BY <1>3

\* What holds at 0 and is passed on up to n holds up to n.
LEMMA BoundedInduction ==
    ASSUME NEW n \in Nat, NEW P \in [0..n -> BOOLEAN], P[0],
           \A i \in 1..n : P[i - 1] => P[i]
    PROVE  \A i \in 0..n : P[i]
<1> DEFINE T == {i \in 0..n : ~ P[i]}
<1>1. SUFFICES ASSUME T # {} PROVE FALSE
  OBVIOUS
<1>2. T \subseteq Nat
  OBVIOUS
<1>3. PICK i \in T : \A j \in T : i <= j
  BY Zenon, <1>1, <1>2, LeastNatural
<1>4. i \in 0..n /\ i \in Nat /\ i # 0 /\ ~ P[i]
  OBVIOUS
<1>5. i \in 1..n /\ i - 1 \in 0..n /\ ~ (i <= i - 1)
  BY <1>4
<1>6. P[i - 1]
  BY <1>3, <1>5
<1> QED BY <1>4, <1>5, <1>6

\* f runs through n steps from x.
TakesSteps(f, n, x, step) == f = [i \in 0..n |-> IF i = 0 THEN x ELSE step[i][f[i - 1]]]

\* Any n steps within U can be taken one after the other.
LEMMA StepsExist ==
    ASSUME NEW n \in Nat, NEW U, NEW x \in U, NEW step \in [1..n -> [U -> U]]
    PROVE  \E f \in [0..n -> U] : TakesSteps(f, n, x, step)
<1> USE DEF TakesSteps
<1> DEFINE Runs(f, k) == /\ f \in [0..k -> U]
                         /\ f = [i \in 0..k |-> IF i = 0 THEN x ELSE step[i][f[i - 1]]]
           P == [k \in 0..n |-> \E f : Runs(f, k)]
<1>1. P \in [0..n -> BOOLEAN]
  OBVIOUS
<1>2. P[0]
  <2> DEFINE g == [i \in 0..0 |-> x]
  <2>1. \A i \in 0..0 : i = 0
    OBVIOUS
  <2>2. g \in [0..0 -> U]
    OBVIOUS
  <2>3. [i \in 0..0 |-> IF i = 0 THEN x ELSE step[i][g[i - 1]]] = g
    BY <2>1
  <2>4. Runs(g, 0)
    BY Zenon, <2>2, <2>3
  <2>5. \E h : Runs(h, 0)
    BY Zenon, <2>4
  <2>6. 0 \in 0..n
    BY SMT
  <2>7. P[0] = \E h : Runs(h, 0)
    BY Zenon, <2>6
  <2> QED BY Zenon, <2>5, <2>7
<1>3. ASSUME NEW k \in 1..n, P[k - 1] PROVE P[k]
  <2>1. k - 1 \in 0..n /\ k \in 0..n
    OBVIOUS
  <2>2. PICK f : Runs(f, k - 1)
    BY <1>3, <2>1
  <2> DEFINE g == [i \in 0..k |-> IF i = 0 THEN x ELSE step[i][f[i - 1]]]
  <2>3. ASSUME NEW i \in 0..k, i # 0
        PROVE  i \in 1..n /\ i - 1 \in 0..(k - 1) /\ i - 1 \in 0..k /\ f[i - 1] \in U
    <3>1. i \in 1..n /\ i - 1 \in 0..(k - 1) /\ i - 1 \in 0..k
      BY <2>3
    <3> QED BY <2>2, <3>1
  <2>4. g \in [0..k -> U]
    <3>1. ASSUME NEW i \in 0..k, i # 0 PROVE step[i][f[i - 1]] \in U
      BY <2>3, <3>1
    <3> QED BY <3>1
  <2>5. ASSUME NEW i \in 0..(k - 1) PROVE g[i] = f[i]
    <3>1. i \in 0..k
      OBVIOUS
    <3>2. f[i] = IF i = 0 THEN x ELSE step[i][f[i - 1]]
      BY <2>2
    <3>3. g[i] = IF i = 0 THEN x ELSE step[i][f[i - 1]]
      BY <3>1
    <3> QED BY <3>2, <3>3
  <2>6. g = [i \in 0..k |-> IF i = 0 THEN x ELSE step[i][g[i - 1]]]
    <3>1. ASSUME NEW i \in 0..k, i # 0 PROVE g[i - 1] = f[i - 1]
      BY <2>3, <2>5, <3>1
    <3> QED BY <3>1
  <2>7. Runs(g, k)
    BY <2>4, <2>6
  <2> QED BY <2>1, <2>7
<1> HIDE DEF P
<1>4. \A k \in 0..n : P[k]
  BY Zenon, <1>1, <1>2, <1>3, BoundedInduction
<1>5. P[n]
  BY <1>4
<1> QED BY <1>5 DEF P

-----------------------------------------------------------------------------
(* Sums over finite sets.                                                   *)

\* The element of a set that a sum takes first.
First(s) == CHOOSE x \in s : TRUE

\* g sums f over each of the sets in D, which holds what is left of them as well.
IsSum(g, f, D) == g = [s \in D |-> IF s = {} THEN 0 ELSE f[First(s)] + g[s \ {First(s)}]]

\* The subsets of S with at most n elements.
UpTo(S, n) == {s \in SUBSET S : Cardinality(s) <= n}

\* Without its first element a set is smaller.
LEMMA Smaller ==
    ASSUME NEW S, IsFiniteSet(S), NEW s \in SUBSET S, s # {}
    PROVE  /\ First(s) \in s /\ First(s) \in S
           /\ s \ {First(s)} \in SUBSET S
           /\ Cardinality(s) \in Nat /\ Cardinality(s) > 0
           /\ Cardinality(s \ {First(s)}) = Cardinality(s) - 1
<1>1. First(s) \in s
  BY DEF First
<1>2. IsFiniteSet(s)
  BY FS_Subset
<1>3. Cardinality(s) \in Nat /\ Cardinality(s) # 0
  BY <1>2, FS_CardinalityType, FS_EmptySet
<1>4. Cardinality(s \ {First(s)}) = Cardinality(s) - 1
  BY <1>1, <1>2, FS_RemoveElement
<1> QED BY <1>1, <1>3, <1>4

\* Every function to the integers can be summed over a finite set.
LEMMA SumExists ==
    ASSUME NEW S, IsFiniteSet(S), NEW f \in [S -> Int]
    PROVE  \E g \in [SUBSET S -> Int] : IsSum(g, f, SUBSET S)
<1> DEFINE T == {n \in Nat : ~ \E g \in [UpTo(S, n) -> Int] : IsSum(g, f, UpTo(S, n))}
<1>1. T = {}
  <2>1. SUFFICES ASSUME T # {} PROVE FALSE
    OBVIOUS
  <2>2. T \subseteq Nat
    OBVIOUS
  <2>3. PICK n \in T : \A y \in T : n <= y
    BY Zenon, <2>1, <2>2, LeastNatural
  <2>4. n \in Nat
    OBVIOUS
  <2>5. CASE n = 0
    <3> DEFINE g == [s \in UpTo(S, 0) |-> 0]
    <3>1. ASSUME NEW s \in UpTo(S, 0) PROVE s = {}
      <4>1. s \in SUBSET S /\ Cardinality(s) <= 0
        BY DEF UpTo
      <4>2. s # {} => Cardinality(s) \in Nat /\ Cardinality(s) > 0
        BY <4>1, Smaller
      <4> QED BY <4>1, <4>2
    <3>2. g \in [UpTo(S, 0) -> Int]
      OBVIOUS
    <3>3. IsSum(g, f, UpTo(S, 0))
      BY <3>1 DEF IsSum
    <3> QED BY <2>5, <3>2, <3>3
  <2>6. CASE n > 0
    <3>1. n - 1 \in Nat /\ ~ (n <= n - 1)
      BY <2>4, <2>6
    <3>2. PICK g \in [UpTo(S, n - 1) -> Int] : IsSum(g, f, UpTo(S, n - 1))
      BY <2>3, <3>1
    <3> DEFINE h == [s \in UpTo(S, n) |-> IF s = {} THEN 0 ELSE f[First(s)] + g[s \ {First(s)}]]
    <3>3. ASSUME NEW s \in UpTo(S, n), s # {}
          PROVE  /\ First(s) \in S
                 /\ s \ {First(s)} \in UpTo(S, n - 1) /\ s \ {First(s)} \in UpTo(S, n)
      <4>1. s \in SUBSET S /\ Cardinality(s) <= n
        BY DEF UpTo
      <4>2. /\ First(s) \in S /\ s \ {First(s)} \in SUBSET S
            /\ Cardinality(s) \in Nat /\ Cardinality(s) > 0
            /\ Cardinality(s \ {First(s)}) = Cardinality(s) - 1
        BY <3>3, <4>1, Smaller
      <4>3. PICK k \in Int : k = Cardinality(s) - 1 /\ k <= n - 1 /\ k <= n
        BY <2>4, <4>1, <4>2
      <4> QED BY <4>2, <4>3 DEF UpTo
    <3>4. h \in [UpTo(S, n) -> Int]
      <4>1. ASSUME NEW s \in UpTo(S, n), s # {}
            PROVE  f[First(s)] + g[s \ {First(s)}] \in Int
        <5>1. f[First(s)] \in Int /\ g[s \ {First(s)}] \in Int
          BY <3>3, <4>1
        <5> QED BY <5>1
      <4> QED BY <4>1
    <3>5. ASSUME NEW s \in UpTo(S, n), s # {}
          PROVE  h[s \ {First(s)}] = g[s \ {First(s)}]
      <4>1. PICK t : t = s \ {First(s)} /\ t \in UpTo(S, n - 1) /\ t \in UpTo(S, n)
        BY <3>3, <3>5
      <4>2. h[t] = IF t = {} THEN 0 ELSE f[First(t)] + g[t \ {First(t)}]
        BY <4>1
      <4>3. g[t] = IF t = {} THEN 0 ELSE f[First(t)] + g[t \ {First(t)}]
        BY Zenon, <3>2, <4>1 DEF IsSum
      <4> HIDE DEF h
      <4> QED BY <4>1, <4>2, <4>3
    <3>6. IsSum(h, f, UpTo(S, n))
      <4>1. ASSUME NEW s \in UpTo(S, n)
            PROVE  (IF s = {} THEN 0 ELSE f[First(s)] + g[s \ {First(s)}])
                     = IF s = {} THEN 0 ELSE f[First(s)] + h[s \ {First(s)}]
        <5> HIDE DEF h
        <5> QED BY <3>5
      <4>2. h = [s \in UpTo(S, n) |-> IF s = {} THEN 0 ELSE f[First(s)] + h[s \ {First(s)}]]
        BY <4>1
      <4> QED BY <4>2 DEF IsSum
    <3> HIDE DEF h
    <3> QED BY <2>3, <3>4, <3>6
  <2> QED BY <2>4, <2>5, <2>6
<1>2. Cardinality(S) \in Nat
  BY FS_CardinalityType
<1>3. UpTo(S, Cardinality(S)) = SUBSET S
  BY FS_Subset DEF UpTo
<1>4. PICK n \in Nat : n = Cardinality(S)
  BY <1>2
<1>5. \E g \in [UpTo(S, n) -> Int] : IsSum(g, f, UpTo(S, n))
  BY <1>1
<1> QED BY <1>3, <1>4, <1>5

\* Of sets with a common property, one has no subset with one element less that has it too.
LEMMA SmallestSet ==
    ASSUME NEW S, IsFiniteSet(S), NEW T \in SUBSET SUBSET S, T # {}
    PROVE  \E s \in T : \A x \in s : s \ {x} \notin T
<1> DEFINE N == {n \in Nat : \E s \in T : Cardinality(s) = n}
<1>1. ASSUME NEW s \in T PROVE IsFiniteSet(s) /\ Cardinality(s) \in Nat
  BY FS_Subset, FS_CardinalityType
<1>2. N # {} /\ N \subseteq Nat
  BY <1>1
<1>3. PICK n \in N : \A y \in N : n <= y
  BY Zenon, <1>2, LeastNatural
<1>4. PICK s \in T : Cardinality(s) = n
  OBVIOUS
<1>5. ASSUME NEW x \in s, s \ {x} \in T PROVE FALSE
  <2>1. Cardinality(s \ {x}) = n - 1
    BY <1>1, <1>4, FS_RemoveElement
  <2>2. n - 1 \in N
    BY <1>1, <1>5, <2>1
  <2>3. n <= n - 1 /\ n \in Nat
    BY <1>3, <2>2
  <2> QED BY <2>3
<1> QED BY <1>5

\* Two sums of a function agree where both are defined.
LEMMA SumIsUnique ==
    ASSUME NEW S, IsFiniteSet(S), NEW f, NEW s \in SUBSET S,
           NEW g, IsSum(g, f, SUBSET S), NEW h, IsSum(h, f, SUBSET s)
    PROVE  h[s] = g[s]
<1> DEFINE T == {t \in SUBSET s : h[t] # g[t]}
<1>1. ASSUME NEW t \in SUBSET s
      PROVE  /\ h[t] = IF t = {} THEN 0 ELSE f[First(t)] + h[t \ {First(t)}]
             /\ g[t] = IF t = {} THEN 0 ELSE f[First(t)] + g[t \ {First(t)}]
  <2>1. t \in SUBSET S
    OBVIOUS
  <2> QED BY Zenon, <2>1 DEF IsSum
<1>2. T = {}
  <2>1. SUFFICES ASSUME T # {} PROVE FALSE
    OBVIOUS
  <2>2. IsFiniteSet(s) /\ T \in SUBSET SUBSET s
    BY FS_Subset
  <2>3. PICK t \in T : \A x \in t : t \ {x} \notin T
    BY Zenon, <2>1, <2>2, SmallestSet
  <2>4. t \in SUBSET s /\ h[t] # g[t]
    OBVIOUS
  <2>5. t # {}
    BY <1>1, <2>4
  <2>6. First(t) \in t
    BY <2>5 DEF First
  <2>7. h[t \ {First(t)}] = g[t \ {First(t)}]
    BY <2>3, <2>4, <2>6
  <2> QED BY <1>1, <2>4, <2>5, <2>7
<1> QED BY <1>2

\* What SumFunctionOnSet computes, for all subsets at once.
Sums(g, f, S) ==
    /\ IsSum(g, f, SUBSET S)
    /\ \A s \in SUBSET S : SumFunctionOnSet(f, s) = g[s]

LEMMA SumOfFunction ==
    ASSUME NEW S, IsFiniteSet(S), NEW f \in [S -> Int]
    PROVE  \E g \in [SUBSET S -> Int] : Sums(g, f, S)
<1>1. PICK g \in [SUBSET S -> Int] : IsSum(g, f, SUBSET S)
  BY Zenon, SumExists
<1>2. ASSUME NEW s \in SUBSET S PROVE SumFunctionOnSet(f, s) = g[s]
  <2>1. PICK h : h = CHOOSE iter : iter = [t \in SUBSET s |-> IF t = {} THEN 0 ELSE
                       LET x == CHOOSE x \in t : TRUE IN f[x] + iter[t \ {x}]]
    OBVIOUS
  <2>2. SumFunctionOnSet(f, s) = h[s]
    BY Zenon, <2>1 DEF SumFunctionOnSet, FoldFunctionOnSet, MapThenFoldSet
  <2>3. \E iter : iter = [t \in SUBSET s |-> IF t = {} THEN 0 ELSE
                       LET x == CHOOSE x \in t : TRUE IN f[x] + iter[t \ {x}]]
    <3> DEFINE i == [t \in SUBSET s |-> g[t]]
    <3>1. ASSUME NEW t \in SUBSET s
          PROVE  i[t] = IF t = {} THEN 0 ELSE f[First(t)] + i[t \ {First(t)}]
      <4>1. t \in SUBSET S /\ t \ {First(t)} \in SUBSET s
        OBVIOUS
      <4>2. g[t] = IF t = {} THEN 0 ELSE f[First(t)] + g[t \ {First(t)}]
        BY Zenon, <1>1, <4>1 DEF IsSum
      <4> QED BY <4>1, <4>2
    <3>2. i = [t \in SUBSET s |-> i[t]]
      OBVIOUS
    <3> HIDE DEF i
    <3>3. i = [t \in SUBSET s |-> IF t = {} THEN 0 ELSE f[First(t)] + i[t \ {First(t)}]]
      BY <3>1, <3>2
    <3> QED BY Zenon, <3>3 DEF First
  <2>4. h = [t \in SUBSET s |-> IF t = {} THEN 0 ELSE
                       LET x == CHOOSE x \in t : TRUE IN f[x] + h[t \ {x}]]
    BY Zenon, <2>1, <2>3
  <2>5. IsSum(h, f, SUBSET s)
    BY Zenon, <2>4 DEF IsSum, First
  <2>6. h[s] = g[s]
    BY <1>1, <2>5, SumIsUnique
  <2> QED BY Zenon, <2>2, <2>6
<1> QED BY Zenon, <1>1, <1>2 DEF Sums

\* Sums are integers, and nothing sums to zero.
LEMMA SumIsInteger ==
    ASSUME NEW S, IsFiniteSet(S), NEW f \in [S -> Int], NEW s \in SUBSET S
    PROVE  SumFunctionOnSet(f, s) \in Int /\ SumFunctionOnSet(f, {}) = 0
<1>1. PICK g \in [SUBSET S -> Int] : Sums(g, f, S)
  BY Zenon, SumOfFunction
<1>2. g[{}] = 0
  <2>1. {} \in SUBSET S
    OBVIOUS
  <2> QED BY Zenon, <1>1, <2>1 DEF Sums, IsSum
<1> QED BY <1>1, <1>2 DEF Sums

\* Any element can be taken out of a sum, and not only the first.
LEMMA SumTakes ==
    ASSUME NEW S, IsFiniteSet(S), NEW f \in [S -> Int], NEW s \in SUBSET S, NEW x \in s
    PROVE  SumFunctionOnSet(f, s) = f[x] + SumFunctionOnSet(f, s \ {x})
<1>1. PICK g \in [SUBSET S -> Int] : Sums(g, f, S)
  BY Zenon, SumOfFunction
<1>2. ASSUME NEW t \in SUBSET S, t # {}
      PROVE  /\ First(t) \in t
             /\ g[t] = f[First(t)] + g[t \ {First(t)}]
  <2>1. g[t] = IF t = {} THEN 0 ELSE f[First(t)] + g[t \ {First(t)}]
    BY Zenon, <1>1 DEF Sums, IsSum
  <2> QED BY <1>2, <2>1 DEF First
<1> DEFINE T == {t \in SUBSET S : \E y \in t : g[t] # f[y] + g[t \ {y}]}
<1>3. T = {}
  <2>1. SUFFICES ASSUME T # {} PROVE FALSE
    OBVIOUS
  <2>2. T \in SUBSET SUBSET S
    OBVIOUS
  <2>3. PICK t \in T : \A y \in t : t \ {y} \notin T
    <3> HIDE DEF T
    <3> QED BY <2>1, <2>2, SmallestSet
  <2>4. PICK y \in t : g[t] # f[y] + g[t \ {y}]
    OBVIOUS
  <2>5. t \in SUBSET S /\ t # {}
    BY <2>4
  <2>6. PICK z \in t : z = First(t) /\ g[t] = f[z] + g[t \ {z}]
    BY Zenon, <1>2, <2>5
  <2>7. z # y
    BY <2>4, <2>6
  <2>8. PICK u \in SUBSET S, v \in SUBSET S, w \in SUBSET S :
          /\ u = t \ {z} /\ v = t \ {y} /\ w = u \ {y} /\ w = v \ {z}
          /\ y \in u /\ z \in v
    <3>1. (t \ {z}) \ {y} = (t \ {y}) \ {z} /\ t \ {z} \in SUBSET S /\ t \ {y} \in SUBSET S
      BY <2>5
    <3>2. y \in t \ {z} /\ z \in t \ {y}
      BY <2>7
    <3> QED BY Zenon, <3>1, <3>2
  <2>9. g[u] = f[y] + g[w] /\ g[v] = f[z] + g[w]
    BY <2>3, <2>8
  <2>10. f[y] \in Int /\ f[z] \in Int /\ g[w] \in Int
    BY <2>5, <2>8
  <2> QED BY <2>4, <2>6, <2>8, <2>9, <2>10
<1>4. g[s] = f[x] + g[s \ {x}] /\ s \ {x} \in SUBSET S
  BY <1>3
<1> QED BY <1>1, <1>4 DEF Sums

\* What is zero outside a set adds nothing there.
LEMMA SumOutside ==
    ASSUME NEW S, IsFiniteSet(S), NEW f \in [S -> Int], NEW s \in SUBSET S,
           \A x \in S \ s : f[x] = 0
    PROVE  SumFunctionOnSet(f, S) = SumFunctionOnSet(f, s)
<1> DEFINE T == {t \in SUBSET S : s \subseteq t /\ SumFunctionOnSet(f, t) # SumFunctionOnSet(f, s)}
<1>1. T = {}
  <2>1. SUFFICES ASSUME T # {} PROVE FALSE
    OBVIOUS
  <2>2. T \in SUBSET SUBSET S
    OBVIOUS
  <2>3. PICK t \in T : \A y \in t : t \ {y} \notin T
    <3> HIDE DEF T
    <3> QED BY <2>1, <2>2, SmallestSet
  <2>4. /\ t \in SUBSET S /\ s \subseteq t
        /\ SumFunctionOnSet(f, t) # SumFunctionOnSet(f, s)
    OBVIOUS
  <2>5. PICK y \in t : y \notin s
    BY <2>4
  <2>6. f[y] = 0
    BY <2>4, <2>5
  <2>7. t \ {y} \in SUBSET S /\ s \subseteq t \ {y}
    BY <2>4, <2>5
  <2>8. SumFunctionOnSet(f, t \ {y}) = SumFunctionOnSet(f, s)
    BY <2>3, <2>5, <2>7
  <2>9. SumFunctionOnSet(f, t) = f[y] + SumFunctionOnSet(f, t \ {y})
    BY <2>4, <2>5, SumTakes
  <2>10. SumFunctionOnSet(f, s) \in Int
    BY SumIsInteger
  <2> QED BY <2>4, <2>6, <2>8, <2>9, <2>10
<1> QED BY <1>1
\* Sums of naturals are natural.
LEMMA SumIsNatural ==
    ASSUME NEW S, IsFiniteSet(S), NEW f \in [S -> Nat], NEW s \in SUBSET S
    PROVE  SumFunctionOnSet(f, s) \in Nat /\ SumFunctionOnSet(f, {}) = 0
<1>1. f \in [S -> Int]
  OBVIOUS
<1> DEFINE T == {t \in SUBSET S : SumFunctionOnSet(f, t) \notin Nat}
<1>2. T = {}
  <2>1. SUFFICES ASSUME T # {} PROVE FALSE
    OBVIOUS
  <2>2. T \in SUBSET SUBSET S
    OBVIOUS
  <2>3. PICK t \in T : \A y \in t : t \ {y} \notin T
    <3> HIDE DEF T
    <3> QED BY Zenon, <2>1, <2>2, SmallestSet
  <2>4. t \in SUBSET S /\ SumFunctionOnSet(f, t) \notin Nat
    OBVIOUS
  <2>5. SumFunctionOnSet(f, {}) = 0
    BY Zenon, <1>1, <2>4, SumIsInteger
  <2>6. PICK y \in t : y \in S
    BY <2>4, <2>5
  <2>7. t \ {y} \in SUBSET S /\ SumFunctionOnSet(f, t \ {y}) \in Nat
    BY <2>3, <2>4, <2>6
  <2>8. SumFunctionOnSet(f, t) = f[y] + SumFunctionOnSet(f, t \ {y})
    BY <1>1, <2>4, <2>6, SumTakes
  <2>9. f[y] \in Nat
    BY <2>6
  <2> QED BY <2>4, <2>7, <2>8, <2>9
<1>3. SumFunctionOnSet(f, {}) = 0
  BY Zenon, <1>1, SumIsInteger
<1> QED BY <1>2, <1>3

\* A function that is a linear combination of others, and one that stays below another.
Combines(e, a, f, b, g, c, h, s) == \A x \in s : e[x] = a * f[x] + b * g[x] + c * h[x]
StaysBelow(e, f, s) == \A x \in s : e[x] <= f[x]

\* Its sum is the same combination of their sums.
LEMMA SumCombines ==
    ASSUME NEW S, IsFiniteSet(S), NEW s \in SUBSET S,
           NEW a \in Int, NEW b \in Int, NEW c \in Int,
           NEW e \in [S -> Int], NEW f \in [S -> Int], NEW g \in [S -> Int], NEW h \in [S -> Int],
           Combines(e, a, f, b, g, c, h, s)
    PROVE  SumFunctionOnSet(e, s) = a * SumFunctionOnSet(f, s) + b * SumFunctionOnSet(g, s)
                                      + c * SumFunctionOnSet(h, s)
<1> DEFINE Holds(t) == SumFunctionOnSet(e, t) = a * SumFunctionOnSet(f, t)
                         + b * SumFunctionOnSet(g, t) + c * SumFunctionOnSet(h, t)
           B == {t \in SUBSET s : ~ Holds(t)}
<1>1. B = {}
  <2>1. SUFFICES ASSUME B # {} PROVE FALSE
    OBVIOUS
  <2>2. B \in SUBSET SUBSET S
    OBVIOUS
  <2> HIDE DEF B
  <2>3. PICK t \in B : \A x \in t : t \ {x} \notin B
    BY Zenon, <2>1, <2>2, SmallestSet
  <2> USE DEF B
  <2>4. t \in SUBSET s /\ t \in SUBSET S /\ ~ Holds(t)
    OBVIOUS
  <2>5. t # {}
    <3>1. Holds({})
      <4>1. /\ SumFunctionOnSet(e, {}) = 0 /\ SumFunctionOnSet(f, {}) = 0
            /\ SumFunctionOnSet(g, {}) = 0 /\ SumFunctionOnSet(h, {}) = 0
        BY Zenon, <2>4, SumIsInteger
      <4> QED BY <4>1
    <3> QED BY <2>4, <3>1
  <2>6. PICK x \in t : x \in s /\ x \in S
    BY <2>4, <2>5
  <2>7. PICK r \in SUBSET S : r = t \ {x}
    BY <2>4
  <2>8. Holds(r)
    BY <2>3, <2>4, <2>7
  <2>9. PICK e0 \in Int, f0 \in Int, g0 \in Int, h0 \in Int :
          /\ e0 = SumFunctionOnSet(e, r) /\ f0 = SumFunctionOnSet(f, r)
          /\ g0 = SumFunctionOnSet(g, r) /\ h0 = SumFunctionOnSet(h, r)
    BY SumIsInteger
  <2>10. PICK e1 \in Int, f1 \in Int, g1 \in Int, h1 \in Int :
          e1 = e[x] /\ f1 = f[x] /\ g1 = g[x] /\ h1 = h[x]
    BY <2>6
  <2>11. /\ SumFunctionOnSet(e, t) = e1 + e0 /\ SumFunctionOnSet(f, t) = f1 + f0
         /\ SumFunctionOnSet(g, t) = g1 + g0 /\ SumFunctionOnSet(h, t) = h1 + h0
    BY <2>4, <2>7, <2>9, <2>10, SumTakes
  <2>12. e0 = a * f0 + b * g0 + c * h0
    BY <2>8, <2>9
  <2>13. e1 = a * f1 + b * g1 + c * h1
    BY <2>6, <2>10 DEF Combines
  <2>14. e1 + e0 # a * (f1 + f0) + b * (g1 + g0) + c * (h1 + h0)
    BY <2>4, <2>11
  <2> HIDE DEF Holds, B
  <2>15. /\ a * (f1 + f0) = a * f1 + a * f0 /\ b * (g1 + g0) = b * g1 + b * g0
         /\ c * (h1 + h0) = c * h1 + c * h0
    OBVIOUS
  <2>16. PICK l0 \in Int, l1 \in Int, m0 \in Int, m1 \in Int, n0 \in Int, n1 \in Int :
           /\ l0 = a * f0 /\ l1 = a * f1 /\ m0 = b * g0 /\ m1 = b * g1
           /\ n0 = c * h0 /\ n1 = c * h1
    OBVIOUS
  <2> QED BY <2>12, <2>13, <2>14, <2>15, <2>16
<1>2. Holds(s)
  BY <1>1
<1> QED BY <1>2

\* Its sum stays below as well.
LEMMA SumStaysBelow ==
    ASSUME NEW S, IsFiniteSet(S), NEW s \in SUBSET S, NEW e \in [S -> Int], NEW f \in [S -> Int],
           StaysBelow(e, f, s)
    PROVE  SumFunctionOnSet(e, s) <= SumFunctionOnSet(f, s)
<1> DEFINE B == {t \in SUBSET s : ~ (SumFunctionOnSet(e, t) <= SumFunctionOnSet(f, t))}
<1>1. B = {}
  <2>1. SUFFICES ASSUME B # {} PROVE FALSE
    OBVIOUS
  <2>2. B \in SUBSET SUBSET S
    OBVIOUS
  <2> HIDE DEF B
  <2>3. PICK t \in B : \A x \in t : t \ {x} \notin B
    BY Zenon, <2>1, <2>2, SmallestSet
  <2> USE DEF B
  <2>4. /\ t \in SUBSET s /\ t \in SUBSET S
        /\ ~ (SumFunctionOnSet(e, t) <= SumFunctionOnSet(f, t))
    OBVIOUS
  <2>5. SumFunctionOnSet(e, {}) = 0 /\ SumFunctionOnSet(f, {}) = 0
    BY Zenon, <2>4, SumIsInteger
  <2>6. PICK x \in t : x \in s /\ x \in S
    BY <2>4, <2>5
  <2>7. PICK r \in SUBSET S : r = t \ {x} /\ r \in SUBSET s
    BY <2>4
  <2>8. SumFunctionOnSet(e, r) <= SumFunctionOnSet(f, r)
    BY <2>3, <2>7
  <2>9. /\ SumFunctionOnSet(e, t) = e[x] + SumFunctionOnSet(e, r)
        /\ SumFunctionOnSet(f, t) = f[x] + SumFunctionOnSet(f, r)
    BY <2>4, <2>7, SumTakes
  <2>10. e[x] <= f[x]
    BY <2>6 DEF StaysBelow
  <2>11. /\ SumFunctionOnSet(e, r) \in Int /\ SumFunctionOnSet(f, r) \in Int
         /\ e[x] \in Int /\ f[x] \in Int
    BY <2>6, SumIsInteger
  <2> QED BY <2>4, <2>8, <2>9, <2>10, <2>11
<1> QED BY <1>1

\* Functions that agree on a set have the same sum over it.
LEMMA SumAgrees ==
    ASSUME NEW S, IsFiniteSet(S), NEW R, IsFiniteSet(R), NEW s \in SUBSET S, s \in SUBSET R,
           NEW f \in [S -> Int], NEW g \in [R -> Int], \A x \in s : f[x] = g[x]
    PROVE  SumFunctionOnSet(f, s) = SumFunctionOnSet(g, s)
<1> DEFINE B == {t \in SUBSET s : SumFunctionOnSet(f, t) # SumFunctionOnSet(g, t)}
<1>1. B = {}
  <2>1. SUFFICES ASSUME B # {} PROVE FALSE
    OBVIOUS
  <2>2. B \in SUBSET SUBSET S
    OBVIOUS
  <2> HIDE DEF B
  <2>3. PICK t \in B : \A x \in t : t \ {x} \notin B
    BY Zenon, <2>1, <2>2, SmallestSet
  <2> USE DEF B
  <2>4. t \in SUBSET s /\ t \in SUBSET S /\ t \in SUBSET R
    OBVIOUS
  <2>5. SumFunctionOnSet(f, {}) = 0 /\ SumFunctionOnSet(g, {}) = 0
    BY Zenon, <2>4, SumIsInteger
  <2>6. PICK x \in t : f[x] = g[x]
    BY <2>4, <2>5
  <2>7. t \ {x} \in SUBSET s /\ SumFunctionOnSet(f, t \ {x}) = SumFunctionOnSet(g, t \ {x})
    BY <2>3, <2>4, <2>6
  <2>8. SumFunctionOnSet(f, t) = f[x] + SumFunctionOnSet(f, t \ {x})
    BY <2>4, <2>6, SumTakes
  <2>9. SumFunctionOnSet(g, t) = g[x] + SumFunctionOnSet(g, t \ {x})
    BY <2>4, <2>6, SumTakes
  <2> QED BY <2>6, <2>7, <2>8, <2>9
<1> QED BY <1>1

\* A sum is the sum over a part and the sum over the rest.
LEMMA SumSplits ==
    ASSUME NEW S, IsFiniteSet(S), NEW f \in [S -> Int], NEW s \in SUBSET S
    PROVE  SumFunctionOnSet(f, S) = SumFunctionOnSet(f, s) + SumFunctionOnSet(f, S \ s)
<1> DEFINE B == {t \in SUBSET S : s \subseteq t
                   /\ SumFunctionOnSet(f, t) # SumFunctionOnSet(f, s) + SumFunctionOnSet(f, t \ s)}
<1>1. B = {}
  <2>1. SUFFICES ASSUME B # {} PROVE FALSE
    OBVIOUS
  <2>2. B \in SUBSET SUBSET S
    OBVIOUS
  <2> HIDE DEF B
  <2>3. PICK t \in B : \A x \in t : t \ {x} \notin B
    BY Zenon, <2>1, <2>2, SmallestSet
  <2> USE DEF B
  <2>4. /\ t \in SUBSET S /\ s \subseteq t
        /\ SumFunctionOnSet(f, t) # SumFunctionOnSet(f, s) + SumFunctionOnSet(f, t \ s)
    OBVIOUS
  <2>5. SumFunctionOnSet(f, {}) = 0 /\ SumFunctionOnSet(f, s) \in Int
    BY Zenon, SumIsInteger
  <2>6. PICK x \in t : x \notin s
    <3>1. t # s
      <4>1. s \ s = {}
        OBVIOUS
      <4> QED BY <2>4, <2>5, <4>1
    <3> QED BY <2>4, <3>1
  <2>7. PICK u \in SUBSET S, v \in SUBSET S : /\ u = t \ {x} /\ s \subseteq u
                                              /\ v = t \ s /\ x \in v /\ u \ s = v \ {x}
    <3>1. (t \ {x}) \ s = (t \ s) \ {x}
      OBVIOUS
    <3> QED BY <2>4, <2>6, <3>1
  <2>8. SumFunctionOnSet(f, u) = SumFunctionOnSet(f, s) + SumFunctionOnSet(f, v \ {x})
    BY <2>3, <2>6, <2>7
  <2>9. SumFunctionOnSet(f, t) = f[x] + SumFunctionOnSet(f, u)
    BY <2>4, <2>6, <2>7, SumTakes
  <2>10. SumFunctionOnSet(f, v) = f[x] + SumFunctionOnSet(f, v \ {x})
    BY <2>7, SumTakes
  <2>11. f[x] \in Int /\ SumFunctionOnSet(f, v \ {x}) \in Int
    <3>1. v \ {x} \in SUBSET S /\ x \in S
      BY <2>7
    <3> QED BY <3>1, SumIsInteger
  <2> QED BY <2>4, <2>5, <2>7, <2>8, <2>9, <2>10, <2>11
<1> QED BY <1>1

-----------------------------------------------------------------------------
(* PreciseUnitMath.                                                         *)

\* The quotient by a positive divisor is the floor of the division.
LEMMA DivBounds ==
    ASSUME NEW a \in Int, NEW b \in Int, b > 0
    PROVE  /\ a \div b \in Int
           /\ b * (a \div b) <= a
           /\ a < (b * (a \div b)) + b
OBVIOUS

\* The floor is unique.
LEMMA DivUnique ==
    ASSUME NEW a \in Int, NEW b \in Int, b > 0, NEW q \in Int,
           b * q <= a, a < (b * q) + b
    PROVE  a \div b = q
OBVIOUS

\* A remainder lies between zero and its divisor.
LEMMA ModBounds ==
    ASSUME NEW a \in Int, NEW b \in Int, b > 0
    PROVE  a % b \in 0..(b - 1) /\ a = (b * (a \div b)) + (a % b)
OBVIOUS

\* divDown (truncated quotient corrected when the signs differ) rounds toward
\* minus infinity.
LEMMA DivDownIsFloor ==
    ASSUME NEW a \in Int, NEW b \in Int, b > 0
    PROVE  divDown(a, b) = a \div b
<1>1. CASE a >= 0
  BY <1>1 DEF divDown, Quotient, abs
<1>2. CASE a < 0
  <2>1. -a \in Int /\ ~((a < 0) = (b < 0)) /\ abs(a) = -a /\ abs(b) = b
    BY <1>2 DEF abs
  <2>2. PICK q \in Int : q = (-a) \div b
    BY <2>1, DivBounds
  <2>3. (-a) % b \in 0..(b - 1) /\ -a = (b * q) + ((-a) % b)
    BY <2>1, <2>2, ModBounds
  <2>4. CASE (-a) % b = 0
    BY <2>1, <2>2, <2>3, <2>4, DivUnique DEF divDown, Quotient
  <2>5. CASE (-a) % b # 0
    <3>1. divDown(a, b) = -q - 1
      BY <2>1, <2>2, <2>5 DEF divDown, Quotient
    <3>2. PICK r \in 1..(b - 1) : -a = (b * q) + r
      BY <2>3, <2>5
    <3>3. b * (-q - 1) = -(b * q) - b
      OBVIOUS
    <3>4. b * (-q - 1) <= a /\ a < (b * (-q - 1)) + b
      BY <3>2, <3>3
    <3> QED BY <3>1, <3>4, DivUnique
  <2> QED BY <2>4, <2>5
<1> QED BY <1>1, <1>2

\* Virtual to real: the sign of a negative unit survives, zero stays zero, a
\* positive unit may round to zero.
LEMMA ConservativeMulSign ==
    ASSUME NEW v \in Int, NEW m \in Int, m > 0
    PROVE  /\ conservativePreciseMul(v, m) \in Int
           /\ v < 0 => conservativePreciseMul(v, m) < 0
           /\ v = 0 => conservativePreciseMul(v, m) = 0
           /\ v > 0 => conservativePreciseMul(v, m) >= 0
<1>1. v * m \in Int /\ PRECISE_UNIT \in Int /\ PRECISE_UNIT > 0
  BY PreciseUnitAssumption
<1>2. conservativePreciseMul(v, m) = (v * m) \div PRECISE_UNIT
  BY <1>1, DivDownIsFloor DEF conservativePreciseMul
<1>3. /\ v < 0 => v * m < 0
      /\ v = 0 => v * m = 0
      /\ v > 0 => v * m > 0
  OBVIOUS
<1>4. PICK p \in Int : p = v * m
  BY <1>1
<1>5. /\ p \div PRECISE_UNIT \in Int
      /\ p < 0 => p \div PRECISE_UNIT < 0
      /\ p = 0 => p \div PRECISE_UNIT = 0
      /\ p > 0 => p \div PRECISE_UNIT >= 0
  BY <1>1, <1>4
<1> QED BY <1>2, <1>3, <1>4, <1>5

\* A larger unit has a real unit at least as large.
LEMMA ConservativeMulMonotone ==
    ASSUME NEW v \in Int, NEW w \in Int, NEW m \in Int, m > 0, v <= w
    PROVE  conservativePreciseMul(v, m) <= conservativePreciseMul(w, m)
<1>1. PRECISE_UNIT \in Int /\ PRECISE_UNIT > 0
  BY PreciseUnitAssumption
<1>2. PICK x \in Int, y \in Int : x = v * m /\ y = w * m
  OBVIOUS
<1>3. x <= y
  BY <1>2
<1>4. x \div PRECISE_UNIT <= y \div PRECISE_UNIT
  BY <1>1, <1>3
<1> QED BY <1>1, <1>2, <1>4, DivDownIsFloor DEF conservativePreciseMul

\* A positive result needs a positive product.
LEMMA ConservativeMulPositive ==
    ASSUME NEW v \in Int, NEW m \in Int, v > 0, conservativePreciseMul(v, m) > 0
    PROVE  m > 0
<1>1. PRECISE_UNIT \in Int /\ PRECISE_UNIT > 0
  BY PreciseUnitAssumption
<1>2. PICK x \in Int : x = v * m
  OBVIOUS
<1>3. x \div PRECISE_UNIT > 0
  BY <1>1, <1>2, DivDownIsFloor DEF conservativePreciseMul
<1>4. x > 0
  BY <1>1, <1>3
<1> QED BY <1>2, <1>4

\* Real to virtual.
LEMMA ConservativeDivSign ==
    ASSUME NEW r \in Int, NEW m \in Int, m > 0
    PROVE  /\ conservativePreciseDiv(r, m) \in Int
           /\ r < 0 => conservativePreciseDiv(r, m) < 0
           /\ r = 0 => conservativePreciseDiv(r, m) = 0
           /\ r > 0 => conservativePreciseDiv(r, m) >= 0
<1>1. PRECISE_UNIT \in Int /\ PRECISE_UNIT > 0
  BY PreciseUnitAssumption
<1>2. PICK p \in Int : p = r * PRECISE_UNIT
  BY <1>1
<1>3. conservativePreciseDiv(r, m) = p \div m
  BY <1>2, DivDownIsFloor DEF conservativePreciseDiv
<1>4. /\ r < 0 => p < 0
      /\ r = 0 => p = 0
      /\ r > 0 => p > 0
  BY <1>1, <1>2
<1>5. /\ p \div m \in Int
      /\ p < 0 => p \div m < 0
      /\ p = 0 => p \div m = 0
      /\ p > 0 => p \div m >= 0
  OBVIOUS
<1> QED BY <1>3, <1>4, <1>5

\* The round trip of editDefaultPositionUnit and getDefaultPositionRealUnit
\* (and of their external counterparts) never credits the set more, nor a debt
\* less, than the module wrote.
THEOREM RoundTripConservative ==
    ASSUME NEW r \in Int, NEW m \in Int, m > 0
    PROVE  conservativePreciseMul(conservativePreciseDiv(r, m), m) <= r
<1>1. PRECISE_UNIT \in Int /\ PRECISE_UNIT > 0
  BY PreciseUnitAssumption
<1>2. PICK p \in Int : p = r * PRECISE_UNIT
  BY <1>1
<1>3. PICK v \in Int : v = p \div m
  BY DivBounds
<1>4. conservativePreciseDiv(r, m) = v
  BY <1>2, <1>3, DivDownIsFloor DEF conservativePreciseDiv
<1>5. m * v <= p
  BY <1>3, DivBounds
<1>6. PICK x \in Int : x = v * m
  OBVIOUS
<1>7. x <= r * PRECISE_UNIT
  BY <1>2, <1>5, <1>6
<1>8. PRECISE_UNIT * (x \div PRECISE_UNIT) <= x /\ x \div PRECISE_UNIT \in Int
  BY <1>1, DivBounds
<1>9. x \div PRECISE_UNIT <= r
  BY <1>1, <1>7, <1>8
<1> QED BY <1>1, <1>4, <1>6, <1>9, DivDownIsFloor DEF conservativePreciseMul

\* Nor does it lose more than one, as long as the multiplier has not been raised above 100%.
LEMMA RoundTripLosesOne ==
    ASSUME NEW r \in Int, NEW m \in Int, m > 0, m <= PRECISE_UNIT
    PROVE  conservativePreciseMul(conservativePreciseDiv(r, m), m) >= r - 1
<1>1. PRECISE_UNIT \in Int /\ PRECISE_UNIT > 0
  BY PreciseUnitAssumption
<1>2. PICK p \in Int : p = r * PRECISE_UNIT
  BY <1>1
<1>3. PICK v \in Int : v = p \div m
  BY DivBounds
<1>4. conservativePreciseDiv(r, m) = v
  BY <1>2, <1>3, DivDownIsFloor DEF conservativePreciseDiv
<1>5. PICK x \in Int : x = v * m
  OBVIOUS
<1>6. p < x + m
  BY <1>3, <1>5, DivBounds
<1>7. (r - 1) * PRECISE_UNIT = p - PRECISE_UNIT
  BY <1>1, <1>2
<1>8. PICK q \in Int : q = x \div PRECISE_UNIT
  BY <1>1, DivBounds
<1>9. x < PRECISE_UNIT * (q + 1)
  BY <1>1, <1>8, DivBounds
<1>10. (r - 1) * PRECISE_UNIT < (q + 1) * PRECISE_UNIT
  <2>1. PICK y \in Int, z \in Int : y = (r - 1) * PRECISE_UNIT /\ z = PRECISE_UNIT * (q + 1)
    BY <1>1
  <2>2. y < z
    BY <1>1, <1>6, <1>7, <1>9, <2>1
  <2> QED BY <1>1, <2>1, <2>2
<1>11. r - 1 < q + 1
  BY <1>1, <1>10
<1>12. q >= r - 1
  BY <1>11
<1> QED BY <1>1, <1>4, <1>5, <1>8, <1>12, DivDownIsFloor DEF conservativePreciseMul

-----------------------------------------------------------------------------
(* AddressArrayUtils: storage arrays without duplicates behave as sets.     *)

\* Pushing an element that is not there keeps the array duplicate-free.
LEMMA AppendFacts ==
    ASSUME NEW S, NEW A \in Seq(S), NEW a \in S
    PROVE  /\ Append(A, a) \in Seq(S)
           /\ \A x : contains(Append(A, a), x) <=> contains(A, x) \/ x = a
           /\ ~ hasDuplicate(A) /\ ~ contains(A, a) => ~ hasDuplicate(Append(A, a))
<1>1. Append(A, a) \in Seq(S)
  OBVIOUS
<1>2. /\ Len(Append(A, a)) = Len(A) + 1
      /\ DOMAIN Append(A, a) = 1..(Len(A) + 1)
      /\ DOMAIN A = 1..Len(A)
      /\ \A i \in 1..Len(A) : Append(A, a)[i] = A[i]
      /\ Append(A, a)[Len(A) + 1] = a
      /\ Len(A) \in Nat
  OBVIOUS
<1>3. ASSUME NEW x PROVE contains(Append(A, a), x) <=> contains(A, x) \/ x = a
  <2>1. contains(Append(A, a), x) <=> \E i \in 1..(Len(A) + 1) : Append(A, a)[i] = x
    BY <1>2 DEF contains, Range
  <2>2. contains(A, x) <=> \E i \in 1..Len(A) : A[i] = x
    BY <1>2 DEF contains, Range
  <2> QED BY <1>2, <2>1, <2>2
<1>4. ASSUME ~ hasDuplicate(A), ~ contains(A, a) PROVE ~ hasDuplicate(Append(A, a))
  <2>1. \A i, j \in 1..Len(A) : A[i] = A[j] => i = j
    BY <1>2, <1>4 DEF hasDuplicate, IsInjective
  <2>2. \A i \in 1..Len(A) : A[i] # a
    BY <1>2, <1>4 DEF contains, Range
  <2>3. \A i, j \in 1..(Len(A) + 1) : Append(A, a)[i] = Append(A, a)[j] => i = j
    BY <1>2, <2>1, <2>2
  <2> QED BY <1>2, <2>3 DEF hasDuplicate, IsInjective
<1> QED BY <1>1, <1>3, <1>4

\* indexOf finds the element.
LEMMA IndexOfFound ==
    ASSUME NEW S, NEW A \in Seq(S), NEW a, contains(A, a), ~ hasDuplicate(A)
    PROVE  indexOf(A, a) \in 1..Len(A) /\ A[indexOf(A, a)] = a
<1>1. DOMAIN A = 1..Len(A) /\ Len(A) \in Nat
  OBVIOUS
<1>2. PICK i \in 1..Len(A) : A[i] = a
  BY <1>1 DEF contains, Range
<1>3. \A j \in 1..(i - 1) : A[j] # a
  BY <1>1, <1>2 DEF hasDuplicate, IsInjective
<1>4. \E k \in DOMAIN A : A[k] = a /\ \A j \in 1..(k - 1) : A[j] # a
  BY <1>1, <1>2, <1>3
<1> QED BY <1>1, <1>4 DEF indexOf

\* Swap-with-last-and-pop removes the element and nothing else.
LEMMA RemoveStorageFacts ==
    ASSUME NEW S, NEW A \in Seq(S), NEW a, contains(A, a), ~ hasDuplicate(A)
    PROVE  /\ removeStorage(A, a) \in Seq(S)
           /\ Len(removeStorage(A, a)) = Len(A) - 1
           /\ \A x : contains(removeStorage(A, a), x) <=> contains(A, x) /\ x # a
           /\ ~ hasDuplicate(removeStorage(A, a))
<1> DEFINE n == Len(A)
           R == removeStorage(A, a)
<1>1. PICK d \in 1..n : d = indexOf(A, a) /\ A[d] = a
  BY IndexOfFound
<1>2. n \in Nat /\ n >= 1 /\ DOMAIN A = 1..n /\ \A i \in 1..n : A[i] \in S
  BY <1>1
<1>3. R = [k \in 1..(n - 1) |-> IF k = d THEN A[n] ELSE A[k]]
  BY <1>1 DEF removeStorage
<1>4. \A i, j \in 1..n : A[i] = A[j] => i = j
  BY <1>2 DEF hasDuplicate, IsInjective
<1> HIDE DEF R
<1>5. R \in Seq(S) /\ Len(R) = n - 1 /\ DOMAIN R = 1..(n - 1)
  BY <1>2, <1>3
<1>6. \A k \in 1..(n - 1) : R[k] = IF k = d THEN A[n] ELSE A[k]
  BY <1>3
<1> HIDE DEF n
<1>7. ASSUME NEW x PROVE contains(R, x) <=> contains(A, x) /\ x # a
  <2>1. contains(R, x) <=> \E k \in 1..(n - 1) : R[k] = x
    BY <1>5 DEF contains, Range
  <2>2. contains(A, x) <=> \E k \in 1..n : A[k] = x
    BY <1>2 DEF contains, Range
  <2>3. ASSUME NEW k \in 1..(n - 1), R[k] = x PROVE contains(A, x) /\ x # a
    <3>1. CASE k = d
      BY <1>1, <1>2, <1>4, <1>6, <2>2, <2>3, <3>1
    <3>2. CASE k # d
      BY <1>1, <1>2, <1>4, <1>6, <2>2, <2>3, <3>2
    <3> QED BY <3>1, <3>2
  <2>4. ASSUME NEW k \in 1..n, A[k] = x, x # a PROVE \E l \in 1..(n - 1) : R[l] = x
    <3>1. CASE k = n
      <4>1. d \in 1..(n - 1)
        BY <1>1, <1>2, <2>4, <3>1
      <4> QED BY <1>6, <2>4, <3>1, <4>1
    <3>2. CASE k # n
      BY <1>1, <1>2, <1>6, <2>4, <3>2
    <3> QED BY <3>1, <3>2
  <2> QED BY <2>1, <2>2, <2>3, <2>4
<1>8. \A i, j \in 1..(n - 1) : R[i] = R[j] => i = j
  BY <1>1, <1>2, <1>4, <1>6
<1>9. ~ hasDuplicate(R)
  BY <1>5, <1>8 DEF hasDuplicate, IsInjective
<1> QED BY <1>5, <1>7, <1>9 DEF R, n

-----------------------------------------------------------------------------
(* The rounding helpers of the test suite.                                  *)

\* BigNumber.div of numbers that are not negative rounds down.
LEMMA BnDivOfNat ==
    ASSUME NEW a \in Nat, NEW b \in Nat, b > 0
    PROVE  Tests!bnDiv(a, b) = a \div b
BY DEF Tests!bnDiv, Tests!bnAbs

\* BigNumber.div is SignedSafeMath.div.
LEMMA BnDivIsQuotient ==
    ASSUME NEW a \in Int, NEW b \in Int
    PROVE  Tests!bnDiv(a, b) = Quotient(a, b)
BY DEF Tests!bnDiv, Tests!bnAbs, Quotient, abs

\* What a comparison of products with a positive factor says of the other factors.
LEMMA CancelFactor ==
    ASSUME NEW k \in Int, k > 0, NEW x \in Int, NEW y \in Int, k * x <= k * y
    PROVE  x <= y
OBVIOUS

\* A product with a factor that is not negative keeps the order.
LEMMA KeepOrder ==
    ASSUME NEW k \in Int, k >= 0, NEW x \in Int, NEW y \in Int, x <= y
    PROVE  k * x <= k * y
OBVIOUS

\* A product of numbers that are not negative is not negative.
LEMMA ProductOfNat ==
    ASSUME NEW a \in Nat, NEW b \in Nat
    PROVE  a * b \in Nat /\ (a # 0 /\ b # 0 => a * b > 0)
OBVIOUS

\* mathUtils.preciseMul predicts PreciseUnitMath.preciseMul.
THEOREM MulAgrees ==
    ASSUME NEW a \in Nat, NEW b \in Nat
    PROVE  Tests!preciseMul(a, b) = preciseMul(a, b)
<1>1. PICK p \in Nat : p = a * b
  BY ProductOfNat
<1>2. PRECISE_UNIT \in Nat /\ PRECISE_UNIT > 0
  BY PreciseUnitAssumption
<1>3. Tests!bnDiv(p, PRECISE_UNIT) = p \div PRECISE_UNIT
  BY <1>2, BnDivOfNat
<1> QED BY <1>1, <1>3 DEF Tests!preciseMul, preciseMul

\* mathUtils.preciseMulCeil predicts PreciseUnitMath.preciseMulCeil.
THEOREM MulCeilAgrees ==
    ASSUME NEW a \in Nat, NEW b \in Nat
    PROVE  Tests!preciseMulCeil(a, b) = preciseMulCeil(a, b)
<1>1. CASE a = 0 \/ b = 0
  BY <1>1 DEF Tests!preciseMulCeil, preciseMulCeil
<1>2. CASE a # 0 /\ b # 0
  <2>1. a * b - 1 \in Nat
    BY <1>2, ProductOfNat
  <2>2. Tests!bnDiv(a * b - 1, PRECISE_UNIT) = (a * b - 1) \div PRECISE_UNIT
    BY <2>1, PreciseUnitAssumption, BnDivOfNat
  <2> QED BY <1>2, <2>2 DEF Tests!preciseMulCeil, preciseMulCeil
<1> QED BY <1>1, <1>2

\* mathUtils.preciseDiv predicts PreciseUnitMath.preciseDiv.
THEOREM DivAgrees ==
    ASSUME NEW a \in Nat, NEW b \in Nat, b > 0
    PROVE  Tests!preciseDiv(a, b) = preciseDiv(a, b)
<1>1. Tests!bnDiv(a * PRECISE_UNIT, b) = (a * PRECISE_UNIT) \div b
  BY PreciseUnitAssumption, ProductOfNat, BnDivOfNat
<1> QED BY <1>1 DEF Tests!preciseDiv, preciseDiv

\* mathUtils.preciseDivCeil predicts PreciseUnitMath.preciseDivCeil, except that the
\* contract refuses a divisor of zero.
THEOREM DivCeilAgrees ==
    ASSUME NEW a \in Nat, NEW b \in Nat, b > 0
    PROVE  Tests!preciseDivCeil(a, b) = preciseDivCeil(a, b)
<1>1. CASE a = 0
  BY <1>1 DEF Tests!preciseDivCeil, preciseDivCeil
<1>2. CASE a > 0
  <2>1. a * PRECISE_UNIT - 1 \in Nat
    BY <1>2, PreciseUnitAssumption, ProductOfNat
  <2>2. Tests!bnDiv(a * PRECISE_UNIT - 1, b) = (a * PRECISE_UNIT - 1) \div b
    BY <2>1, BnDivOfNat
  <2> QED BY <1>2, <2>2 DEF Tests!preciseDivCeil, preciseDivCeil
<1> QED BY <1>1, <1>2

\* mathUtils.divDown predicts PreciseUnitMath.divDown for a number of either sign: both are
\* the floor of the division.
THEOREM DivDownAgrees ==
    ASSUME NEW a \in Int, NEW b \in Int, b > 0
    PROVE  Tests!divDown(a, b) = divDown(a, b)
<1>1. CASE a >= 0
  BY <1>1, BnDivIsQuotient DEF Tests!divDown, divDown
<1>2. CASE a < 0
  <2>1. abs(a) = -a /\ abs(b) = b /\ -a \in Int
    BY <1>2 DEF abs
  <2>2. /\ a % b \in 0..(b - 1) /\ a = (b * (a \div b)) + (a % b)
        /\ (-a) % b \in 0..(b - 1) /\ -a = (b * ((-a) \div b)) + ((-a) % b)
    BY <2>1, ModBounds
  <2>3. a % b = 0 <=> (-a) % b = 0
    <3>1. PICK q \in Int, r \in 0..(b - 1) : q = a \div b /\ r = a % b /\ a = (b * q) + r
      BY <2>2, DivBounds
    <3>2. CASE r = 0
      <4>1. b * (-q) = -a
        BY <3>1, <3>2
      <4>2. (-a) \div b = -q
        BY <2>1, <4>1, DivUnique
      <4> QED BY <2>2, <3>1, <3>2, <4>1, <4>2
    <3>3. CASE r # 0
      <4>1. b * (-q - 1) = -(b * q) - b
        OBVIOUS
      <4>2. b * (-q - 1) <= -a /\ -a < (b * (-q - 1)) + b
        BY <3>1, <3>3, <4>1
      <4>3. (-a) \div b = -q - 1
        BY <2>1, <4>2, DivUnique
      <4> QED BY <2>2, <3>1, <3>3, <4>1, <4>3
    <3> QED BY <3>2, <3>3
  <2> QED BY <1>2, <2>1, <2>3, BnDivIsQuotient DEF Tests!divDown, Tests!bnMod, divDown
<1> QED BY <1>1, <1>2

\* mathUtils.preciseMulCeilInt, with which the tests scale debts, rounds away from zero
\* whatever the signs: what it returns is at least the product in size, and exceeds it by
\* less than one.
THEOREM MulCeilIntRoundsAway ==
    ASSUME NEW a \in Int, NEW b \in Int
    PROVE  /\ PRECISE_UNIT * abs(Tests!preciseMulCeilInt(a, b)) >= abs(a * b)
           /\ PRECISE_UNIT * abs(Tests!preciseMulCeilInt(a, b)) < abs(a * b) + PRECISE_UNIT
<1> DEFINE p == a * b
           q == (abs(p) - 1) \div PRECISE_UNIT
<1>1. PRECISE_UNIT \in Int /\ PRECISE_UNIT > 0 /\ p \in Int
  BY PreciseUnitAssumption
<1>2. CASE a = 0 \/ b = 0
  <2>1. p = 0
    BY <1>2
  <2>2. Tests!preciseMulCeilInt(a, b) = 0
    BY <1>2 DEF Tests!preciseMulCeilInt
  <2> QED BY <1>1, <2>1, <2>2 DEF abs
<1>3. CASE a # 0 /\ b # 0
  <2>1. abs(p) \in Int /\ abs(p) > 0
    BY <1>1, <1>3 DEF abs
  <2>2. /\ q \in Int /\ q >= 0 /\ PRECISE_UNIT * q <= abs(p) - 1
        /\ abs(p) - 1 < (PRECISE_UNIT * q) + PRECISE_UNIT
    <3>1. PICK n \in Int : n = abs(p) - 1 /\ n >= 0
      BY <2>1
    <3>2. /\ n \div PRECISE_UNIT \in Int /\ PRECISE_UNIT * (n \div PRECISE_UNIT) <= n
          /\ n < (PRECISE_UNIT * (n \div PRECISE_UNIT)) + PRECISE_UNIT
      BY <1>1, DivBounds
    <3>3. n \div PRECISE_UNIT >= 0
      BY <1>1, <3>1
    <3> QED BY <3>1, <3>2, <3>3
  <2>3. abs(Tests!preciseMulCeilInt(a, b)) = q + 1
    <3>1. CASE (a > 0 /\ b > 0) \/ (a < 0 /\ b < 0)
      <4>1. p > 0 /\ abs(p) = p
        BY <3>1 DEF abs
      <4>2. Tests!bnDiv(p - 1, PRECISE_UNIT) = q
        BY <1>1, <4>1, BnDivOfNat
      <4>3. Tests!preciseMulCeilInt(a, b) = q + 1
        BY <1>3, <3>1, <4>2 DEF Tests!preciseMulCeilInt
      <4> QED BY <2>2, <4>3 DEF abs
    <3>2. CASE ~ ((a > 0 /\ b > 0) \/ (a < 0 /\ b < 0))
      <4>1. p < 0 /\ abs(p) = -p
        BY <1>3, <3>2 DEF abs
      <4>2. Tests!bnDiv(p + 1, PRECISE_UNIT) = -q
        BY <1>1, <2>2, <4>1 DEF Tests!bnDiv, Tests!bnAbs
      <4>3. Tests!preciseMulCeilInt(a, b) = -q - 1
        BY <1>3, <3>2, <4>2 DEF Tests!preciseMulCeilInt
      <4> QED BY <2>2, <4>3 DEF abs
    <3> QED BY <3>1, <3>2
  <2>4. PRECISE_UNIT * (q + 1) = (PRECISE_UNIT * q) + PRECISE_UNIT
    BY <1>1, <2>2
  <2> QED BY <1>1, <2>1, <2>2, <2>3, <2>4
<1> QED BY <1>2, <1>3

-----------------------------------------------------------------------------
(* Position: the invariant.                                                 *)

\* The array of components against the positions stored for them.
ComponentsMatch(p) ==
    /\ ~ hasDuplicate(p.components)
    /\ \A c \in Component :
         isComponent(p, c) <=> p.virtualUnit[c] > 0 \/ hasExternalPosition(p, c)

\* A default unit that is stored can be read back.
DefaultsReadable(p) ==
    \A c \in Component :
        /\ p.virtualUnit[c] >= 0
        /\ p.virtualUnit[c] > 0 => getDefaultPositionRealUnit(p, c) > 0

\* A module is listed exactly while it has a VIRTUAL unit, and such a unit can
\* be read back.  The bare claim about real units is not inductive: a unit
\* that is stored but reads as zero would come back to life under a larger
\* multiplier.  Modules that write units directly are left out.
ExternalsMatch(p) ==
    \A c \in Component :
        /\ ~ hasDuplicate(p.externalPositionModules[c])
        /\ \A m \in Module \ UnitWriter :
             /\ isExternalPositionModule(p, c, m) <=> p.externalVirtualUnit[c][m] # 0
             /\ p.externalVirtualUnit[c][m] # 0 => getExternalPositionRealUnit(p, c, m) # 0

PositionInv(p) ==
    /\ p \in PositionState
    /\ p.positionMultiplier > 0
    /\ ComponentsMatch(p)
    /\ DefaultsReadable(p)
    /\ ExternalsMatch(p)

-----------------------------------------------------------------------------
(* The fields each low-level write leaves behind.                           *)

\* The fields of a position state.
LEMMA PositionFields ==
    ASSUME NEW p \in PositionState
    PROVE  /\ p.components \in Seq(Component)
           /\ p.virtualUnit \in [Component -> Int]
           /\ p.externalPositionModules \in [Component -> Seq(Module)]
           /\ p.externalVirtualUnit \in [Component -> [Module -> Int]]
           /\ p.positionMultiplier \in Int
BY DEF PositionState

\* addComponent appends to the list and touches nothing else.
LEMMA AddComponentFields ==
    ASSUME NEW p \in PositionState, NEW c \in Component
    PROVE  LET q == addComponent(p, c)
           IN  /\ q.components = Append(p.components, c)
               /\ q.virtualUnit = p.virtualUnit
               /\ q.externalPositionModules = p.externalPositionModules
               /\ q.externalVirtualUnit = p.externalVirtualUnit
               /\ q.positionMultiplier = p.positionMultiplier
               /\ q \in PositionState
<1>1. Append(p.components, c) \in Seq(Component)
  BY PositionFields
<1> QED BY <1>1, Zenon DEF addComponent, PositionState

\* removeComponent takes one entry off the list and touches nothing else.
LEMMA RemoveComponentFields ==
    ASSUME NEW p \in PositionState, NEW c \in Component,
           removeStorage(p.components, c) \in Seq(Component)
    PROVE  LET q == removeComponent(p, c)
           IN  /\ q.components = removeStorage(p.components, c)
               /\ q.virtualUnit = p.virtualUnit
               /\ q.externalPositionModules = p.externalPositionModules
               /\ q.externalVirtualUnit = p.externalVirtualUnit
               /\ q.positionMultiplier = p.positionMultiplier
               /\ q \in PositionState
BY Zenon DEF removeComponent, PositionState

\* editDefaultPositionUnit writes one virtual unit.
LEMMA EditDefaultUnitFields ==
    ASSUME NEW p \in PositionState, NEW c \in Component, NEW r,
           convertRealToVirtualUnit(p, r) \in Int
    PROVE  LET q == editDefaultPositionUnit(p, c, r)
           IN  /\ q.components = p.components
               /\ q.virtualUnit = [p.virtualUnit EXCEPT ![c] = convertRealToVirtualUnit(p, r)]
               /\ q.externalPositionModules = p.externalPositionModules
               /\ q.externalVirtualUnit = p.externalVirtualUnit
               /\ q.positionMultiplier = p.positionMultiplier
               /\ q \in PositionState
<1>1. [p.virtualUnit EXCEPT ![c] = convertRealToVirtualUnit(p, r)] \in [Component -> Int]
  BY PositionFields
<1> QED BY <1>1, Zenon DEF editDefaultPositionUnit, PositionState

\* addExternalPositionModule appends to one component's module list.
LEMMA AddExternalModuleFields ==
    ASSUME NEW p \in PositionState, NEW c \in Component, NEW m \in Module
    PROVE  LET q == addExternalPositionModule(p, c, m)
           IN  /\ q.components = p.components
               /\ q.virtualUnit = p.virtualUnit
               /\ q.externalPositionModules =
                    [p.externalPositionModules EXCEPT ![c] = Append(p.externalPositionModules[c], m)]
               /\ q.externalVirtualUnit = p.externalVirtualUnit
               /\ q.positionMultiplier = p.positionMultiplier
               /\ q \in PositionState
<1>1. [p.externalPositionModules EXCEPT ![c] = Append(p.externalPositionModules[c], m)]
        \in [Component -> Seq(Module)]
  BY PositionFields
<1> QED BY <1>1, Zenon DEF addExternalPositionModule, PositionState

\* removeExternalPositionModule takes a module off one list and clears its unit.
LEMMA RemoveExternalModuleFields ==
    ASSUME NEW p \in PositionState, NEW c \in Component, NEW m \in Module,
           removeStorage(p.externalPositionModules[c], m) \in Seq(Module)
    PROVE  LET q == removeExternalPositionModule(p, c, m)
           IN  /\ q.components = p.components
               /\ q.virtualUnit = p.virtualUnit
               /\ q.externalPositionModules =
                    [p.externalPositionModules EXCEPT ![c] = removeStorage(p.externalPositionModules[c], m)]
               /\ q.externalVirtualUnit =
                    [p.externalVirtualUnit EXCEPT ![c] = [p.externalVirtualUnit[c] EXCEPT ![m] = 0]]
               /\ q.positionMultiplier = p.positionMultiplier
               /\ q \in PositionState
<1>1. /\ [p.externalPositionModules EXCEPT ![c] = removeStorage(p.externalPositionModules[c], m)]
           \in [Component -> Seq(Module)]
      /\ [p.externalVirtualUnit EXCEPT ![c] = [p.externalVirtualUnit[c] EXCEPT ![m] = 0]]
           \in [Component -> [Module -> Int]]
  BY PositionFields
<1> QED BY <1>1, Zenon DEF removeExternalPositionModule, PositionState

\* editExternalPositionUnit writes one external virtual unit.
LEMMA EditExternalUnitFields ==
    ASSUME NEW p \in PositionState, NEW c \in Component, NEW m \in Module, NEW r,
           convertRealToVirtualUnit(p, r) \in Int
    PROVE  LET q == editExternalPositionUnit(p, c, m, r)
           IN  /\ q.components = p.components
               /\ q.virtualUnit = p.virtualUnit
               /\ q.externalPositionModules = p.externalPositionModules
               /\ q.externalVirtualUnit =
                    [p.externalVirtualUnit EXCEPT
                        ![c] = [p.externalVirtualUnit[c] EXCEPT
                                   ![m] = convertRealToVirtualUnit(p, r)]]
               /\ q.positionMultiplier = p.positionMultiplier
               /\ q \in PositionState
<1>1. [p.externalVirtualUnit EXCEPT
         ![c] = [p.externalVirtualUnit[c] EXCEPT ![m] = convertRealToVirtualUnit(p, r)]]
           \in [Component -> [Module -> Int]]
  BY PositionFields
<1> QED BY <1>1, Zenon DEF editExternalPositionUnit, PositionState

\* editPositionMultiplier writes the multiplier alone.
LEMMA EditMultiplierFields ==
    ASSUME NEW p \in PositionState, NEW k \in Int
    PROVE  LET q == editPositionMultiplier(p, k)
           IN  /\ q.components = p.components
               /\ q.virtualUnit = p.virtualUnit
               /\ q.externalPositionModules = p.externalPositionModules
               /\ q.externalVirtualUnit = p.externalVirtualUnit
               /\ q.positionMultiplier = k
               /\ q \in PositionState
BY Zenon DEF editPositionMultiplier, PositionState

-----------------------------------------------------------------------------
(* Conversions.                                                             *)

\* Writing a non-negative real unit stores a virtual unit that is zero only if
\* the real one is, and that reads back as positive otherwise.
LEMMA ConvertNonNegative ==
    ASSUME NEW p \in PositionState, p.positionMultiplier > 0,
           NEW r \in Int, r >= 0, convertRealToVirtualUnitOK(p, r)
    PROVE  LET v == convertRealToVirtualUnit(p, r)
           IN  /\ v \in Int /\ v >= 0
               /\ v > 0 <=> r > 0
               /\ v > 0 => convertVirtualToRealUnit(p, v) > 0
<1> DEFINE v == convertRealToVirtualUnit(p, r)
<1>1. p.positionMultiplier \in Int
  BY DEF PositionState
<1>2. v \in Int /\ (r = 0 => v = 0) /\ (r > 0 => v >= 0)
  BY <1>1, ConservativeDivSign DEF convertRealToVirtualUnit
<1>3. r > 0 => v # 0 /\ convertVirtualToRealUnit(p, v) # 0
  BY DEF convertRealToVirtualUnitOK
<1>4. convertVirtualToRealUnit(p, v) \in Int /\ (v > 0 => convertVirtualToRealUnit(p, v) >= 0)
  BY <1>1, <1>2, ConservativeMulSign DEF convertVirtualToRealUnit
<1> HIDE DEF v
<1>5. /\ v \in Int /\ v >= 0
      /\ v > 0 <=> r > 0
      /\ v > 0 => convertVirtualToRealUnit(p, v) > 0
  BY <1>2, <1>3, <1>4
<1> QED BY <1>5 DEF v

\* The same for the signed units of external positions.
LEMMA ConvertSigned ==
    ASSUME NEW p \in PositionState, p.positionMultiplier > 0,
           NEW r \in Int, r # 0, convertRealToVirtualUnitOK(p, r)
    PROVE  LET v == convertRealToVirtualUnit(p, r)
           IN  v \in Int /\ v # 0 /\ convertVirtualToRealUnit(p, v) # 0
<1>1. p.positionMultiplier \in Int
  BY DEF PositionState
<1>2. CASE r > 0
  BY <1>1, <1>2, ConservativeDivSign
     DEF convertRealToVirtualUnit, convertRealToVirtualUnitOK
<1>3. CASE r < 0
  <2>1. convertRealToVirtualUnit(p, r) \in Int /\ convertRealToVirtualUnit(p, r) < 0
    BY <1>1, <1>3, ConservativeDivSign DEF convertRealToVirtualUnit
  <2>2. /\ convertVirtualToRealUnit(p, convertRealToVirtualUnit(p, r)) \in Int
        /\ convertVirtualToRealUnit(p, convertRealToVirtualUnit(p, r)) < 0
    BY <1>1, <2>1, ConservativeMulSign DEF convertVirtualToRealUnit
  <2> QED BY <2>1, <2>2
<1> QED BY <1>2, <1>3

\* On a state that satisfies the invariant the library's question "is there a
\* default position" (over real units) is the question over virtual units.
LEMMA HasDefaultPositionIffStored ==
    ASSUME NEW p, PositionInv(p), NEW c \in Component
    PROVE  /\ p.virtualUnit[c] \in Int
           /\ hasDefaultPosition(p, c) <=> p.virtualUnit[c] > 0
           /\ getDefaultPositionRealUnit(p, c) = 0 <=> p.virtualUnit[c] = 0
<1>1. p.virtualUnit[c] \in Int /\ p.virtualUnit[c] >= 0 /\ p.positionMultiplier \in Int
  BY DEF PositionInv, PositionState, DefaultsReadable
<1>2. /\ getDefaultPositionRealUnit(p, c) \in Int
      /\ p.virtualUnit[c] = 0 => getDefaultPositionRealUnit(p, c) = 0
  BY <1>1, ConservativeMulSign
     DEF PositionInv, getDefaultPositionRealUnit, convertVirtualToRealUnit
<1>3. p.virtualUnit[c] > 0 => getDefaultPositionRealUnit(p, c) > 0
  BY DEF PositionInv, DefaultsReadable
<1> QED BY <1>1, <1>2, <1>3 DEF hasDefaultPosition


-----------------------------------------------------------------------------
(* The operations.                                                          *)

\* The list of components editDefaultPosition leaves behind: c is on it exactly
\* if the new unit is positive or an external position holds it.
LEMMA ComponentsAfterEditDefault ==
    ASSUME NEW p, PositionInv(p), NEW c \in Component, NEW u \in Int, u >= 0,
           editDefaultPositionOK(p, c, u)
    PROVE  \E q \in PositionState :
             /\ editDefaultPosition(p, c, u) = editDefaultPositionUnit(q, c, u)
             /\ ~ hasDuplicate(q.components)
             /\ \A x \in Component :
                  isComponent(q, x) <=> IF x = c THEN u > 0 \/ hasExternalPosition(p, c)
                                        ELSE isComponent(p, x)
             /\ q.virtualUnit = p.virtualUnit
             /\ q.externalPositionModules = p.externalPositionModules
             /\ q.externalVirtualUnit = p.externalVirtualUnit
             /\ q.positionMultiplier = p.positionMultiplier
<1>1. p \in PositionState /\ p.components \in Seq(Component)
  BY PositionFields DEF PositionInv
<1>2. /\ hasDefaultPosition(p, c) <=> p.virtualUnit[c] > 0
      /\ isComponent(p, c) <=> p.virtualUnit[c] > 0 \/ hasExternalPosition(p, c)
      /\ ~ hasDuplicate(p.components)
  BY HasDefaultPositionIffStored DEF PositionInv, ComponentsMatch
<1>3. CASE OpensComponent(p, c, u)
  <2>1. editDefaultPosition(p, c, u) = editDefaultPositionUnit(addComponent(p, c), c, u)
    BY <1>3 DEF editDefaultPosition, OpensComponent, ClosesComponent
  <2>2. ~ contains(p.components, c) /\ u > 0
    BY <1>2, <1>3 DEF OpensComponent, isComponent
  <2>3. /\ ~ hasDuplicate(Append(p.components, c))
        /\ \A x : contains(Append(p.components, c), x) <=> contains(p.components, x) \/ x = c
    BY <1>1, <1>2, <2>2, AppendFacts
  <2>4. /\ addComponent(p, c).components = Append(p.components, c)
        /\ addComponent(p, c).virtualUnit = p.virtualUnit
        /\ addComponent(p, c).externalPositionModules = p.externalPositionModules
        /\ addComponent(p, c).externalVirtualUnit = p.externalVirtualUnit
        /\ addComponent(p, c).positionMultiplier = p.positionMultiplier
        /\ addComponent(p, c) \in PositionState
    BY <1>1, AddComponentFields
  <2>5. \A x \in Component :
          isComponent(addComponent(p, c), x) <=>
            IF x = c THEN u > 0 \/ hasExternalPosition(p, c) ELSE isComponent(p, x)
    BY <2>2, <2>3, <2>4 DEF isComponent
  <2> QED BY <2>1, <2>3, <2>4, <2>5
<1>4. CASE ClosesComponent(p, c, u)
  <2>1. editDefaultPosition(p, c, u) = editDefaultPositionUnit(removeComponent(p, c), c, u)
    BY <1>4 DEF editDefaultPosition, OpensComponent, ClosesComponent
  <2>2. contains(p.components, c)
    BY <1>4 DEF editDefaultPositionOK, removeComponentOK, isComponent
  <2>3. ~ (u > 0) /\ ~ hasExternalPosition(p, c)
    BY <1>4 DEF ClosesComponent
  <2>4. /\ removeStorage(p.components, c) \in Seq(Component)
        /\ ~ hasDuplicate(removeStorage(p.components, c))
        /\ \A x : contains(removeStorage(p.components, c), x) <=> contains(p.components, x) /\ x # c
    BY <1>1, <1>2, <2>2, RemoveStorageFacts
  <2>5. /\ removeComponent(p, c).components = removeStorage(p.components, c)
        /\ removeComponent(p, c).virtualUnit = p.virtualUnit
        /\ removeComponent(p, c).externalPositionModules = p.externalPositionModules
        /\ removeComponent(p, c).externalVirtualUnit = p.externalVirtualUnit
        /\ removeComponent(p, c).positionMultiplier = p.positionMultiplier
        /\ removeComponent(p, c) \in PositionState
    BY <1>1, <2>4, RemoveComponentFields
  <2>6. \A x \in Component :
          isComponent(removeComponent(p, c), x) <=>
            IF x = c THEN u > 0 \/ hasExternalPosition(p, c) ELSE isComponent(p, x)
    BY <2>3, <2>4, <2>5 DEF isComponent
  <2> QED BY <2>1, <2>4, <2>5, <2>6
<1>5. CASE ~ OpensComponent(p, c, u) /\ ~ ClosesComponent(p, c, u)
  <2>1. editDefaultPosition(p, c, u) = editDefaultPositionUnit(p, c, u)
    BY <1>5 DEF editDefaultPosition
  <2>2. isComponent(p, c) <=> u > 0 \/ hasExternalPosition(p, c)
    BY <1>2, <1>5 DEF OpensComponent, ClosesComponent
  <2> QED BY <1>1, <1>2, <2>1, <2>2
<1> QED BY <1>3, <1>4, <1>5

\* Position.editDefaultPosition keeps the invariant of the position storage.
THEOREM EditDefaultPositionKeepsInv ==
    ASSUME NEW p, PositionInv(p), NEW c \in Component, NEW u \in Int, u >= 0,
           editDefaultPositionOK(p, c, u)
    PROVE  PositionInv(editDefaultPosition(p, c, u))
<1>1. PICK q \in PositionState :
        /\ editDefaultPosition(p, c, u) = editDefaultPositionUnit(q, c, u)
        /\ ~ hasDuplicate(q.components)
        /\ \A x \in Component :
             isComponent(q, x) <=> IF x = c THEN u > 0 \/ hasExternalPosition(p, c)
                                   ELSE isComponent(p, x)
        /\ q.virtualUnit = p.virtualUnit
        /\ q.externalPositionModules = p.externalPositionModules
        /\ q.externalVirtualUnit = p.externalVirtualUnit
        /\ q.positionMultiplier = p.positionMultiplier
  BY ComponentsAfterEditDefault
<1> DEFINE v == convertRealToVirtualUnit(p, u)
           r == editDefaultPositionUnit(q, c, u)
<1>2. /\ p \in PositionState /\ p.positionMultiplier > 0
      /\ p.virtualUnit \in [Component -> Int]
  BY PositionFields DEF PositionInv
<1>3. /\ v \in Int /\ v >= 0
      /\ v > 0 <=> u > 0
      /\ v > 0 => convertVirtualToRealUnit(p, v) > 0
  BY <1>2, ConvertNonNegative DEF editDefaultPositionOK
<1>4. convertRealToVirtualUnit(q, u) = v
  BY <1>1 DEF convertRealToVirtualUnit
<1>5. /\ r.components = q.components
      /\ r.virtualUnit = [p.virtualUnit EXCEPT ![c] = v]
      /\ r.externalPositionModules = p.externalPositionModules
      /\ r.externalVirtualUnit = p.externalVirtualUnit
      /\ r.positionMultiplier = p.positionMultiplier
      /\ r \in PositionState
  BY <1>1, <1>3, <1>4, EditDefaultUnitFields
<1> HIDE DEF r, v
<1>6. /\ r.virtualUnit[c] = v
      /\ \A x \in Component : x # c => r.virtualUnit[x] = p.virtualUnit[x]
  BY <1>2, <1>5
<1>7. ComponentsMatch(r)
  BY <1>1, <1>3, <1>5, <1>6
     DEF ComponentsMatch, PositionInv, isComponent, hasExternalPosition
<1>8. DefaultsReadable(r)
  BY <1>3, <1>5, <1>6
     DEF DefaultsReadable, PositionInv, getDefaultPositionRealUnit, convertVirtualToRealUnit
<1>9. ExternalsMatch(r)
  BY <1>5 DEF ExternalsMatch, PositionInv, isExternalPositionModule,
              getExternalPositionRealUnit, convertVirtualToRealUnit
<1> QED BY <1>1, <1>2, <1>5, <1>7, <1>8, <1>9 DEF PositionInv, r

\* The units that the scan for the smallest one compares.
LEMMA TrackedUnitsPositive ==
    ASSUME NEW p, PositionInv(p)
    PROVE  TrackedVirtualUnits(p) \ {0} \subseteq {n \in Int : n > 0}
<1>1. /\ p \in PositionState
      /\ p.components \in Seq(Component)
      /\ p.virtualUnit \in [Component -> Int]
      /\ p.externalPositionModules \in [Component -> Seq(Module)]
      /\ p.externalVirtualUnit \in [Component -> [Module -> Int]]
  BY PositionFields DEF PositionInv
<1>2. ASSUME NEW c \in Range(p.components) PROVE c \in Component
  BY <1>1 DEF Range
<1>3. ASSUME NEW c \in Range(p.components), NEW m \in Range(p.externalPositionModules[c])
      PROVE  m \in Module
  BY <1>1, <1>2 DEF Range
<1>4. ASSUME NEW c \in Range(p.components)
      PROVE  p.virtualUnit[c] \in Int /\ p.virtualUnit[c] >= 0
  BY <1>1, <1>2 DEF PositionInv, DefaultsReadable
<1>5. ASSUME NEW c \in Range(p.components), NEW m \in Range(p.externalPositionModules[c])
      PROVE  abs(p.externalVirtualUnit[c][m]) \in Int /\ abs(p.externalVirtualUnit[c][m]) >= 0
  BY <1>1, <1>2, <1>3 DEF abs
<1>6. \A t \in TrackedVirtualUnits(p) : t \in Int /\ t >= 0
  BY <1>4, <1>5 DEF TrackedVirtualUnits
<1> QED BY <1>6

\* A multiplier above one that passes passes as well: what is kept under the smaller is kept
\* under the larger.
LEMMA LargerMultiplierPasses ==
    ASSUME NEW p, PositionInv(p), NEW k \in Int, NEW l \in Int, k <= l,
           validateNewMultiplier(p, k)
    PROVE  validateNewMultiplier(p, l)
<1> DEFINE T == TrackedVirtualUnits(p) \ {0}
<1>1. PICK low \in T : (\A v \in T : low <= v) /\ conservativePreciseMul(low, k) > 0
  BY DEF validateNewMultiplier
<1>2. low \in Int /\ low > 0
  BY TrackedUnitsPositive
<1>3. PRECISE_UNIT \in Int /\ PRECISE_UNIT > 0
  BY PreciseUnitAssumption
<1>4. PICK x \in Int, y \in Int : x = low * k /\ y = low * l
  BY <1>2
<1>5. x <= y
  BY <1>2, <1>4
<1>6. x \div PRECISE_UNIT > 0 /\ conservativePreciseMul(low, l) = y \div PRECISE_UNIT
  BY <1>1, <1>3, <1>4, DivDownIsFloor DEF conservativePreciseMul
<1>7. x \div PRECISE_UNIT <= y \div PRECISE_UNIT
  BY <1>3, <1>5
<1>8. x \div PRECISE_UNIT \in Int /\ y \div PRECISE_UNIT \in Int
  BY <1>3, DivBounds
<1> QED BY <1>1, <1>6, <1>7, <1>8 DEF validateNewMultiplier

\* SetToken.editPositionMultiplier keeps the invariant: the check of the
\* smallest tracked unit covers every position, so none reads as zero after it.
THEOREM EditPositionMultiplierKeepsInv ==
    ASSUME NEW p, PositionInv(p), NEW k \in Int, validateNewMultiplier(p, k)
    PROVE  PositionInv(editPositionMultiplier(p, k))
<1> DEFINE r == editPositionMultiplier(p, k)
           T == TrackedVirtualUnits(p) \ {0}
<1>1. /\ p \in PositionState /\ p.positionMultiplier > 0
      /\ p.components \in Seq(Component)
      /\ p.virtualUnit \in [Component -> Int]
      /\ p.externalPositionModules \in [Component -> Seq(Module)]
      /\ p.externalVirtualUnit \in [Component -> [Module -> Int]]
  BY PositionFields DEF PositionInv
<1>2. /\ r.components = p.components
      /\ r.virtualUnit = p.virtualUnit
      /\ r.externalPositionModules = p.externalPositionModules
      /\ r.externalVirtualUnit = p.externalVirtualUnit
      /\ r.positionMultiplier = k
      /\ r \in PositionState
  BY <1>1, EditMultiplierFields
<1> HIDE DEF r
<1>3. PICK low \in T : (\A v \in T : low <= v) /\ conservativePreciseMul(low, k) > 0
  BY DEF validateNewMultiplier
<1>4. ASSUME NEW c \in Component, p.virtualUnit[c] > 0
      PROVE  p.virtualUnit[c] \in T
  <2>1. isComponent(p, c)
    BY <1>4 DEF PositionInv, ComponentsMatch
  <2>2. c \in Range(p.components)
    BY <2>1 DEF isComponent, contains
  <2> QED BY <1>1, <1>4, <2>2 DEF TrackedVirtualUnits
<1>5. ASSUME NEW c \in Component, NEW m \in Module \ UnitWriter, p.externalVirtualUnit[c][m] # 0
      PROVE  abs(p.externalVirtualUnit[c][m]) \in T
  <2>1. isExternalPositionModule(p, c, m)
    BY <1>5 DEF PositionInv, ExternalsMatch
  <2>2. m \in Range(p.externalPositionModules[c])
    BY <2>1 DEF isExternalPositionModule, contains
  <2>3. hasExternalPosition(p, c)
    BY <2>2 DEF hasExternalPosition, Range
  <2>4. c \in Range(p.components)
    BY <2>3 DEF PositionInv, ComponentsMatch, isComponent, contains
  <2>5. abs(p.externalVirtualUnit[c][m]) # 0
    BY <1>1, <1>5 DEF abs
  <2>6. abs(p.externalVirtualUnit[c][m]) \in TrackedVirtualUnits(p)
    BY <2>2, <2>4 DEF TrackedVirtualUnits
  <2> QED BY <2>5, <2>6
<1>6. T \subseteq {n \in Int : n > 0}
  BY TrackedUnitsPositive
<1> HIDE DEF T
<1>7. low \in Int /\ low > 0 /\ k > 0
  BY <1>3, <1>6, ConservativeMulPositive
<1>8. ASSUME NEW v \in T PROVE conservativePreciseMul(v, k) > 0
  <2>1. v \in Int /\ v > 0 /\ low <= v
    BY <1>3, <1>6
  <2>2. /\ conservativePreciseMul(v, k) \in Int
        /\ conservativePreciseMul(low, k) \in Int
        /\ conservativePreciseMul(low, k) <= conservativePreciseMul(v, k)
    BY <1>7, <2>1, ConservativeMulMonotone, ConservativeMulSign
  <2> QED BY <1>3, <2>2
<1>9. ComponentsMatch(r)
  BY <1>2 DEF ComponentsMatch, PositionInv, isComponent, hasExternalPosition
<1>10. DefaultsReadable(r)
  BY <1>2, <1>4, <1>8
     DEF DefaultsReadable, PositionInv, getDefaultPositionRealUnit, convertVirtualToRealUnit
<1>11. ExternalsMatch(r)
  <2>1. ASSUME NEW c \in Component, NEW m \in Module \ UnitWriter, p.externalVirtualUnit[c][m] # 0
        PROVE  conservativePreciseMul(p.externalVirtualUnit[c][m], k) # 0
    <3>1. p.externalVirtualUnit[c][m] \in Int
      BY <1>1
    <3>2. CASE p.externalVirtualUnit[c][m] > 0
      BY <1>5, <1>8, <2>1, <3>1, <3>2 DEF abs
    <3>3. CASE p.externalVirtualUnit[c][m] < 0
      BY <1>7, <3>1, <3>3, ConservativeMulSign
    <3> QED BY <2>1, <3>1, <3>2, <3>3
  <2> QED BY <1>2, <2>1 DEF ExternalsMatch, PositionInv, isExternalPositionModule,
                            getExternalPositionRealUnit, convertVirtualToRealUnit
<1> QED BY <1>2, <1>7, <1>9, <1>10, <1>11 DEF PositionInv, r

\* A write of a non-zero unit to the external position of module m lists the
\* component and the module where they were not listed.
LEMMA OpenExternalPositionKeepsInv ==
    ASSUME NEW p, PositionInv(p), NEW c \in Component, NEW m \in Module,
           NEW u \in Int, u # 0, editExternalPositionOK(p, c, m, u)
    PROVE  PositionInv(editExternalPosition(p, c, m, u))
<1> DEFINE q == IF isComponent(p, c) THEN p ELSE addComponent(p, c)
           r == IF isExternalPositionModule(q, c, m) THEN q
                ELSE addExternalPositionModule(q, c, m)
           v == convertRealToVirtualUnit(p, u)
           s == editExternalPositionUnit(r, c, m, u)
<1>1. editExternalPosition(p, c, m, u) = s
  BY DEF editExternalPosition
<1>2. /\ p \in PositionState /\ p.positionMultiplier > 0
      /\ p.components \in Seq(Component) /\ ~ hasDuplicate(p.components)
      /\ p.externalPositionModules \in [Component -> Seq(Module)]
      /\ p.externalVirtualUnit \in [Component -> [Module -> Int]]
      /\ ~ hasDuplicate(p.externalPositionModules[c])
  BY PositionFields DEF PositionInv, ComponentsMatch, ExternalsMatch
<1>3. v \in Int /\ v # 0 /\ convertVirtualToRealUnit(p, v) # 0
  BY <1>2, ConvertSigned DEF editExternalPositionOK
<1>4. /\ q \in PositionState
      /\ q.virtualUnit = p.virtualUnit
      /\ q.externalPositionModules = p.externalPositionModules
      /\ q.externalVirtualUnit = p.externalVirtualUnit
      /\ q.positionMultiplier = p.positionMultiplier
      /\ ~ hasDuplicate(q.components)
      /\ \A x : contains(q.components, x) <=> contains(p.components, x) \/ x = c
  <2>1. CASE isComponent(p, c)
    <3>1. q = p
      BY <2>1
    <3> QED BY <1>2, <2>1, <3>1 DEF isComponent
  <2>2. CASE ~ isComponent(p, c)
    <3>1. q = addComponent(p, c)
      BY <2>2
    <3>2. /\ ~ hasDuplicate(Append(p.components, c))
          /\ \A x : contains(Append(p.components, c), x) <=> contains(p.components, x) \/ x = c
      BY <1>2, <2>2, AppendFacts DEF isComponent
    <3> HIDE DEF q
    <3> QED BY <1>2, <3>1, <3>2, AddComponentFields
  <2> QED BY <2>1, <2>2
<1> HIDE DEF q
<1>5. PICK L \in Seq(Module) :
        /\ r \in PositionState
        /\ r.components = q.components
        /\ r.virtualUnit = p.virtualUnit
        /\ r.externalPositionModules = [p.externalPositionModules EXCEPT ![c] = L]
        /\ r.externalVirtualUnit = p.externalVirtualUnit
        /\ r.positionMultiplier = p.positionMultiplier
        /\ ~ hasDuplicate(L)
        /\ \A x : contains(L, x) <=> contains(p.externalPositionModules[c], x) \/ x = m
  <2> DEFINE E == p.externalPositionModules[c]
  <2>1. CASE isExternalPositionModule(q, c, m)
    <3>1. r = q
      BY <2>1
    <3>2. contains(E, m)
      BY <1>4, <2>1 DEF isExternalPositionModule
    <3>3. E \in Seq(Module) /\ p.externalPositionModules = [p.externalPositionModules EXCEPT ![c] = E]
      BY <1>2
    <3> HIDE DEF r
    <3> QED BY <1>2, <1>4, <3>1, <3>2, <3>3
  <2>2. CASE ~ isExternalPositionModule(q, c, m)
    <3>1. r = addExternalPositionModule(q, c, m)
      BY <2>2
    <3>2. E \in Seq(Module) /\ ~ contains(E, m)
      BY <1>2, <1>4, <2>2 DEF isExternalPositionModule
    <3>3. /\ Append(E, m) \in Seq(Module)
          /\ ~ hasDuplicate(Append(E, m))
          /\ \A x : contains(Append(E, m), x) <=> contains(E, x) \/ x = m
      BY <1>2, <3>2, AppendFacts
    <3>4. /\ r \in PositionState
          /\ r.components = q.components
          /\ r.virtualUnit = p.virtualUnit
          /\ r.externalPositionModules = [p.externalPositionModules EXCEPT ![c] = Append(E, m)]
          /\ r.externalVirtualUnit = p.externalVirtualUnit
          /\ r.positionMultiplier = p.positionMultiplier
      BY <1>4, <3>1, AddExternalModuleFields
    <3> HIDE DEF r
    <3> QED BY <3>3, <3>4
  <2> QED BY <2>1, <2>2
<1> HIDE DEF r
<1>6. convertRealToVirtualUnit(r, u) = v
  BY <1>5 DEF convertRealToVirtualUnit
<1>7. /\ s \in PositionState
      /\ s.components = q.components
      /\ s.virtualUnit = p.virtualUnit
      /\ s.externalPositionModules = [p.externalPositionModules EXCEPT ![c] = L]
      /\ s.externalVirtualUnit =
           [p.externalVirtualUnit EXCEPT ![c] = [p.externalVirtualUnit[c] EXCEPT ![m] = v]]
      /\ s.positionMultiplier = p.positionMultiplier
  <2>1. /\ s \in PositionState
        /\ s.components = r.components
        /\ s.virtualUnit = r.virtualUnit
        /\ s.externalPositionModules = r.externalPositionModules
        /\ s.externalVirtualUnit =
             [r.externalVirtualUnit EXCEPT
                ![c] = [r.externalVirtualUnit[c] EXCEPT ![m] = convertRealToVirtualUnit(r, u)]]
        /\ s.positionMultiplier = r.positionMultiplier
    <3>1. r \in PositionState /\ convertRealToVirtualUnit(r, u) \in Int
      BY <1>3, <1>5, <1>6
    <3>2. s = editExternalPositionUnit(r, c, m, u)
      OBVIOUS
    <3> HIDE DEF s, v
    <3> QED BY <3>1, <3>2, EditExternalUnitFields
  <2> QED BY <1>5, <1>6, <2>1, Zenon
<1> HIDE DEF s, v
<1>8. /\ s.externalPositionModules[c] = L
      /\ s.externalVirtualUnit[c][m] = v
      /\ \A y \in Module : y # m => s.externalVirtualUnit[c][y] = p.externalVirtualUnit[c][y]
      /\ \A x \in Component : x # c =>
           /\ s.externalPositionModules[x] = p.externalPositionModules[x]
           /\ s.externalVirtualUnit[x] = p.externalVirtualUnit[x]
  BY <1>2, <1>7
<1>9. L # <<>>
  <2>1. contains(L, m)
    BY <1>5
  <2> QED BY <2>1 DEF contains, Range
<1>10. ComponentsMatch(s)
  BY <1>4, <1>7, <1>8, <1>9 DEF ComponentsMatch, PositionInv, isComponent, hasExternalPosition
<1>11. DefaultsReadable(s)
  BY <1>7 DEF DefaultsReadable, PositionInv, getDefaultPositionRealUnit, convertVirtualToRealUnit
<1>12. ExternalsMatch(s)
  BY <1>3, <1>5, <1>7, <1>8
     DEF ExternalsMatch, PositionInv, isExternalPositionModule,
         getExternalPositionRealUnit, convertVirtualToRealUnit
<1> QED BY <1>1, <1>2, <1>7, <1>10, <1>11, <1>12 DEF PositionInv

\* A write of zero removes the module and, with the last position, the
\* component.
LEMMA CloseExternalPositionKeepsInv ==
    ASSUME NEW p, PositionInv(p), NEW c \in Component, NEW m \in Module,
           editExternalPositionOK(p, c, m, 0), getExternalPositionRealUnit(p, c, m) # 0
    PROVE  PositionInv(editExternalPosition(p, c, m, 0))
<1> DEFINE q == IF ClosesLastPosition(p, c) THEN removeComponent(p, c) ELSE p
           s == removeExternalPositionModule(q, c, m)
           E == p.externalPositionModules[c]
<1>1. editExternalPosition(p, c, m, 0) = s
  BY DEF editExternalPosition
<1>2. /\ p \in PositionState /\ p.positionMultiplier > 0
      /\ p.components \in Seq(Component) /\ ~ hasDuplicate(p.components)
      /\ p.externalPositionModules \in [Component -> Seq(Module)]
      /\ p.externalVirtualUnit \in [Component -> [Module -> Int]]
      /\ E \in Seq(Module) /\ ~ hasDuplicate(E)
  BY PositionFields DEF PositionInv, ComponentsMatch, ExternalsMatch
<1>3. contains(E, m)
  BY DEF editExternalPositionOK, isExternalPositionModule
<1>4. /\ removeStorage(E, m) \in Seq(Module)
      /\ Len(removeStorage(E, m)) = Len(E) - 1
      /\ ~ hasDuplicate(removeStorage(E, m))
      /\ \A x : contains(removeStorage(E, m), x) <=> contains(E, x) /\ x # m
  BY <1>2, <1>3, RemoveStorageFacts
<1>5. isComponent(p, c) /\ Len(E) >= 1
  <2>1. E # <<>> /\ Len(E) \in Nat /\ Len(E) >= 1
    BY <1>2, <1>3 DEF contains, Range
  <2> QED BY <2>1 DEF PositionInv, ComponentsMatch, hasExternalPosition
<1>6. /\ q \in PositionState
      /\ q.virtualUnit = p.virtualUnit
      /\ q.externalPositionModules = p.externalPositionModules
      /\ q.externalVirtualUnit = p.externalVirtualUnit
      /\ q.positionMultiplier = p.positionMultiplier
      /\ ~ hasDuplicate(q.components)
      /\ \A x \in Component : contains(q.components, x) <=>
           contains(p.components, x) /\ ~ (x = c /\ ClosesLastPosition(p, c))
  <2>1. CASE ClosesLastPosition(p, c)
    <3>1. q = removeComponent(p, c)
      BY <2>1
    <3>2. contains(p.components, c)
      BY <1>5 DEF isComponent
    <3>3. /\ removeStorage(p.components, c) \in Seq(Component)
          /\ ~ hasDuplicate(removeStorage(p.components, c))
          /\ \A x : contains(removeStorage(p.components, c), x) <=> contains(p.components, x) /\ x # c
      BY <1>2, <3>2, RemoveStorageFacts
    <3> HIDE DEF q
    <3> QED BY <1>2, <2>1, <3>1, <3>3, RemoveComponentFields
  <2>2. CASE ~ ClosesLastPosition(p, c)
    <3>1. q = p
      BY <2>2
    <3> QED BY <1>2, <2>2, <3>1
  <2> QED BY <2>1, <2>2
<1> HIDE DEF q
<1>7. /\ s \in PositionState
      /\ s.components = q.components
      /\ s.virtualUnit = p.virtualUnit
      /\ s.externalPositionModules = [p.externalPositionModules EXCEPT ![c] = removeStorage(E, m)]
      /\ s.externalVirtualUnit =
           [p.externalVirtualUnit EXCEPT ![c] = [p.externalVirtualUnit[c] EXCEPT ![m] = 0]]
      /\ s.positionMultiplier = p.positionMultiplier
  <2>1. /\ s \in PositionState
        /\ s.components = q.components
        /\ s.virtualUnit = q.virtualUnit
        /\ s.externalPositionModules =
             [q.externalPositionModules EXCEPT ![c] = removeStorage(q.externalPositionModules[c], m)]
        /\ s.externalVirtualUnit =
             [q.externalVirtualUnit EXCEPT ![c] = [q.externalVirtualUnit[c] EXCEPT ![m] = 0]]
        /\ s.positionMultiplier = q.positionMultiplier
    <3>1. q \in PositionState /\ removeStorage(q.externalPositionModules[c], m) \in Seq(Module)
      BY <1>4, <1>6, Zenon
    <3> QED BY <3>1, RemoveExternalModuleFields
  <2> QED BY <1>6, <2>1, Zenon
<1> HIDE DEF s
<1>8. /\ s.externalPositionModules[c] = removeStorage(E, m)
      /\ s.externalVirtualUnit[c][m] = 0
      /\ \A y \in Module : y # m => s.externalVirtualUnit[c][y] = p.externalVirtualUnit[c][y]
      /\ \A x \in Component : x # c =>
           /\ s.externalPositionModules[x] = p.externalPositionModules[x]
           /\ s.externalVirtualUnit[x] = p.externalVirtualUnit[x]
  BY <1>2, <1>7
<1> HIDE DEF E
<1>9. ComponentsMatch(s)
  <2>1. hasExternalPosition(s, c) <=> Len(E) # 1
    <3>1. removeStorage(E, m) = <<>> <=> Len(removeStorage(E, m)) = 0
      BY <1>4
    <3>2. Len(E) \in Nat /\ (Len(removeStorage(E, m)) = 0 <=> Len(E) = 1)
      BY <1>2, <1>4
    <3> QED BY <1>8, <3>1, <3>2 DEF hasExternalPosition
  <2>2. ClosesLastPosition(p, c) <=> p.virtualUnit[c] = 0 /\ Len(E) = 1
    BY HasDefaultPositionIffStored DEF ClosesLastPosition, E
  <2>3. p.virtualUnit[c] \in Int /\ p.virtualUnit[c] >= 0
    BY HasDefaultPositionIffStored DEF PositionInv, DefaultsReadable
  <2>4. isComponent(s, c) <=> s.virtualUnit[c] > 0 \/ hasExternalPosition(s, c)
    BY <1>5, <1>6, <1>7, <2>1, <2>2, <2>3 DEF isComponent
  <2>5. ASSUME NEW x \in Component, x # c
        PROVE  isComponent(s, x) <=> s.virtualUnit[x] > 0 \/ hasExternalPosition(s, x)
    BY <1>6, <1>7, <1>8, <2>5 DEF PositionInv, ComponentsMatch, isComponent, hasExternalPosition
  <2> QED BY <1>6, <1>7, <2>4, <2>5 DEF ComponentsMatch
<1>10. DefaultsReadable(s)
  BY <1>7 DEF DefaultsReadable, PositionInv, getDefaultPositionRealUnit, convertVirtualToRealUnit
<1>11. ExternalsMatch(s)
  BY <1>4, <1>7, <1>8
     DEF ExternalsMatch, PositionInv, isExternalPositionModule,
         getExternalPositionRealUnit, convertVirtualToRealUnit, E
<1> QED BY <1>1, <1>2, <1>7, <1>9, <1>10, <1>11 DEF PositionInv

\* Position.editExternalPosition keeps the invariant of the position storage.
THEOREM EditExternalPositionKeepsInv ==
    ASSUME NEW p, PositionInv(p), NEW c \in Component, NEW m \in Module,
           NEW u \in Int, editExternalPositionOK(p, c, m, u)
    PROVE  PositionInv(editExternalPosition(p, c, m, u))
<1>1. CASE u # 0
  BY <1>1, OpenExternalPositionKeepsInv
<1>2. CASE u = 0 /\ getExternalPositionRealUnit(p, c, m) # 0
  BY <1>2, CloseExternalPositionKeepsInv
<1>3. CASE u = 0 /\ getExternalPositionRealUnit(p, c, m) = 0
  BY <1>3 DEF editExternalPosition
<1> QED BY <1>1, <1>2, <1>3

\* A direct write of a unit by a module outside the library disturbs neither the
\* lists nor the positions of the modules that use the library.
THEOREM WriteExternalUnitKeepsInv ==
    ASSUME NEW p, PositionInv(p), NEW c \in Component, NEW m \in UnitWriter, NEW u \in Int
    PROVE  PositionInv(editExternalPositionUnit(p, c, m, u))
<1> DEFINE s == editExternalPositionUnit(p, c, m, u)
<1>1. /\ p \in PositionState /\ p.positionMultiplier \in Int /\ p.positionMultiplier > 0
      /\ p.externalVirtualUnit \in [Component -> [Module -> Int]]
      /\ m \in Module
  BY PositionFields, UnitWriterAssumption DEF PositionInv
<1>2. convertRealToVirtualUnit(p, u) \in Int
  BY <1>1, ConservativeDivSign DEF convertRealToVirtualUnit
<1>3. /\ s \in PositionState
      /\ s.components = p.components
      /\ s.virtualUnit = p.virtualUnit
      /\ s.externalPositionModules = p.externalPositionModules
      /\ s.externalVirtualUnit =
           [p.externalVirtualUnit EXCEPT
              ![c] = [p.externalVirtualUnit[c] EXCEPT ![m] = convertRealToVirtualUnit(p, u)]]
      /\ s.positionMultiplier = p.positionMultiplier
  BY <1>1, <1>2, EditExternalUnitFields
<1> HIDE DEF s
<1>4. \A x \in Component, y \in Module \ UnitWriter :
        s.externalVirtualUnit[x][y] = p.externalVirtualUnit[x][y]
  BY <1>1, <1>3
<1>5. ComponentsMatch(s)
  BY <1>3 DEF ComponentsMatch, PositionInv, isComponent, hasExternalPosition
<1>6. DefaultsReadable(s)
  BY <1>3 DEF DefaultsReadable, PositionInv, getDefaultPositionRealUnit, convertVirtualToRealUnit
<1>7. ExternalsMatch(s)
  BY <1>3, <1>4
     DEF ExternalsMatch, PositionInv, isExternalPositionModule,
         getExternalPositionRealUnit, convertVirtualToRealUnit
<1> QED BY <1>1, <1>3, <1>5, <1>6, <1>7 DEF PositionInv, s

-----------------------------------------------------------------------------
(* The constructor.                                                         *)

\* The lists a set can be created with are sequences of components.
LEMMA ComponentListsAreSequences ==
    ASSUME IsFiniteSet(Component), NEW components \in ComponentLists
    PROVE  components \in Seq(Component)
<1>1. PICK n \in 1..Cardinality(Component) : components \in [1..n -> Component]
  BY DEF ComponentLists
<1>2. n \in Nat
  BY <1>1, FS_CardinalityType
<1> QED BY <1>1, <1>2

\* The storage the constructor writes satisfies the position invariant.
LEMMA InitialPositionsInv ==
    ASSUME NEW components \in Seq(Component), ~ hasDuplicate(components),
           NEW units \in [Component -> {u \in Int : u > 0}]
    PROVE  PositionInv(InitialPositions(components, units))
<1> DEFINE p == InitialPositions(components, units)
<1>1. /\ p.components = components
      /\ p.virtualUnit = [c \in Component |-> IF contains(components, c) THEN units[c] ELSE 0]
      /\ p.externalPositionModules = [c \in Component |-> <<>>]
      /\ p.externalVirtualUnit = [c \in Component |-> [m \in Module |-> 0]]
      /\ p.positionMultiplier = PRECISE_UNIT
  BY DEF InitialPositions
<1>2. PRECISE_UNIT \in Int /\ PRECISE_UNIT > 0
  BY PreciseUnitAssumption
<1>3. p \in PositionState
  <2>1. /\ [c \in Component |-> IF contains(components, c) THEN units[c] ELSE 0] \in [Component -> Int]
        /\ [c \in Component |-> <<>>] \in [Component -> Seq(Module)]
        /\ [c \in Component |-> [m \in Module |-> 0]] \in [Component -> [Module -> Int]]
    OBVIOUS
  <2> QED BY <1>2, <2>1 DEF InitialPositions, PositionState
<1>4. ASSUME NEW v \in Int PROVE conservativePreciseMul(v, PRECISE_UNIT) = v
  <2>1. PICK x \in Int : x = v * PRECISE_UNIT
    BY <1>2
  <2>2. x \div PRECISE_UNIT = v
    BY <1>2, <2>1, DivUnique
  <2> QED BY <1>2, <2>1, <2>2, DivDownIsFloor DEF conservativePreciseMul
<1> HIDE DEF p
<1>5. ComponentsMatch(p)
  BY <1>1 DEF ComponentsMatch, isComponent, hasExternalPosition
<1>6. DefaultsReadable(p)
  BY <1>1, <1>4 DEF DefaultsReadable, getDefaultPositionRealUnit, convertVirtualToRealUnit
<1>7. ExternalsMatch(p)
  <2>1. ~ hasDuplicate(<<>>) /\ \A m : ~ contains(<<>>, m)
    BY DEF hasDuplicate, IsInjective, contains, Range
  <2> QED BY <1>1, <2>1 DEF ExternalsMatch, isExternalPositionModule
<1> QED BY <1>1, <1>2, <1>3, <1>5, <1>6, <1>7 DEF PositionInv, p
=============================================================================
