--------------------------- MODULE RecursionFacts ---------------------------
(***************************************************************************)
(* Induction and recursion for the provers: the library's theorems take    *)
(* the statement as an operator, which no installed prover instantiates.   *)
(* Here it is a set P of the values for which it holds, and the step of a  *)
(* recursion is a function.                                                *)
(***************************************************************************)
EXTENDS Integers, FiniteSets, Functions, FiniteSetTheorems, WellFoundedInduction, TLAPS

LEMMA FirstOf ==
  ASSUME NEW S, S \subseteq Nat, S # {}
  PROVE  \E i \in S : \A j \in S : i <= j
<1> DEFINE R == OpToRel(<, Nat)
<1>1. \A k, m \in Nat : k < m => <<k, m>> \in R
  BY DEF OpToRel
<1>2. IsWellFoundedOn(R, Nat)
  BY NatLessThanWellFounded
<1> HIDE DEF R
<1>3. PICK m \in S : \A k \in S : <<k, m>> \notin R
  BY <1>2, WFMin
<1>4. \A k \in S : ~(k < m)
  BY <1>1, <1>3
<1> QED
  BY <1>3, <1>4

(* Induction from 0 to N. *)
LEMMA StepByStep ==
  ASSUME NEW N \in Nat, NEW P, 0 \in P, \A n \in 0..N - 1 : n \in P => n + 1 \in P
  PROVE  \A n \in 0..N : n \in P
<1> DEFINE bad == {n \in 0..N : n \notin P}
<1> SUFFICES ASSUME bad # {} PROVE FALSE
  OBVIOUS
<1>1. bad \subseteq Nat
  OBVIOUS
<1>2. PICK n \in bad : \A j \in bad : n <= j
  BY <1>1, FirstOf
<1>3. n # 0
  OBVIOUS
<1>4. n - 1 \in 0..N - 1 /\ n - 1 \notin bad
  BY <1>1, <1>2, <1>3
<1> QED
  BY <1>4

(* A recursion over 1..N whose values stay in S has one solution. *)
Solution(N, S, base, step, g) ==
  /\ g \in [0..N -> S] /\ g[0] = base /\ \A n \in 1..N : g[n] = step[<<n, g[n - 1]>>]
  /\ \A h : h[0] = base /\ (\A n \in 1..N : h[n - 1] \in S => h[n] = step[<<n, h[n - 1]>>])
           => \A n \in 0..N : h[n] = g[n]

LEMMA Recursion ==
  ASSUME NEW N \in Nat, NEW S, NEW base \in S, NEW step \in [(1..N) \X S -> S]
  PROVE  \E g : Solution(N, S, base, step, g)
<1> DEFINE Solves(n, g) == g[0] = base /\ \A k \in 1..n : g[k] = step[<<k, g[k - 1]>>]
           P == {n \in 0..N : \E g \in [0..n -> S] : Solves(n, g)}
<1>1. 0 \in P
  <2>1. 0 \in 0..N /\ [k \in 0..0 |-> base] \in [0..0 -> S] /\ Solves(0, [k \in 0..0 |-> base])
    OBVIOUS
  <2> HIDE DEF Solves
  <2> QED
    BY <2>1
<1>2. ASSUME NEW n \in 0..N - 1, n \in P PROVE n + 1 \in P
  <2>1. PICK g \in [0..n -> S] : Solves(n, g)
    BY <1>2
  <2>2. n + 1 \in 1..N /\ g[n] \in S
    OBVIOUS
  <2> DEFINE v == step[<<n + 1, g[n]>>]
             h == [k \in 0..n + 1 |-> IF k = n + 1 THEN v ELSE g[k]]
  <2>3. v \in S
    BY <2>2
  <2> HIDE DEF v
  <2>4. h \in [0..n + 1 -> S] /\ h[n + 1] = v /\ \A k \in 0..n : h[k] = g[k]
    BY <2>1, <2>3
  <2> HIDE DEF h
  <2>5. Solves(n + 1, h)
    <3>1. h[0] = base
      BY <2>1, <2>4
    <3>2. ASSUME NEW k \in 1..n + 1 PROVE h[k] = step[<<k, h[k - 1]>>]
      <4>1. CASE k = n + 1
        <5>1. h[k - 1] = g[n]
          BY <2>4, <4>1
        <5> QED
          BY <2>4, <4>1, <5>1 DEF v
      <4>2. CASE k \in 1..n
        <5>1. k - 1 \in 0..n /\ k \in 0..n
          BY <4>2
        <5> QED
          BY <2>1, <2>4, <4>2, <5>1
      <4> QED
        BY <4>1, <4>2
    <3> QED
      BY <3>1, <3>2
  <2>6. n + 1 \in 0..N
    OBVIOUS
  <2> QED
    BY <2>4, <2>5, <2>6
<1> HIDE DEF P
<1>3. N \in P
  BY <1>1, <1>2, StepByStep
<1>4. PICK g \in [0..N -> S] : Solves(N, g)
  BY <1>3 DEF P
<1>5. ASSUME NEW h, h[0] = base, \A n \in 1..N : h[n - 1] \in S => h[n] = step[<<n, h[n - 1]>>]
      PROVE  \A n \in 0..N : h[n] = g[n]
  <2> DEFINE Q == {n \in 0..N : h[n] = g[n]}
  <2>1. 0 \in Q
    BY <1>4, <1>5
  <2>2. ASSUME NEW n \in 0..N - 1, n \in Q PROVE n + 1 \in Q
    <3>1. n + 1 \in 1..N /\ (n + 1) - 1 = n /\ g[n] \in S
      OBVIOUS
    <3>2. h[n + 1] = step[<<n + 1, h[n]>>] /\ g[n + 1] = step[<<n + 1, g[n]>>]
      BY <1>4, <1>5, <2>2, <3>1
    <3> QED
      BY <2>2, <3>1, <3>2
  <2> HIDE DEF Q
  <2>3. \A n \in 0..N : n \in Q
    BY <2>1, <2>2, StepByStep
  <2> QED
    BY <2>3 DEF Q
<1>6. Solution(N, S, base, step, g)
  BY <1>4, <1>5 DEF Solution
<1> QED
  BY <1>6

(* Induction over the subsets of a finite set. *)
LEMMA OneByOne ==
  ASSUME NEW S, IsFiniteSet(S), NEW P, {} \in P,
         \A T \in SUBSET S, x \in S : x \notin T /\ T \in P => T \cup {x} \in P
  PROVE  \A T \in SUBSET S : T \in P
<1> DEFINE N == Cardinality(S)
           Q == {n \in 0..N : \A T \in SUBSET S : Cardinality(T) = n => T \in P}
<1>1. N \in Nat
  BY FS_CardinalityType
<1>2. \A T \in SUBSET S : IsFiniteSet(T) /\ Cardinality(T) \in 0..N
  BY <1>1, FS_Subset, FS_CardinalityType
<1>3. 0 \in Q
  BY <1>1, <1>2, FS_EmptySet
<1>4. ASSUME NEW n \in 0..N - 1, n \in Q PROVE n + 1 \in Q
  <2>1. ASSUME NEW T \in SUBSET S, Cardinality(T) = n + 1 PROVE T \in P
    <3>1. IsFiniteSet(T) /\ n \in Nat
      BY <1>1, <1>2
    <3>2. T # {}
      <4>1. Cardinality(T) # 0
        BY <2>1, <3>1
      <4> QED
        BY <4>1, FS_EmptySet
    <3>3. PICK x \in T : TRUE
      BY <3>2
    <3>5. Cardinality(T \ {x}) = n
      <4>1. Cardinality(T \ {x}) = Cardinality(T) - 1
        BY <3>1, FS_RemoveElement
      <4> QED
        BY <2>1, <3>1, <4>1
    <3>4. T \ {x} \in P /\ x \in S /\ x \notin T \ {x} /\ T = (T \ {x}) \cup {x}
      BY <1>4, <3>3, <3>5
    <3> QED
      BY <3>4
  <2> QED
    BY <1>1, <2>1
<1> HIDE DEF Q
<1>5. \A n \in 0..N : n \in Q
  BY <1>1, <1>3, <1>4, StepByStep
<1> QED
  BY <1>2, <1>5 DEF Q

(* A sum over a finite set takes the members away one by one. *)
SumsUp(S, f, g) ==
  /\ g \in [SUBSET S -> Int]
  /\ g[{}] = 0 /\ SumFunctionOnSet(f, S) = g[S]
  /\ \A T \in SUBSET S : T # {} => \E x \in T : g[T] = f[x] + g[T \ {x}]

LEMMA Sums ==
  ASSUME NEW S, IsFiniteSet(S), NEW f, \A x \in S : f[x] \in Int
  PROVE  \E g : SumsUp(S, f, g)
<1> DEFINE one(T) == CHOOSE x \in T : TRUE
           Small(n) == {T \in SUBSET S : Cardinality(T) <= n}
           Solves(D, g) == g = [T \in D |-> IF T = {} THEN 0 ELSE f[one(T)] + g[T \ {one(T)}]]
           N == Cardinality(S)
           P == {n \in 0..N : \E g \in [Small(n) -> Int] : Solves(Small(n), g)}
<1>1. N \in Nat /\ \A T \in SUBSET S : IsFiniteSet(T) /\ Cardinality(T) \in 0..N
  BY FS_Subset, FS_CardinalityType
<1>2. \A T \in SUBSET S : T # {} => /\ one(T) \in T /\ T \ {one(T)} \in SUBSET S
                                    /\ Cardinality(T \ {one(T)}) = Cardinality(T) - 1
  BY <1>1, FS_RemoveElement
<1> HIDE DEF one
<1>3. \A T \in SUBSET S : T # {} => Cardinality(T) > 0
  BY <1>1, FS_EmptySet
<1>4. 0 \in P
  <2>1. Small(0) = {{}}
    BY <1>1, <1>3, FS_EmptySet
  <2> DEFINE g == [T \in {{}} |-> 0]
  <2>2. g \in [{{}} -> Int] /\ Solves({{}}, g)
    OBVIOUS
  <2>3. 0 \in 0..N
    BY <1>1
  <2> HIDE DEF Solves, Small, g
  <2> QED
    BY <2>1, <2>2, <2>3
<1>5. ASSUME NEW n \in 0..N - 1, n \in P PROVE n + 1 \in P
  <2>1. PICK g \in [Small(n) -> Int] : Solves(Small(n), g)
    BY <1>5
  <2>2. n \in Nat /\ Small(n) \subseteq Small(n + 1)
    BY <1>1
  <2>3. \A T \in Small(n + 1) : T # {} => T \ {one(T)} \in Small(n) /\ one(T) \in S
    BY <1>1, <1>2, <2>2
  <2> DEFINE h == [T \in Small(n + 1) |-> IF T = {} THEN 0 ELSE f[one(T)] + g[T \ {one(T)}]]
  <2>4. h \in [Small(n + 1) -> Int]
    BY <2>3
  <2>5. \A T \in Small(n) : h[T] = g[T]
    BY <2>1, <2>2
  <2>6. Solves(Small(n + 1), h)
    BY <2>3, <2>5
  <2>7. n + 1 \in 0..N
    BY <1>1
  <2> QED
    BY <2>4, <2>6, <2>7
<1> HIDE DEF P
<1>6. N \in P
  BY <1>1, <1>4, <1>5, StepByStep
<1>7. Small(N) = SUBSET S
  BY <1>1
<1>8. \E g \in [SUBSET S -> Int] : Solves(SUBSET S, g)
  BY <1>6, <1>7 DEF P
<1> DEFINE sum == CHOOSE g : Solves(SUBSET S, g)
<1>9. SumFunctionOnSet(f, S) = sum[S]
  BY DEF SumFunctionOnSet, FoldFunctionOnSet, MapThenFoldSet, one
<1>10. Solves(SUBSET S, sum)
  BY <1>8
<1>11. \A T \in SUBSET S : sum[T] = IF T = {} THEN 0 ELSE f[one(T)] + sum[T \ {one(T)}]
  BY <1>10
<1>12. \A T \in SUBSET S : sum[T] \in Int
  <2> DEFINE Q == {n \in 0..N : \A T \in Small(n) : sum[T] \in Int}
  <2> HIDE DEF sum
  <2>1. 0 \in Q
    <3>1. \A T \in Small(0) : T = {}
      BY <1>1, <1>3
    <3> QED
      BY <1>1, <1>11, <3>1
  <2>2. ASSUME NEW n \in 0..N - 1, n \in Q PROVE n + 1 \in Q
    <3>1. ASSUME NEW T \in Small(n + 1) PROVE sum[T] \in Int
      <4> PICK U \in SUBSET S : U = T
        OBVIOUS
      <4>3. sum[U] = IF U = {} THEN 0 ELSE f[one(U)] + sum[U \ {one(U)}]
        BY <1>11
      <4> HIDE DEF Small
      <4>1. CASE T = {}
        BY <4>1, <4>3
      <4>2. CASE T # {}
        <5>1. T \ {one(T)} \in Small(n) /\ one(T) \in S
          BY <1>1, <1>2, <4>2 DEF Small
        <5>2. sum[T \ {one(T)}] \in Int /\ f[one(T)] \in Int
          BY <2>2, <5>1
        <5> QED
          BY <4>2, <4>3, <5>2
      <4> QED
        BY <4>1, <4>2
    <3>2. n + 1 \in 0..N
      BY <1>1
    <3> QED
      BY <3>1, <3>2
  <2> HIDE DEF Q
  <2>3. N \in Q
    BY <1>1, <2>1, <2>2, StepByStep
  <2> QED
    BY <1>7, <2>3 DEF Q
<1>13. sum \in [SUBSET S -> Int]
  BY <1>10, <1>12
<1> HIDE DEF sum
<1>14. sum[{}] = 0
  BY <1>11
<1>15. SumsUp(S, f, sum)
  BY <1>2, <1>9, <1>11, <1>13, <1>14 DEF SumsUp
<1> QED
  BY <1>15

LEMMA Greatest ==
  ASSUME NEW S, IsFiniteSet(S), S # {}, NEW f \in [S -> Int]
  PROVE  \E x \in S : \A y \in S : f[y] <= f[x]
<1> DEFINE P == {T \in SUBSET S : T # {} => \E x \in T : \A y \in T : f[y] <= f[x]}
<1>1. {} \in P
  OBVIOUS
<1>2. ASSUME NEW T \in SUBSET S, NEW x \in S, x \notin T, T \in P PROVE T \cup {x} \in P
  <2>1. CASE T = {}
    BY <2>1
  <2>2. CASE T # {}
    <3>1. PICK z \in T : \A y \in T : f[y] <= f[z]
      BY <1>2, <2>2
    <3>2. f[x] \in Int /\ \A y \in T : f[y] \in Int
      OBVIOUS
    <3>3. CASE f[x] <= f[z]
      BY <3>1, <3>3
    <3>4. CASE f[x] > f[z]
      <4>1. \A y \in T : f[y] <= f[x]
        BY <3>1, <3>2, <3>4
      <4> QED
        BY <3>2, <4>1
    <3> QED
      BY <3>2, <3>3, <3>4
  <2> QED
    BY <2>1, <2>2
<1> HIDE DEF P
<1>3. S \in P
  BY <1>1, <1>2, OneByOne
<1> QED
  BY <1>3 DEF P

(* They can be taken away in any order. *)
LEMMA AnyOrder ==
  ASSUME NEW S, IsFiniteSet(S), NEW f, \A x \in S : f[x] \in Int, NEW g, SumsUp(S, f, g)
  PROVE  \A T \in SUBSET S : \A x \in T : g[T] = f[x] + g[T \ {x}]
<1> DEFINE N == Cardinality(S)
           P == {n \in 0..N : \A T \in SUBSET S : Cardinality(T) = n =>
                                \A x \in T : g[T] = f[x] + g[T \ {x}]}
<1>1. N \in Nat /\ \A T \in SUBSET S : IsFiniteSet(T) /\ Cardinality(T) \in 0..N
  BY FS_Subset, FS_CardinalityType
<1>2. \A T \in SUBSET S : \A x \in T : T \ {x} \in SUBSET S /\ Cardinality(T \ {x}) = Cardinality(T) - 1
  BY <1>1, FS_RemoveElement
<1>3. g \in [SUBSET S -> Int] /\ \A T \in SUBSET S : T # {} => \E x \in T : g[T] = f[x] + g[T \ {x}]
  BY DEF SumsUp
<1>4. 0 \in P
  <2>1. \A T \in SUBSET S : Cardinality(T) = 0 => T = {}
    BY <1>1, FS_EmptySet
  <2> QED
    BY <1>1, <2>1
<1>5. ASSUME NEW n \in 0..N - 1, n \in P PROVE n + 1 \in P
  <2>1. ASSUME NEW T \in SUBSET S, Cardinality(T) = n + 1, NEW x \in T
        PROVE  g[T] = f[x] + g[T \ {x}]
    <3>1. PICK y \in T : g[T] = f[y] + g[T \ {y}]
      BY <1>3
    <3>2. CASE y # x
      <4>1. n \in Nat /\ Cardinality(T \ {x}) = n /\ Cardinality(T \ {y}) = n
        BY <1>1, <1>2, <2>1
      <4>2. PICK U \in SUBSET S : U = T \ {x} /\ y \in U /\ Cardinality(U) = n
        BY <3>2, <4>1
      <4>3. PICK V \in SUBSET S : V = T \ {y} /\ x \in V /\ Cardinality(V) = n
        BY <3>2, <4>1
      <4>4. PICK W \in SUBSET S : W = U \ {y} /\ W = V \ {x}
        BY <4>2, <4>3
      <4>5. g[U] = f[y] + g[W] /\ g[V] = f[x] + g[W]
        BY <1>5, <4>2, <4>3, <4>4
      <4>6. f[x] \in Int /\ f[y] \in Int /\ g[W] \in Int
        BY <1>3
      <4> QED
        BY <3>1, <4>2, <4>3, <4>5, <4>6
    <3> QED
      BY <3>1, <3>2
  <2> QED
    BY <1>1, <2>1
<1> HIDE DEF P
<1>6. \A n \in 0..N : n \in P
  BY <1>1, <1>4, <1>5, StepByStep
<1> QED
  BY <1>1, <1>6 DEF P

LEMMA SumWithout ==
  ASSUME NEW S, IsFiniteSet(S), NEW f, \A y \in S : f[y] \in Int, NEW x \in S
  PROVE  SumFunctionOnSet(f, S) = f[x] + SumFunctionOnSet(f, S \ {x})
<1>0. PICK R : R = S \ {x}
  OBVIOUS
<1>1. IsFiniteSet(R) /\ \A y \in R : f[y] \in Int
  BY <1>0, FS_Subset
<1>2. PICK g : SumsUp(S, f, g)
  BY Sums
<1>3. PICK h : SumsUp(R, f, h)
  BY <1>1, Sums
<1>4. /\ \A T \in SUBSET S : \A y \in T : g[T] = f[y] + g[T \ {y}]
      /\ \A T \in SUBSET R : \A y \in T : h[T] = f[y] + h[T \ {y}]
  BY <1>1, <1>2, <1>3, AnyOrder
<1> DEFINE P == {T \in SUBSET R : g[T] = h[T]}
<1>5. {} \in P
  BY <1>2, <1>3 DEF SumsUp
<1> HIDE DEF P
<1>6. ASSUME NEW T \in SUBSET R, NEW y \in R, y \notin T, T \in P PROVE T \cup {y} \in P
  <2>0. PICK U : U = T \cup {y}
    OBVIOUS
  <2>1. U \in SUBSET R /\ U = T \cup {y} /\ y \in U /\ U \ {y} = T
    <3>1. U \in SUBSET R
      BY <2>0
    <3>2. U \ {y} = T
      BY <1>6, <2>0
    <3> QED
      BY <2>0, <3>1, <3>2
  <2>2. g[U] = f[y] + g[T] /\ h[U] = f[y] + h[T]
    BY <1>0, <1>4, <2>1
  <2> QED
    BY <1>6, <2>1, <2>2 DEF P
<1>7. R \in P
  BY <1>1, <1>5, <1>6, OneByOne
<1>8. g[R] = h[R]
  BY <1>7 DEF P
<1> QED
  BY <1>0, <1>2, <1>3, <1>4, <1>8 DEF SumsUp

LEMMA SumNone == ASSUME NEW f PROVE SumFunctionOnSet(f, {}) = 0
<1>1. IsFiniteSet({})
  BY FS_EmptySet
<1>2. PICK g : SumsUp({}, f, g)
  BY <1>1, Sums
<1> QED
  BY <1>2 DEF SumsUp

LEMMA SumType ==
  ASSUME NEW S, IsFiniteSet(S), NEW f, \A y \in S : f[y] \in Int
  PROVE  SumFunctionOnSet(f, S) \in Int
<1>1. PICK g : SumsUp(S, f, g)
  BY Sums
<1> QED
  BY <1>1 DEF SumsUp

LEMMA SumWith ==
  ASSUME NEW S, IsFiniteSet(S), NEW f, NEW x, x \notin S, \A y \in S \cup {x} : f[y] \in Int
  PROVE  SumFunctionOnSet(f, S \cup {x}) = f[x] + SumFunctionOnSet(f, S)
<1>1. PICK U : U = S \cup {x}
  OBVIOUS
<1>2. IsFiniteSet(U) /\ x \in U /\ U \ {x} = S /\ \A y \in U : f[y] \in Int
  BY <1>1, FS_AddElement
<1> QED
  BY <1>1, <1>2, SumWithout

(* A sum stays between the least and the greatest value times the number   *)
(* of the summands.                                                        *)
LEMMA SumBounded ==
  ASSUME NEW S, IsFiniteSet(S), NEW f, NEW low \in Int, NEW high \in Int,
         \A x \in S : f[x] \in Int /\ low <= f[x] /\ f[x] <= high
  PROVE  /\ SumFunctionOnSet(f, S) \in Int
         /\ low * Cardinality(S) <= SumFunctionOnSet(f, S)
         /\ SumFunctionOnSet(f, S) <= high * Cardinality(S)
<1> DEFINE Sum(T) == SumFunctionOnSet(f, T)
           P == {T \in SUBSET S : low * Cardinality(T) <= Sum(T) /\ Sum(T) <= high * Cardinality(T)}
<1>1. {} \in P
  BY SumNone, FS_EmptySet
<1>2. ASSUME NEW T \in SUBSET S, NEW x \in S, x \notin T, T \in P PROVE T \cup {x} \in P
  <2>1. IsFiniteSet(T)
    BY FS_Subset
  <2>2. PICK n \in Nat : n = Cardinality(T)
    BY <2>1, FS_CardinalityType
  <2>3. Cardinality(T \cup {x}) = n + 1
    BY <1>2, <2>1, <2>2, FS_AddElement
  <2>4. Sum(T \cup {x}) = f[x] + Sum(T)
    BY <1>2, <2>1, SumWith
  <2>5. PICK t \in Int : t = Sum(T)
    BY <2>1, SumType
  <2>6. PICK v \in Int : v = f[x] /\ low <= v /\ v <= high
    OBVIOUS
  <2>7. /\ low * n \in Int /\ low * (n + 1) = low * n + low
        /\ high * n \in Int /\ high * (n + 1) = high * n + high
    OBVIOUS
  <2>8. low * n <= t /\ t <= high * n
    BY <1>2, <2>2, <2>5
  <2>9. low * (n + 1) <= v + t /\ v + t <= high * (n + 1)
    BY <2>6, <2>7, <2>8
  <2> HIDE DEF Sum
  <2> QED
    BY <2>3, <2>4, <2>5, <2>6, <2>9
<1> HIDE DEF P
<1>3. S \in P
  BY <1>1, <1>2, OneByOne
<1> QED
  BY <1>3, SumType DEF P

(* Nothing negative: the sum over a part is at most the sum over all. *)
LEMMA SumOfPart ==
  ASSUME NEW S, IsFiniteSet(S), NEW f, \A x \in S : f[x] \in Nat, NEW T \in SUBSET S
  PROVE  SumFunctionOnSet(f, T) <= SumFunctionOnSet(f, S)
<1> DEFINE Sum(U) == SumFunctionOnSet(f, U)
           P == {U \in SUBSET S : U \cap T = {} => Sum(T) <= Sum(T \cup U)}
<1>1. \A U \in SUBSET S : IsFiniteSet(U) /\ Sum(U) \in Int
  BY FS_Subset, SumType
<1>2. {} \in P
  <2>1. T \cup {} = T /\ Sum(T) <= Sum(T)
    BY <1>1
  <2> QED
    BY <2>1
<1> HIDE DEF Sum
<1>3. ASSUME NEW U \in SUBSET S, NEW x \in S, x \notin U, U \in P PROVE U \cup {x} \in P
  <2> SUFFICES ASSUME (U \cup {x}) \cap T = {} PROVE Sum(T) <= Sum(T \cup (U \cup {x}))
    OBVIOUS
  <2>1. PICK V \in SUBSET S : V = T \cup U /\ x \notin V /\ V \cup {x} = T \cup (U \cup {x})
    BY <1>3
  <2>2. Sum(V \cup {x}) = f[x] + Sum(V)
    <3>1. IsFiniteSet(V) /\ \A y \in V \cup {x} : f[y] \in Int
      BY <1>1, <2>1
    <3> QED
      BY <2>1, <3>1, SumWith DEF Sum
  <2>3. Sum(T) \in Int /\ Sum(V) \in Int /\ f[x] \in Nat /\ Sum(T) <= Sum(V)
    <3>1. U \cap T = {}
      OBVIOUS
    <3> QED
      BY <1>1, <1>3, <2>1, <3>1
  <2>4. Sum(T) <= f[x] + Sum(V)
    BY <2>3
  <2> QED
    BY <2>1, <2>2, <2>4
<1> HIDE DEF P
<1>4. \A U \in SUBSET S : U \in P
  BY <1>2, <1>3, OneByOne
<1>5. S \ T \in SUBSET S /\ T \cup (S \ T) = S /\ (S \ T) \cap T = {}
  OBVIOUS
<1> QED
  BY <1>4, <1>5 DEF P, Sum

(* Every summand of g that is not 0 has one of f of its own that is at     *)
(* least as large.                                                         *)
LEMMA SumCovered ==
  ASSUME NEW S, IsFiniteSet(S), NEW f, NEW g, \A x \in S : f[x] \in Nat /\ g[x] \in Nat,
         NEW D \in SUBSET S, NEW m \in [D -> S], \A x, y \in D : m[x] = m[y] => x = y,
         \A x \in D : g[x] <= f[m[x]], \A x \in S \ D : g[x] = 0
  PROVE  SumFunctionOnSet(g, S) <= SumFunctionOnSet(f, S)
<1> DEFINE F(T) == SumFunctionOnSet(f, T)
           G(T) == SumFunctionOnSet(g, T)
           image(T) == {m[x] : x \in T \cap D}
           P == {T \in SUBSET S : G(T) <= F(image(T))}
<1>1. \A T \in SUBSET S : IsFiniteSet(T) /\ F(T) \in Int /\ G(T) \in Int /\ image(T) \in SUBSET S
  BY FS_Subset, SumType
<1>2. {} \in P
  <2>1. image({}) = {}
    OBVIOUS
  <2> QED
    BY <2>1, SumNone
<1>3. ASSUME NEW T \in SUBSET S, NEW x \in S, x \notin T, T \in P PROVE T \cup {x} \in P
  <2>1. G(T \cup {x}) = g[x] + G(T)
    BY <1>1, <1>3, SumWith
  <2>2. G(T) \in Int /\ F(image(T)) \in Int /\ G(T) <= F(image(T)) /\ g[x] \in Nat
    BY <1>1, <1>3
  <2>3. CASE x \in D
    <3>1. m[x] \notin image(T) /\ m[x] \in S /\ image(T \cup {x}) = image(T) \cup {m[x]}
      BY <1>3, <2>3
    <3>2. F(image(T) \cup {m[x]}) = f[m[x]] + F(image(T))
      <4>1. PICK U \in SUBSET S, y \in S : U = image(T) /\ y = m[x] /\ y \notin U
        BY <1>1, <3>1
      <4>2. IsFiniteSet(U) /\ \A z \in U \cup {y} : f[z] \in Int
        BY <1>1
      <4> QED
        BY <4>1, <4>2, SumWith
    <3>3. g[x] <= f[m[x]] /\ f[m[x]] \in Nat
      BY <2>3, <3>1
    <3>4. G(T \cup {x}) <= F(image(T \cup {x}))
      BY <2>1, <2>2, <3>1, <3>2, <3>3
    <3> QED
      BY <3>4
  <2>4. CASE x \notin D
    <3>1. image(T \cup {x}) = image(T) /\ g[x] = 0
      BY <2>4
    <3>2. G(T \cup {x}) <= F(image(T \cup {x}))
      BY <2>1, <2>2, <3>1
    <3> QED
      BY <3>2
  <2> QED
    BY <2>3, <2>4
<1> HIDE DEF P
<1>4. S \in P
  BY <1>2, <1>3, OneByOne
<1>5. F(image(S)) <= F(S)
  BY <1>1, SumOfPart
<1>6. G(S) <= F(image(S))
  BY <1>4 DEF P
<1> QED
  BY <1>1, <1>5, <1>6

LEMMA Quotient ==
  ASSUME NEW a \in Nat, NEW b \in Nat, b # 0, NEW c \in Nat, a <= c * b
  PROVE  a \div b \in Nat /\ a \div b <= c
<1>1. PICK q \in Int : q = a \div b
  OBVIOUS
<1>2. q * b <= a /\ a < (q + 1) * b
  BY <1>1
<1>3. q * b \in Int /\ c * b \in Int /\ q * b <= c * b
  BY <1>2
<1>4. q <= c
  <2> SUFFICES ASSUME q >= c + 1 PROVE FALSE
    OBVIOUS
  <2>1. q * b >= (c + 1) * b
    OBVIOUS
  <2>2. (c + 1) * b = c * b + b
    OBVIOUS
  <2> QED
    BY <1>3, <2>1, <2>2
<1>5. q >= 0
  <2> SUFFICES ASSUME q <= -1 PROVE FALSE
    OBVIOUS
  <2>1. (q + 1) * b <= 0
    OBVIOUS
  <2> QED
    BY <1>2, <2>1
<1> QED
  BY <1>1, <1>4, <1>5
=============================================================================
