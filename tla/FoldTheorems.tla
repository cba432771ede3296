---------------------------- MODULE FoldTheorems ----------------------------
(***************************************************************************)
(* Induction without an operator parameter, and what follows from it for   *)
(* the recursive functions behind the folds of the community modules: the  *)
(* equation that such a function is chosen by has a solution.              *)
(***************************************************************************)
EXTENDS Integers, FiniteSets, FiniteSetsExt, FiniteSetTheorems, WellFoundedInduction, TLAPS

(* A set of natural numbers has a least element, because < is well founded *)
(* on Nat.                                                                 *)
LEMMA LeastNat ==
  ASSUME NEW T, T \subseteq Nat, T # {}
  PROVE  \E n \in T : \A m \in T : n <= m
<1> DEFINE R == {ss \in Nat \X Nat : ss[1] < ss[2]}
<1>1. IsWellFoundedOn(R, Nat)
  BY NatLessThanWellFounded DEF OpToRel
<1>2. \A m, n \in Nat : m < n => <<m, n>> \in R
  OBVIOUS
<1> HIDE DEF R
<1>3. PICK n \in T : \A m \in T : ~ (<<m, n>> \in R)
  BY <1>1, WFMin
<1>4. \A m \in T : n <= m
  <2>1. SUFFICES ASSUME NEW m \in T PROVE n <= m
    OBVIOUS
  <2>2. m \in Nat /\ n \in Nat /\ ~(m < n)
    BY <1>2, <1>3
  <2>3. QED
    BY <2>2
<1>5. QED
  BY <1>4

(* A set with 0 that is closed under successor holds every natural number. *)
LEMMA Induction ==
  ASSUME NEW S, 0 \in S, \A n \in Nat : n \in S => n + 1 \in S
  PROVE  Nat \subseteq S
<1> DEFINE T == {n \in Nat : n \notin S}
<1>1. SUFFICES ASSUME T # {} PROVE FALSE
  OBVIOUS
<1>2. PICK n \in T : \A m \in T : n <= m
  BY <1>1, LeastNat
<1>3. n # 0 /\ n - 1 \in Nat /\ n - 1 \notin T
  BY <1>2
<1>4. QED
  BY <1>2, <1>3

(* A set that holds each natural number below which it holds all others    *)
(* holds every natural number.                                             *)
LEMMA StrongInduction ==
  ASSUME NEW S, \A n \in Nat : (\A m \in 0 .. n - 1 : m \in S) => n \in S
  PROVE  Nat \subseteq S
<1> DEFINE T == {n \in Nat : n \notin S}
<1>1. SUFFICES ASSUME T # {} PROVE FALSE
  OBVIOUS
<1>2. PICK n \in T : \A m \in T : n <= m
  BY <1>1, LeastNat
<1>3. \A m \in 0 .. n - 1 : m \in S
  BY <1>2
<1>4. QED
  BY <1>2, <1>3

(* The greatest element of 1 .. n *)
LEMMA MaxInterval ==
  ASSUME NEW n \in Nat, n > 0
  PROVE  Max(1 .. n) = n
<1>1. n \in 1 .. n /\ \A m \in 1 .. n : n >= m
  OBVIOUS
<1>2. \A x \in 1 .. n : (\A m \in 1 .. n : x >= m) => x = n
  OBVIOUS
<1>3. QED
  BY <1>1, <1>2 DEF Max

(* The Max of FiniteSetsExt, on a set of numbers from 1 to n, is its       *)
(* greatest element.                                                       *)
LEMMA MaxOfSubset ==
  ASSUME NEW n \in Nat, NEW s \in SUBSET (1 .. n), s # {}
  PROVE  /\ Max(s) \in s
         /\ \A m \in s : Max(s) >= m
         /\ \A x \in s : (\A m \in s : x >= m) => x = Max(s)
<1> DEFINE T == {n - m : m \in s}
<1>a. s \subseteq Nat
  OBVIOUS
<1>1. T \subseteq Nat /\ T # {}
  <2>1. \A m \in s : m \in 1 .. n /\ n - m \in Nat
    OBVIOUS
  <2>2. QED
    BY <2>1
<1>2. PICK t \in T : \A u \in T : t <= u
  BY <1>1, LeastNat
<1>3. n - t \in s /\ \A m \in s : n - t >= m
  BY <1>2
<1>4. Max(s) \in s /\ \A m \in s : Max(s) >= m
  BY <1>3 DEF Max
<1>5. \A x \in s : (\A m \in s : x >= m) => x = Max(s)
  <2>1. SUFFICES ASSUME NEW x \in s, \A m \in s : x >= m PROVE x = Max(s)
    OBVIOUS
  <2>2. x \in Nat /\ Max(s) \in Nat
    BY ONLY <1>a, <1>4, <2>1
  <2>3. x >= Max(s) /\ Max(s) >= x
    BY ONLY <1>4, <2>1
  <2>4. QED
    BY ONLY <2>2, <2>3
<1>6. QED
  BY <1>4, <1>5

(* A step H on values V has a function that folds it over the subsets of   *)
(* 1 .. n, from the least element to the greatest.                         *)
Folds(g, n, base, H) ==
  \A s \in SUBSET (1 .. n) :
    g[s] = IF s = {} THEN base ELSE H[<<Max(s), g[s \ {Max(s)}]>>]

HasFold(V, n, base, H) == \E g \in [SUBSET (1 .. n) -> V] : Folds(g, n, base, H)

(* The recursive function that MapThenFoldSet chooses on subsets of 1 .. N *)
(* exists.                                                                 *)
LEMMA FoldExists ==
  ASSUME NEW V, NEW base \in V, NEW N \in Nat, NEW H \in [(1 .. N) \X V -> V]
  PROVE  HasFold(V, N, base, H)
<1> DEFINE P(n) == n <= N => HasFold(V, n, base, H)
           S == {n \in Nat : P(n)}
<1>1. P(0)
  <2> DEFINE g == [s \in SUBSET (1 .. 0) |-> base]
  <2>1. g \in [SUBSET (1 .. 0) -> V]
    OBVIOUS
  <2>2. Folds(g, 0, base, H)
    BY DEF Folds
  <2>3. QED
    BY <2>1, <2>2 DEF HasFold
<1>2. ASSUME NEW n \in Nat, P(n) PROVE P(n + 1)
  <2>1. SUFFICES ASSUME n + 1 <= N
                 PROVE  HasFold(V, n + 1, base, H)
    OBVIOUS
  <2>2. PICK f \in [SUBSET (1 .. n) -> V] : Folds(f, n, base, H)
    <3>1. HasFold(V, n, base, H)
      BY <1>2, <2>1
    <3>2. QED
      BY <3>1 DEF HasFold
  <2> DEFINE g == [s \in SUBSET (1 .. n + 1) |->
                     IF n + 1 \in s THEN H[<<n + 1, f[s \ {n + 1}]>>] ELSE f[s]]
  <2>3. \A s \in SUBSET (1 .. n + 1) : s \ {n + 1} \in SUBSET (1 .. n)
    OBVIOUS
  <2>4. \A s \in SUBSET (1 .. n + 1) : n + 1 \notin s => s \in SUBSET (1 .. n)
    OBVIOUS
  <2>5. g \in [SUBSET (1 .. n + 1) -> V]
    BY <2>1, <2>3, <2>4
  <2>6. ASSUME NEW s \in SUBSET (1 .. n + 1)
        PROVE  g[s] = IF s = {} THEN base ELSE H[<<Max(s), g[s \ {Max(s)}]>>]
    <3>1. CASE n + 1 \in s
      <4>1. Max(s) = n + 1
        <5>1. \A m \in s : n + 1 >= m
          OBVIOUS
        <5>2. s # {} /\ n + 1 \in Nat
          BY <3>1
        <5>3. \A x \in s : (\A m \in s : x >= m) => x = Max(s)
          BY ONLY <2>6, <5>2, MaxOfSubset
        <5>4. QED
          BY <3>1, <5>1, <5>3
      <4>2. s \ {n + 1} \in SUBSET (1 .. n + 1) /\ n + 1 \notin s \ {n + 1}
        OBVIOUS
      <4>3. g[s \ {n + 1}] = f[s \ {n + 1}]
        BY <4>2
      <4>4. g[s] = H[<<n + 1, f[s \ {n + 1}]>>]
        BY <3>1
      <4>5. QED
        BY <3>1, <4>1, <4>3, <4>4
    <3>2. CASE n + 1 \notin s
      <4>1. s \in SUBSET (1 .. n) /\ g[s] = f[s]
        BY <2>4, <3>2
      <4>2. CASE s = {}
        BY <2>2, <4>1, <4>2 DEF Folds
      <4>3. CASE s # {}
        <5>1. Max(s) \in s
          BY <4>1, <4>3, MaxOfSubset
        <5>2. /\ s \ {Max(s)} \in SUBSET (1 .. n) /\ s \ {Max(s)} \in SUBSET (1 .. n + 1)
              /\ n + 1 \notin s \ {Max(s)}
          BY <3>2, <4>1
        <5>3. g[s \ {Max(s)}] = f[s \ {Max(s)}]
          BY <5>2
        <5>4. f[s] = H[<<Max(s), f[s \ {Max(s)}]>>]
          BY <2>2, <4>1, <4>3 DEF Folds
        <5>5. QED
          BY <4>1, <4>3, <5>3, <5>4
      <4>4. QED
        BY <4>2, <4>3
    <3>3. QED
      BY <3>1, <3>2
  <2>7. Folds(g, n + 1, base, H)
    BY <2>6 DEF Folds
  <2>8. QED
    <3> HIDE DEF g
    <3>1. QED
      BY <2>5, <2>7 DEF HasFold
<1>3. P(N)
  <2> HIDE DEF P
  <2>1. 0 \in S /\ \A n \in Nat : n \in S => n + 1 \in S
    BY <1>1, <1>2
  <2>2. Nat \subseteq S
    <3> HIDE DEF S
    <3> QED BY <2>1, Induction
  <2>3. QED
    BY <2>2
<1>4. QED
  BY <1>3

Follows(g, V, n, base, H) ==
  /\ g[{}] = base
  /\ \A s \in SUBSET (1 .. n) :
       s # {} /\ g[s \ {Max(s)}] \in V => g[s] = H[<<Max(s), g[s \ {Max(s)}]>>]

(* What is chosen by the equation of a fold has values in V, whatever the  *)
(* equation says of arguments outside of V.                                *)
LEMMA FoldType ==
  ASSUME NEW V, NEW base \in V, NEW N \in Nat, NEW H \in [(1 .. N) \X V -> V], NEW g,
         Follows(g, V, N, base, H)
  PROVE  \A s \in SUBSET (1 .. N) : g[s] \in V
<1> DEFINE P(n) == n <= N => \A s \in SUBSET (1 .. n) : g[s] \in V
           S == {n \in Nat : P(n)}
<1>1. P(0)
  <2>1. \A s \in SUBSET (1 .. 0) : s = {}
    OBVIOUS
  <2>2. QED
    BY <2>1 DEF Follows
<1>2. ASSUME NEW n \in Nat, P(n) PROVE P(n + 1)
  <2>1. SUFFICES ASSUME n + 1 <= N, NEW s \in SUBSET (1 .. n + 1), s # {}
                 PROVE  g[s] \in V
    BY DEF Follows
  <2>2. Max(s) \in 1 .. n + 1 /\ \A m \in s : Max(s) >= m
    <3>1. n + 1 \in Nat /\ s \in SUBSET (1 .. n + 1) /\ s # {}
      BY <2>1
    <3>2. Max(s) \in s /\ \A m \in s : Max(s) >= m
      BY ONLY <3>1, MaxOfSubset
    <3>3. QED
      BY <3>2
  <2>3. s \in SUBSET (1 .. N) /\ Max(s) \in 1 .. N
    BY <2>1, <2>2
  <2>4. s \ {Max(s)} \in SUBSET (1 .. n)
    <3>1. SUFFICES ASSUME NEW m \in s, m # Max(s) PROVE m \in 1 .. n
      OBVIOUS
    <3>2. m \in 1 .. n + 1 /\ Max(s) >= m
      BY <2>2
    <3>3. QED
      BY <2>2, <3>1, <3>2
  <2>5. g[s \ {Max(s)}] \in V
    BY <1>2, <2>1, <2>4
  <2>6. QED
    BY <2>1, <2>3, <2>5 DEF Follows
<1>3. P(N)
  <2> HIDE DEF P
  <2>1. 0 \in S /\ \A n \in Nat : n \in S => n + 1 \in S
    BY <1>1, <1>2
  <2>2. Nat \subseteq S
    <3> HIDE DEF S
    <3> QED BY <2>1, Induction
  <2>3. QED
    BY <2>2
<1>4. QED
  BY <1>3

(* The values that a fold goes through: after k elements it is at h[k].    *)
Goes(h, V, N, base, H) ==
  /\ h \in [0 .. N -> V]
  /\ h[0] = base
  /\ \A k \in 1 .. N : h[k] = H[<<k, h[k - 1]>>]

EndsIn(x, V, N, base, H) == \E h : Goes(h, V, N, base, H) /\ x = h[N]

(* What it gives for 1 .. N is reached by going through 1, 2, ... N.       *)
LEMMA FoldGoes ==
  ASSUME NEW V, NEW base \in V, NEW N \in Nat, NEW H \in [(1 .. N) \X V -> V], NEW g,
         Follows(g, V, N, base, H)
  PROVE  EndsIn(g[1 .. N], V, N, base, H)
<1> DEFINE h == [k \in 0 .. N |-> g[1 .. k]]
<1>1. \A k \in 0 .. N : 1 .. k \in SUBSET (1 .. N)
  OBVIOUS
<1>2. \A s \in SUBSET (1 .. N) : g[s] \in V
  BY FoldType
<1>3. h \in [0 .. N -> V]
  BY <1>1, <1>2
<1>4. h[0] = base
  <2>1. 1 .. 0 = {}
    OBVIOUS
  <2>2. QED
    BY <2>1 DEF Follows
<1>5. ASSUME NEW k \in 1 .. N PROVE h[k] = H[<<k, h[k - 1]>>]
  <2>1. Max(1 .. k) = k
    BY MaxInterval
  <2>2. (1 .. k) \ {k} = 1 .. k - 1
    OBVIOUS
  <2>3. 1 .. k \in SUBSET (1 .. N) /\ 1 .. k - 1 \in SUBSET (1 .. N) /\ 1 .. k # {}
    OBVIOUS
  <2>4. g[1 .. k] = H[<<k, g[1 .. k - 1]>>]
    BY <1>2, <2>1, <2>2, <2>3 DEF Follows
  <2>5. h[k] = g[1 .. k] /\ h[k - 1] = g[1 .. k - 1]
    OBVIOUS
  <2>6. QED
    BY <2>4, <2>5
<1>6. Goes(h, V, N, base, H) /\ g[1 .. N] = h[N]
  <2>1. g[1 .. N] = h[N]
    OBVIOUS
  <2> HIDE DEF h
  <2>2. QED
    BY <1>3, <1>4, <1>5, <2>1 DEF Goes
<1>7. QED
  <2> HIDE DEF h
  <2>1. QED
    BY <1>6 DEF EndsIn
------------------------------------------------------------------------------
(* Recursive functions that call themselves once, nearer to an end *)

(* What the equation makes of the argument i: R is the set of those that   *)
(* call f, each of them for P[i], and do H with the result.                *)
Unrolled(f, R, P, H, B, i) == IF i \in R THEN H[<<i, f[P[i]]>>] ELSE B[i]

Unrolls(f, D, V, R, P, H, B) ==
  f \in [D -> V] /\ \A i \in D : f[i] = Unrolled(f, R, P, H, B, i)

(* There is such a function when each call is for an argument with a       *)
(* smaller rank.                                                           *)
LEMMA RecursionExists ==
  ASSUME NEW D, NEW V, NEW R \in SUBSET D, NEW P \in [R -> D],
         NEW H \in [R \X V -> V], NEW B \in [D -> V],
         NEW N \in Nat, NEW rank \in [D -> 0 .. N],
         \A i \in R : rank[P[i]] < rank[i]
  PROVE  \E f : Unrolls(f, D, V, R, P, H, B)
<1> DEFINE Below(f, n) == \A i \in D : rank[i] < n => f[i] = Unrolled(f, R, P, H, B, i)
           S == {n \in Nat : \E f \in [D -> V] : Below(f, n)}
<1>1. 0 \in S
  <2>1. Below(B, 0)
    OBVIOUS
  <2>2. QED
    BY <2>1
<1>2. ASSUME NEW n \in Nat, n \in S PROVE n + 1 \in S
  <2>1. PICK f \in [D -> V] : Below(f, n)
    BY <1>2
  <2> DEFINE g == [i \in D |-> Unrolled(f, R, P, H, B, i)]
  <2>2. g \in [D -> V]
    <3>1. ASSUME NEW i \in D PROVE Unrolled(f, R, P, H, B, i) \in V
      <4>1. CASE i \in R
        <5>1. P[i] \in D
          BY <4>1
        <5>2. <<i, f[P[i]]>> \in R \X V
          BY <4>1, <5>1
        <5>3. QED
          BY <4>1, <5>2 DEF Unrolled
      <4>2. CASE i \notin R
        BY <4>2 DEF Unrolled
      <4>3. QED
        BY <4>1, <4>2
    <3>2. QED
      BY <3>1
  <2>3. \A i \in D : rank[i] < n => g[i] = f[i]
    BY <2>1
  <2>4. ASSUME NEW i \in D, rank[i] < n + 1
        PROVE  g[i] = Unrolled(g, R, P, H, B, i)
    <3>1. g[i] = Unrolled(f, R, P, H, B, i)
      OBVIOUS
    <3>2. ASSUME i \in R PROVE g[P[i]] = f[P[i]]
      <4>1. P[i] \in D /\ rank[P[i]] \in Nat /\ rank[i] \in Nat /\ rank[P[i]] < rank[i]
        BY <3>2
      <4>2. rank[P[i]] < n
        BY <2>4, <4>1
      <4> HIDE DEF g
      <4>3. QED
        BY <2>3, <4>1, <4>2
    <3> HIDE DEF g
    <3>3. QED
      BY <3>1, <3>2 DEF Unrolled
  <2> HIDE DEF g
  <2>5. QED
    BY <2>2, <2>4
<1>3. Nat \subseteq S
  <2> HIDE DEF S
  <2>1. QED
    BY <1>1, <1>2, Induction
<1>4. PICK f \in [D -> V] : Below(f, N + 1)
  <2>1. N + 1 \in S
    <3> HIDE DEF S
    <3>1. QED
      BY <1>3
  <2> HIDE DEF Below
  <2>2. QED
    BY <2>1
<1>5. \A i \in D : rank[i] < N + 1
  OBVIOUS
<1>6. Unrolls(f, D, V, R, P, H, B)
  BY <1>4, <1>5 DEF Unrolls
<1>7. QED
  BY <1>6
------------------------------------------------------------------------------
(* Sums over finite sets *)

Total(f, S) == MapThenSumSet(LAMBDA x : f[x], S)

(* The equation that MapThenSumSet chooses its function by: it takes the   *)
(* elements of a set in some order.                                        *)
Adds(h, f, S) ==
  h = [s \in SUBSET S |->
         IF s = {} THEN 0
         ELSE f[CHOOSE y \in s : TRUE] + h[s \ {CHOOSE y \in s : TRUE}]]

(* A sum may take them in any order. *)
Additive(g, f, S) ==
  /\ g \in [SUBSET S -> Int]
  /\ g[{}] = 0
  /\ \A s \in SUBSET S : \A x \in s : g[s] = f[x] + g[s \ {x}]

HasSum(f, S) == \E g : Additive(g, f, S)

(* One element more: its value is added to the sum of the others. *)
LEMMA SumWithElement ==
  ASSUME NEW S, NEW x \in S, NEW f \in [S -> Int], HasSum(f, S \ {x})
  PROVE  HasSum(f, S)
<1> DEFINE R == S \ {x}
<1>1. PICK g : Additive(g, f, R)
  BY DEF HasSum
<1> DEFINE h == [s \in SUBSET S |-> IF x \in s THEN f[x] + g[s \ {x}] ELSE g[s]]
<1>2. \A s \in SUBSET S : s \ {x} \in SUBSET R /\ (x \notin s => s \in SUBSET R)
  OBVIOUS
<1>3. \A s \in SUBSET R : g[s] \in Int
  BY <1>1 DEF Additive
<1>4. f[x] \in Int
  OBVIOUS
<1>5. h \in [SUBSET S -> Int]
  <2>1. \A s \in SUBSET S : (IF x \in s THEN f[x] + g[s \ {x}] ELSE g[s]) \in Int
    BY <1>2, <1>3, <1>4
  <2>2. QED
    BY <2>1
<1>6. h[{}] = 0
  BY <1>1 DEF Additive
<1>7. ASSUME NEW s \in SUBSET S, NEW y \in s PROVE h[s] = f[y] + h[s \ {y}]
  <2>1. s \ {y} \in SUBSET S
    OBVIOUS
  <2>2. CASE x \notin s
    <3>1. g[s] = f[y] + g[s \ {y}]
      BY <1>1, <1>2, <2>2 DEF Additive
    <3>2. QED
      BY <2>1, <2>2, <3>1
  <2>3. CASE x \in s /\ y = x
    BY <2>1, <2>3
  <2>4. CASE x \in s /\ y # x
    <3>1. y \in s \ {x} /\ s \ {x} \in SUBSET R /\ (s \ {x}) \ {y} \in SUBSET R
      BY <1>2, <2>4
    <3>2. g[s \ {x}] = f[y] + g[(s \ {x}) \ {y}]
      BY <1>1, <3>1 DEF Additive
    <3>3. (s \ {x}) \ {y} = (s \ {y}) \ {x} /\ x \in s \ {y}
      BY <2>4
    <3>4. h[s] = f[x] + g[s \ {x}] /\ h[s \ {y}] = f[x] + g[(s \ {x}) \ {y}]
      BY <2>1, <2>4, <3>3
    <3>5. f[y] \in Int /\ g[(s \ {x}) \ {y}] \in Int
      BY <1>3, <3>1
    <3> HIDE DEF h
    <3>6. QED
      BY <1>4, <3>2, <3>4, <3>5
  <2>5. QED
    BY <2>2, <2>3, <2>4
<1>8. QED
  <2> HIDE DEF h
  <2>1. Additive(h, f, S)
    BY <1>5, <1>6, <1>7 DEF Additive
  <2>2. QED
    BY <2>1 DEF HasSum

(* There is a function that adds up f over the subsets of a finite set.    *)
LEMMA SumExists ==
  ASSUME NEW S, IsFiniteSet(S), NEW f \in [S -> Int]
  PROVE  HasSum(f, S)
<1> DEFINE P(n) == \A T \in SUBSET S : Cardinality(T) = n => HasSum(f, T)
           N == {n \in Nat : P(n)}
<1>0. \A T \in SUBSET S : IsFiniteSet(T)
  BY FS_Subset
<1>1. P(0)
  <2>1. SUFFICES ASSUME NEW T \in SUBSET S, T = {} PROVE HasSum(f, T)
    BY <1>0, FS_EmptySet
  <2> DEFINE g == [s \in SUBSET T |-> 0]
  <2>2. Additive(g, f, T)
    BY <2>1 DEF Additive
  <2> HIDE DEF g
  <2>3. QED
    BY <2>2 DEF HasSum
<1>2. ASSUME NEW n \in Nat, P(n) PROVE P(n + 1)
  <2>1. SUFFICES ASSUME NEW T \in SUBSET S, Cardinality(T) = n + 1 PROVE HasSum(f, T)
    OBVIOUS
  <2>2. PICK x : x \in T
    <3>1. T # {}
      BY <2>1, FS_EmptySet
    <3>2. QED
      BY <3>1
  <2>3. HasSum(f, T \ {x})
    <3>1. Cardinality(T \ {x}) = n
      <4>1. Cardinality(T \ {x}) = Cardinality(T) - 1
        BY <1>0, <2>2, FS_RemoveElement
      <4>2. QED
        BY <2>1, <4>1
    <3>2. T \ {x} \in SUBSET S
      OBVIOUS
    <3>3. QED
      BY <1>2, <3>1, <3>2
  <2>4. HasSum([z \in T |-> f[z]], T)
    <3> DEFINE ff == [z \in T |-> f[z]]
    <3>1. ff \in [T -> Int]
      OBVIOUS
    <3>2. PICK g : Additive(g, f, T \ {x})
      BY <2>3 DEF HasSum
    <3>3. \A s \in SUBSET (T \ {x}) : \A y \in s : ff[y] = f[y]
      OBVIOUS
    <3> HIDE DEF ff
    <3>4. Additive(g, ff, T \ {x})
      BY <3>2, <3>3 DEF Additive
    <3>5. HasSum(ff, T \ {x})
      BY <3>4 DEF HasSum
    <3>6. HasSum(ff, T)
      BY <2>2, <3>1, <3>5, SumWithElement
    <3>7. QED
      BY <3>6 DEF ff
  <2>5. PICK g : Additive(g, [z \in T |-> f[z]], T)
    BY <2>4 DEF HasSum
  <2>6. \A s \in SUBSET T : \A y \in s : [z \in T |-> f[z]][y] = f[y]
    OBVIOUS
  <2>7. Additive(g, f, T)
    BY <2>5, <2>6 DEF Additive
  <2>8. QED
    BY <2>7 DEF HasSum
<1>3. Nat \subseteq N
  <2>1. 0 \in N /\ \A n \in Nat : n \in N => n + 1 \in N
    <3> HIDE DEF P
    <3>1. QED
      BY <1>1, <1>2
  <2> HIDE DEF N
  <2>2. QED
    BY <2>1, Induction
<1>4. Cardinality(S) \in Nat
  BY FS_CardinalityType
<1>5. P(Cardinality(S))
  <2> HIDE DEF P
  <2>1. QED
    BY <1>3, <1>4
<1>6. QED
  BY <1>5

(* The chosen order gives the sum that any order gives. *)
LEMMA SumUnique ==
  ASSUME NEW S, IsFiniteSet(S), NEW f, NEW g, Additive(g, f, S), NEW h, Adds(h, f, S)
  PROVE  \A s \in SUBSET S : h[s] = g[s]
<1> DEFINE P(n) == \A s \in SUBSET S : Cardinality(s) = n => h[s] = g[s]
           N == {n \in Nat : P(n)}
<1>0. \A s \in SUBSET S : IsFiniteSet(s) /\ Cardinality(s) \in Nat
  BY FS_Subset, FS_CardinalityType
<1>1. P(0)
  <2>1. \A s \in SUBSET S : Cardinality(s) = 0 => s = {}
    BY <1>0, FS_EmptySet
  <2>2. h[{}] = 0 /\ g[{}] = 0
    BY DEF Adds, Additive
  <2>3. QED
    BY <2>1, <2>2
<1>2. ASSUME NEW n \in Nat, P(n) PROVE P(n + 1)
  <2>1. SUFFICES ASSUME NEW s \in SUBSET S, Cardinality(s) = n + 1 PROVE h[s] = g[s]
    OBVIOUS
  <2>2. s # {}
    BY <2>1, FS_EmptySet
  <2> DEFINE x == CHOOSE y \in s : TRUE
  <2>3. x \in s
    BY <2>2
  <2>4. h[s] = f[x] + h[s \ {x}]
    BY <2>2 DEF Adds
  <2> HIDE DEF x
  <2>5. g[s] = f[x] + g[s \ {x}]
    BY <2>3 DEF Additive
  <2>6. Cardinality(s \ {x}) = n /\ s \ {x} \in SUBSET S
    <3>1. Cardinality(s \ {x}) = Cardinality(s) - 1
      BY <1>0, <2>3, FS_RemoveElement
    <3>2. QED
      BY <2>1, <3>1
  <2>7. QED
    BY <1>2, <2>4, <2>5, <2>6
<1>3. Nat \subseteq N
  <2>1. 0 \in N /\ \A n \in Nat : n \in N => n + 1 \in N
    <3> HIDE DEF P
    <3>1. QED
      BY <1>1, <1>2
  <2> HIDE DEF N
  <2>2. QED
    BY <2>1, Induction
<1>4. QED
  <2>1. \A n \in Nat : P(n)
    BY <1>3
  <2>2. QED
    BY <1>0, <2>1

(* What MapThenSumSet computes is that sum. *)
LEMMA ChosenSum ==
  ASSUME NEW S, IsFiniteSet(S), NEW f, NEW g, Additive(g, f, S)
  PROVE  g[S] = (CHOOSE h : Adds(h, f, S))[S]
<1> DEFINE h == CHOOSE k : Adds(k, f, S)
<1>1. Adds(g, f, S)
  <2>1. ASSUME NEW s \in SUBSET S
        PROVE  g[s] = IF s = {} THEN 0
                      ELSE f[CHOOSE y \in s : TRUE] + g[s \ {CHOOSE y \in s : TRUE}]
    <3>1. s # {} => (CHOOSE y \in s : TRUE) \in s
      OBVIOUS
    <3>2. QED
      BY <3>1 DEF Additive
  <2>2. g = [s \in SUBSET S |-> g[s]]
    BY DEF Additive
  <2>3. QED
    BY <2>1, <2>2 DEF Adds
<1>2. Adds(h, f, S)
  BY <1>1
<1>3. h[S] = g[S]
  <2> HIDE DEF h
  <2>1. QED
    BY <1>2, SumUnique
<1>4. QED
  BY <1>3

(* MapThenSumSet is that function.                                         *)
LEMMA TotalIsSum ==
  ASSUME NEW S, IsFiniteSet(S), NEW f, NEW g, Additive(g, f, S)
  PROVE  Total(f, S) = g[S]
<1>1. g[S] = (CHOOSE h : Adds(h, f, S))[S]
  BY ChosenSum
<1>2. QED
  BY <1>1 DEF Total, MapThenSumSet, MapThenFoldSet, Adds

(* The sum over a part of a set *)
LEMMA TotalOfPart ==
  ASSUME NEW S, IsFiniteSet(S), NEW f, NEW g, Additive(g, f, S)
  PROVE  \A T \in SUBSET S : Total(f, T) = g[T]
<1>1. SUFFICES ASSUME NEW T \in SUBSET S PROVE Total(f, T) = g[T]
  OBVIOUS
<1> DEFINE h == [s \in SUBSET T |-> g[s]]
<1>2. IsFiniteSet(T)
  BY FS_Subset
<1>3. Additive(h, f, T)
  <2>1. \A s \in SUBSET T : s \in SUBSET S /\ \A x \in s : s \ {x} \in SUBSET T
    OBVIOUS
  <2>2. h \in [SUBSET T -> Int] /\ h[{}] = 0
    BY <2>1 DEF Additive
  <2>3. \A s \in SUBSET T : \A x \in s : h[s] = f[x] + h[s \ {x}]
    BY <2>1 DEF Additive
  <2>4. QED
    <3> HIDE DEF h
    <3> QED BY <2>2, <2>3 DEF Additive
<1>4. h[T] = g[T]
  OBVIOUS
<1>5. Total(f, T) = h[T]
  <2> HIDE DEF h
  <2>1. QED
    BY <1>2, <1>3, TotalIsSum
<1>6. QED
  BY <1>4, <1>5

(* The sum over no element is 0, and an element adds its value. *)
LEMMA TotalAdds ==
  ASSUME NEW S, IsFiniteSet(S), NEW f \in [S -> Int]
  PROVE  /\ Total(f, {}) = 0
         /\ \A T \in SUBSET S : Total(f, T) \in Int
         /\ \A T \in SUBSET S : \A x \in T : Total(f, T) = f[x] + Total(f, T \ {x})
<1>1. PICK g : Additive(g, f, S)
  BY SumExists DEF HasSum
<1>2. \A T \in SUBSET S : Total(f, T) = g[T]
  BY <1>1, TotalOfPart
<1>3. QED
  BY <1>1, <1>2 DEF Additive

(* The sum over a set is that of any element and that of the rest.         *)
LEMMA TotalRemove ==
  ASSUME NEW S, IsFiniteSet(S), NEW f \in [S -> Int], NEW T \in SUBSET S, NEW x \in T
  PROVE  Total(f, T) = f[x] + Total(f, T \ {x})
BY TotalAdds

(* A sum of integers is an integer.                                        *)
LEMMA TotalType ==
  ASSUME NEW S, IsFiniteSet(S), NEW f \in [S -> Int], NEW T \in SUBSET S
  PROVE  Total(f, T) \in Int
BY TotalAdds

(* Functions that agree on a set have the same sum over it. *)
LEMMA TotalAgrees ==
  ASSUME NEW S, IsFiniteSet(S), NEW f, NEW h, \A x \in S : f[x] \in Int /\ h[x] = f[x]
  PROVE  Total(f, S) = Total(h, S)
<1> DEFINE ff == [x \in S |-> f[x]]
<1>1. ff \in [S -> Int]
  OBVIOUS
<1>2. \A x \in S : ff[x] = f[x] /\ ff[x] = h[x]
  OBVIOUS
<1> HIDE DEF ff
<1>3. PICK g : Additive(g, ff, S)
  BY <1>1, SumExists DEF HasSum
<1>4. Additive(g, f, S)
  BY <1>2, <1>3 DEF Additive
<1>5. Additive(g, h, S)
  BY <1>2, <1>3 DEF Additive
<1>6. QED
  BY <1>4, <1>5, TotalIsSum

(* The sum over a set with one more element.                               *)
LEMMA TotalWith ==
  ASSUME NEW S, IsFiniteSet(S), NEW f \in [S -> Int], NEW T \in SUBSET S, NEW x \in S \ T
  PROVE  Total(f, T \cup {x}) = f[x] + Total(f, T)
<1> DEFINE W == T \cup {x}
<1>1. W \in SUBSET S /\ x \in W
  OBVIOUS
<1>2. W \ {x} = T
  OBVIOUS
<1> HIDE DEF W
<1>3. Total(f, W) = f[x] + Total(f, W \ {x})
  BY <1>1, TotalRemove
<1>4. QED
  BY <1>2, <1>3 DEF W

(* One value changes by d. *)
Raised(h, f, S, x, d) == h[x] = f[x] + d /\ \A y \in S \ {x} : h[y] = f[y]

(* When one summand grows by d, the sum does.                              *)
LEMMA TotalUpdate ==
  ASSUME NEW S, IsFiniteSet(S), NEW f \in [S -> Int], NEW h \in [S -> Int],
         NEW x \in S, NEW d \in Int, Raised(h, f, S, x, d)
  PROVE  Total(h, S) = Total(f, S) + d
<1>1. IsFiniteSet(S \ {x})
  BY FS_RemoveElement
<1>2. Total(h, S \ {x}) = Total(f, S \ {x})
  <2>1. \A y \in S \ {x} : f[y] \in Int /\ h[y] = f[y]
    BY DEF Raised
  <2>2. QED
    BY <1>1, <2>1, TotalAgrees
<1>3. S \in SUBSET S /\ S \ {x} \in SUBSET S
  OBVIOUS
<1>4. Total(h, S) = h[x] + Total(h, S \ {x})
  BY <1>3, TotalAdds
<1>5. Total(f, S) = f[x] + Total(f, S \ {x}) /\ Total(f, S \ {x}) \in Int
  BY <1>3, TotalAdds
<1>6. f[x] \in Int
  OBVIOUS
<1>7. h[x] = f[x] + d
  BY DEF Raised
<1>8. QED
  BY <1>2, <1>4, <1>5, <1>6, <1>7

(* The sum of no numbers but zeros is zero. *)
LEMMA TotalZero ==
  ASSUME NEW S, IsFiniteSet(S), NEW f, \A x \in S : f[x] = 0
  PROVE  Total(f, S) = 0
<1> DEFINE g == [s \in SUBSET S |-> 0]
<1>1. Additive(g, f, S)
  BY DEF Additive
<1>2. g[S] = 0
  OBVIOUS
<1> HIDE DEF g
<1>3. QED
  BY <1>1, <1>2, TotalIsSum

(* The sum of multiples of u is a multiple of u. *)
LEMMA TotalScaled ==
  ASSUME NEW S, IsFiniteSet(S), NEW u \in Int, NEW k \in [S -> Int], NEW f,
         \A x \in S : f[x] = u * k[x]
  PROVE  \E m \in Int : Total(f, S) = u * m
<1>1. PICK g : Additive(g, k, S)
  BY SumExists DEF HasSum
<1> DEFINE h == [s \in SUBSET S |-> u * g[s]]
<1>2. \A s \in SUBSET S : g[s] \in Int
  BY <1>1 DEF Additive
<1>3. Additive(h, f, S)
  <2>1. h \in [SUBSET S -> Int]
    BY <1>2
  <2>2. h[{}] = 0
    <3>1. g[{}] = 0 /\ u * 0 = 0
      BY <1>1 DEF Additive
    <3>2. QED
      BY <3>1
  <2>3. ASSUME NEW s \in SUBSET S, NEW x \in s PROVE h[s] = f[x] + h[s \ {x}]
    <3>1. g[s] = k[x] + g[s \ {x}]
      BY <1>1 DEF Additive
    <3>2. k[x] \in Int /\ s \ {x} \in SUBSET S /\ g[s \ {x}] \in Int
      BY <1>2
    <3>3. u * (k[x] + g[s \ {x}]) = u * k[x] + u * g[s \ {x}]
      BY <3>2
    <3>4. h[s] = u * g[s] /\ h[s \ {x}] = u * g[s \ {x}]
      BY <3>2
    <3> HIDE DEF h
    <3>5. QED
      BY <3>1, <3>3, <3>4
  <2> HIDE DEF h
  <2>4. QED
    BY <2>1, <2>2, <2>3 DEF Additive
<1>4. h[S] = u * g[S] /\ g[S] \in Int
  BY <1>2
<1>5. Total(f, S) = h[S]
  <2> HIDE DEF h
  <2>1. QED
    BY <1>3, TotalIsSum
<1>6. QED
  BY <1>4, <1>5

(* Natural numbers over a part of a set add up to no more than over it. *)
LEMMA TotalMonotonic ==
  ASSUME NEW S, IsFiniteSet(S), NEW f \in [S -> Nat]
  PROVE  \A T \in SUBSET S : Total(f, T) <= Total(f, S)
<1> DEFINE P(n) == \A T \in SUBSET S : Cardinality(S \ T) = n => Total(f, T) <= Total(f, S)
           N == {n \in Nat : P(n)}
<1>0. \A T \in SUBSET S : IsFiniteSet(S \ T) /\ Cardinality(S \ T) \in Nat
  <2>1. \A T \in SUBSET S : S \ T \in SUBSET S
    OBVIOUS
  <2>2. QED
    BY <2>1, FS_Subset, FS_CardinalityType
<1>a. \A T \in SUBSET S : Total(f, T) \in Int /\ \A x \in T : Total(f, T) = f[x] + Total(f, T \ {x})
  <2>1. f \in [S -> Int]
    OBVIOUS
  <2>2. QED
    BY <2>1, TotalAdds
<1>1. P(0)
  <2>1. \A T \in SUBSET S : Cardinality(S \ T) = 0 => T = S
    BY <1>0, FS_EmptySet
  <2>2. Total(f, S) <= Total(f, S)
    BY <1>a
  <2>3. QED
    BY <2>1, <2>2
<1>2. ASSUME NEW n \in Nat, P(n) PROVE P(n + 1)
  <2>1. SUFFICES ASSUME NEW T \in SUBSET S, Cardinality(S \ T) = n + 1
                 PROVE  Total(f, T) <= Total(f, S)
    OBVIOUS
  <2>2. PICK x : x \in S \ T
    <3>1. S \ T # {}
      BY <2>1, FS_EmptySet
    <3>2. QED
      BY <3>1
  <2>3. Total(f, T \cup {x}) <= Total(f, S)
    <3>1. S \ (T \cup {x}) = (S \ T) \ {x} /\ T \cup {x} \in SUBSET S
      BY <2>2
    <3>2. Cardinality((S \ T) \ {x}) = Cardinality(S \ T) - 1
      BY <1>0, <2>2, FS_RemoveElement
    <3>3. Cardinality(S \ (T \cup {x})) = n
      <4>1. Cardinality((S \ T) \ {x}) = n
        BY <2>1, <3>2
      <4>2. QED
        BY ONLY <3>1, <4>1
    <3>4. QED
      BY <1>2, <3>1, <3>3
  <2>4. Total(f, T \cup {x}) = f[x] + Total(f, T)
    <3>1. T \cup {x} \in SUBSET S /\ x \in T \cup {x} /\ (T \cup {x}) \ {x} = T
      BY <2>2
    <3>2. QED
      BY <1>a, <3>1
  <2>5. f[x] \in Nat /\ Total(f, T) \in Int /\ Total(f, S) \in Int
    BY <1>a, <2>2
  <2>6. QED
    BY <2>3, <2>4, <2>5
<1>3. Nat \subseteq N
  <2>1. 0 \in N /\ \A n \in Nat : n \in N => n + 1 \in N
    <3> HIDE DEF P
    <3>1. QED
      BY <1>1, <1>2
  <2> HIDE DEF N
  <2>2. QED
    BY <2>1, Induction
<1>4. QED
  <2>1. \A n \in Nat : P(n)
    BY <1>3
  <2>2. QED
    BY <1>0, <2>1
==============================================================================
