------------------------- MODULE PriorityQueueProofs -------------------------
(***************************************************************************)
(* The heap of rmutil for every comparison, every size and every use of    *)
(* the vector: sift_up, sift_down and Make_Heap make heaps and only move   *)
(* the elements, so that the queue gives back a greatest one and loses     *)
(* none.                                                                   *)
(***************************************************************************)
EXTENDS PriorityQueue, FoldTheorems

(* The cells of a vector of capacity n *)
Arrays(n) == [0 .. n - 1 -> Elems]

(* No element in cell j greater than its parent *)
InOrder(d, j) == Key[d[j]] <= Key[d[Parent(j)]]

(* Each cell but the first has a parent before it. *)
LEMMA ParentBefore ==
  ASSUME NEW j \in Nat, j > 0
  PROVE  Parent(j) \in Nat /\ Parent(j) < j
BY DEF Parent

(* The children of a cell *)
LEMMA Children ==
  ASSUME NEW j \in Nat, j > 0, NEW i \in Nat
  PROVE  Parent(j) = i <=> j = 2 * i + 1 \/ j = 2 * i + 2
BY DEF Parent

(* Keys are integers. *)
LEMMA KeyType == \A e \in Elems : Key[e] \in Int
BY HeapAssumption

(* An array with one cell changed *)
LEMMA CellChanged ==
  ASSUME NEW n \in Nat, NEW d \in Arrays(n), NEW i \in 0 .. n - 1, NEW e \in Elems
  PROVE  /\ [d EXCEPT ![i] = e] \in Arrays(n)
         /\ [d EXCEPT ![i] = e][i] = e
         /\ \A j \in 0 .. n - 1 : j # i => [d EXCEPT ![i] = e][j] = d[j]
BY DEF Arrays
------------------------------------------------------------------------------
(* sift_up.  The equation of its recursive function: *)
Lifted(f, d, t, i) ==
  IF i > 0 /\ Less(d[Parent(i)], t) THEN [f[Parent(i)] EXCEPT ![i] = d[Parent(i)]]
  ELSE [d EXCEPT ![i] = t]

Lifts(f, n, d, t) == f = [i \in 0 .. n - 1 |-> Lifted(f, d, t, i)]

(* It has a solution, because the hole moves to a smaller index. *)
LEMMA LiftExists ==
  ASSUME NEW n \in Nat, NEW d \in Arrays(n), NEW t \in Elems
  PROVE  \E f : Lifts(f, n, d, t)
<1> DEFINE D == 0 .. n - 1
           V == Arrays(n)
           R == {i \in D : i > 0 /\ Less(d[Parent(i)], t)}
           P == [i \in R |-> Parent(i)]
           H == [x \in R \X V |-> [x[2] EXCEPT ![x[1]] = d[Parent(x[1])]]]
           B == [i \in D |-> [d EXCEPT ![i] = t]]
           rank == [i \in D |-> i]
<1>1. \A i \in R : Parent(i) \in D /\ Parent(i) < i
  BY ParentBefore
<1>2. P \in [R -> D]
  BY <1>1
<1>3. H \in [R \X V -> V]
  <2>1. ASSUME NEW x \in R \X V PROVE [x[2] EXCEPT ![x[1]] = d[Parent(x[1])]] \in V
    <3>1. x[1] \in D /\ x[2] \in V /\ Parent(x[1]) \in D
      BY <1>1
    <3>2. d[Parent(x[1])] \in Elems
      BY <3>1 DEF Arrays
    <3>3. QED
      BY <3>1, <3>2, CellChanged
  <2>2. QED
    BY <2>1
<1>4. B \in [D -> V]
  BY CellChanged
<1>5. rank \in [D -> 0 .. n] /\ \A i \in R : rank[P[i]] < rank[i]
  BY <1>1
<1>6. \E f : Unrolls(f, D, V, R, P, H, B)
  <2>1. R \in SUBSET D
    OBVIOUS
  <2> HIDE DEF D, V, R, P, H, B, rank
  <2>2. QED
    BY <1>2, <1>3, <1>4, <1>5, <2>1, RecursionExists
<1>7. PICK f : Unrolls(f, D, V, R, P, H, B)
  BY <1>6
<1>8. ASSUME NEW i \in D PROVE f[i] = Lifted(f, d, t, i)
  <2>1. f \in [D -> V] /\ f[i] = Unrolled(f, R, P, H, B, i)
    BY <1>7 DEF Unrolls
  <2>2. CASE i \in R
    <3>1. P[i] \in D /\ P[i] = Parent(i)
      BY <1>1, <2>2
    <3>2. <<i, f[P[i]]>> \in R \X V
      BY <2>1, <2>2, <3>1
    <3>3. H[<<i, f[P[i]]>>] = [f[P[i]] EXCEPT ![i] = d[Parent(i)]]
      BY <3>2
    <3>4. QED
      BY <2>1, <2>2, <3>1, <3>3 DEF Unrolled, Lifted
  <2>3. CASE i \notin R
    BY <2>1, <2>3 DEF Unrolled, Lifted
  <2>4. QED
    BY <2>2, <2>3
<1>9. f = [i \in D |-> Lifted(f, d, t, i)]
  <2>1. f \in [D -> V]
    BY <1>7 DEF Unrolls
  <2>2. QED
    BY <1>8, <2>1
<1>10. QED
  BY <1>9 DEF Lifts

(* sift_up reads a solution. *)
LEMMA SiftUpLifts ==
  ASSUME NEW n \in Nat, NEW d \in Arrays(n), NEW len \in 1 .. n
  PROVE  \E f : /\ \A i \in 0 .. n - 1 : f[i] = Lifted(f, d, d[len - 1], i)
                /\ sift_up(d, len) = IF len > 1 THEN f[len - 1] ELSE d
<1> DEFINE t == d[len - 1]
           Eqn(f) == f = [i \in DOMAIN d |-> Lifted(f, d, t, i)]
           k == CHOOSE f : Eqn(f)
<1>1. t \in Elems /\ DOMAIN d = 0 .. n - 1
  BY DEF Arrays
<1>2. PICK f : Lifts(f, n, d, t)
  <2> HIDE DEF t
  <2>1. QED
    BY <1>1, LiftExists
<1>3. Eqn(f)
  BY <1>1, <1>2 DEF Lifts
<1>4. Eqn(k)
  BY <1>3
<1>5. sift_up(d, len) = IF len > 1 THEN k[len - 1] ELSE d
  BY DEF sift_up, Lifted
<1> HIDE DEF k
<1>6. \A i \in 0 .. n - 1 : k[i] = Lifted(k, d, t, i)
  BY <1>1, <1>4
<1>7. QED
  BY <1>5, <1>6

(* With the hole at i, t or the element above it comes into the hole: no   *)
(* other cell gets a smaller element, neither does the hole when t is not  *)
(* smaller than what it held, the cells up to the hole are in order, and   *)
(* those behind it are as they were.                                       *)
LiftedHeap(g, n, d, t, i) ==
  /\ g \in Arrays(n)
  /\ \A j \in 0 .. n - 1 : j # i => Key[d[j]] <= Key[g[j]]
  /\ \A j \in 0 .. n - 1 : j > i => g[j] = d[j]
  /\ (i = 0 \/ InOrder(d, i)) /\ Key[d[i]] <= Key[t] => Key[d[i]] <= Key[g[i]]
  /\ \A j \in 1 .. i : InOrder(g, j)

(* t belongs into the hole.                                                *)
LEMMA LiftStays ==
  ASSUME NEW n \in Nat, NEW d \in Arrays(n), NEW t \in Elems, NEW i \in 0 .. n - 1,
         \A j \in 1 .. i - 1 : InOrder(d, j),
         i = 0 \/ Key[t] <= Key[d[Parent(i)]]
  PROVE  LiftedHeap([d EXCEPT ![i] = t], n, d, t, i)
<1> DEFINE g == [d EXCEPT ![i] = t]
<1>1. g \in Arrays(n) /\ g[i] = t /\ \A j \in 0 .. n - 1 : j # i => g[j] = d[j]
  BY CellChanged
<1> HIDE DEF g
<1>2. \A j \in 0 .. n - 1 : Key[d[j]] \in Int
  BY KeyType DEF Arrays
<1>3. Key[t] \in Int
  BY KeyType
<1>4. ASSUME NEW j \in 1 .. i PROVE InOrder(g, j)
  <2>1. j \in 0 .. n - 1 /\ Parent(j) \in 0 .. n - 1 /\ Parent(j) # i
    BY ParentBefore
  <2>2. g[Parent(j)] = d[Parent(j)]
    BY <1>1, <2>1
  <2>3. CASE j = i
    BY <1>1, <2>2, <2>3 DEF InOrder
  <2>4. CASE j # i
    <3>1. g[j] = d[j] /\ j \in 1 .. i - 1
      BY <1>1, <2>1, <2>4
    <3>2. QED
      BY <2>2, <3>1 DEF InOrder
  <2>5. QED
    BY <2>3, <2>4
<1>5. LiftedHeap(g, n, d, t, i)
  BY <1>1, <1>2, <1>3, <1>4 DEF LiftedHeap
<1>6. QED
  BY <1>5 DEF g

(* The parent belongs into the hole, and the hole goes to its cell.        *)
LEMMA LiftMoves ==
  ASSUME NEW n \in Nat, NEW d \in Arrays(n), NEW t \in Elems, NEW i \in 1 .. n - 1,
         \A j \in 1 .. i - 1 : InOrder(d, j),
         NEW h, LiftedHeap(h, n, d, t, Parent(i)), Key[d[Parent(i)]] < Key[t]
  PROVE  LiftedHeap([h EXCEPT ![i] = d[Parent(i)]], n, d, t, i)
<1> DEFINE p == Parent(i)
           g == [h EXCEPT ![i] = d[p]]
<1>1. p \in 0 .. i - 1 /\ p \in 0 .. n - 1 /\ p # i /\ i \in 0 .. n - 1
  BY ParentBefore
<1>2. /\ h \in Arrays(n)
      /\ \A j \in 0 .. n - 1 : j # p => Key[d[j]] <= Key[h[j]]
      /\ \A j \in 0 .. n - 1 : j > p => h[j] = d[j]
      /\ (p = 0 \/ InOrder(d, p)) /\ Key[d[p]] <= Key[t] => Key[d[p]] <= Key[h[p]]
      /\ \A j \in 1 .. p : InOrder(h, j)
  BY DEF LiftedHeap
<1>3. d[p] \in Elems
  BY <1>1 DEF Arrays
<1>4. g \in Arrays(n) /\ g[i] = d[p] /\ \A j \in 0 .. n - 1 : j # i => g[j] = h[j]
  BY <1>1, <1>2, <1>3, CellChanged
<1>5. \A j \in 0 .. n - 1 : Key[d[j]] \in Int /\ Key[h[j]] \in Int /\ Key[g[j]] \in Int
  BY <1>2, <1>4, KeyType DEF Arrays
<1>t. Key[t] \in Int /\ Key[d[p]] < Key[t]
  BY KeyType
<1> HIDE DEF g, p
<1>6. \A j \in 0 .. n - 1 : j # i => Key[d[j]] <= Key[g[j]]
  BY <1>1, <1>2, <1>4, <1>5, <1>t
<1>7. \A j \in 0 .. n - 1 : j > i => g[j] = d[j]
  BY <1>1, <1>2, <1>4
<1>8. Key[d[p]] <= Key[g[p]]
  <2>1. p = 0 \/ InOrder(d, p)
    BY <1>1
  <2>2. Key[d[p]] <= Key[t]
    BY <1>1, <1>5, <1>t
  <2>3. QED
    BY <1>1, <1>2, <1>4, <2>1, <2>2
<1>9. ASSUME NEW j \in 1 .. i PROVE InOrder(g, j)
  <2>1. /\ j \in 0 .. n - 1 /\ Parent(j) \in 0 .. n - 1 /\ Parent(j) # i
        /\ Parent(j) < j
    BY ParentBefore
  <2>2. CASE j = i
    BY <1>1, <1>4, <1>5, <1>8, <1>t, <2>2 DEF InOrder, p
  <2>3. CASE j # i /\ j <= p
    BY <1>1, <1>2, <1>4, <2>1, <2>3 DEF InOrder
  <2>4. CASE j # i /\ j > p
    <3>1. g[j] = d[j] /\ g[Parent(j)] = h[Parent(j)]
      BY <1>2, <1>4, <2>1, <2>4
    <3>2. Key[d[j]] <= Key[d[Parent(j)]]
      BY <2>4 DEF InOrder
    <3>3. Key[d[Parent(j)]] <= Key[h[Parent(j)]]
      BY <1>1, <1>2, <1>5, <1>t, <2>1
    <3>4. QED
      BY <1>5, <2>1, <3>1, <3>2, <3>3 DEF InOrder
  <2>5. QED
    BY <1>1, <2>2, <2>3, <2>4
<1>a. InOrder(d, i) => Key[d[i]] <= Key[g[i]]
  BY <1>4 DEF InOrder, p
<1>10. LiftedHeap(g, n, d, t, i)
  BY <1>1, <1>4, <1>6, <1>7, <1>9, <1>a DEF LiftedHeap
<1>11. QED
  BY <1>10 DEF g, p

(* What sift_up makes of the vector with the hole at each cell *)
LEMMA LiftGoes ==
  ASSUME NEW n \in Nat, NEW d \in Arrays(n), NEW t \in Elems, NEW len \in 1 .. n,
         \A j \in 1 .. len - 2 : InOrder(d, j),
         NEW f, \A i \in 0 .. n - 1 : f[i] = Lifted(f, d, t, i)
  PROVE  \A i \in 0 .. len - 1 : LiftedHeap(f[i], n, d, t, i)
<1> DEFINE S == {i \in Nat : i < len => LiftedHeap(f[i], n, d, t, i)}
<1>1. ASSUME NEW i \in Nat, \A m \in 0 .. i - 1 : m \in S PROVE i \in S
  <2>1. SUFFICES ASSUME i < len PROVE LiftedHeap(f[i], n, d, t, i)
    OBVIOUS
  <2>2. i \in 0 .. n - 1 /\ f[i] = Lifted(f, d, t, i)
    BY <2>1
  <2>3. \A j \in 1 .. i - 1 : InOrder(d, j)
    BY <2>1
  <2>4. CASE i > 0 /\ Less(d[Parent(i)], t)
    <3>1. Parent(i) \in 0 .. i - 1
      BY <2>4, ParentBefore
    <3>2. LiftedHeap(f[Parent(i)], n, d, t, Parent(i))
      BY <1>1, <2>1, <3>1
    <3>3. LiftedHeap([f[Parent(i)] EXCEPT ![i] = d[Parent(i)]], n, d, t, i)
      <4>1. i \in 1 .. n - 1 /\ Key[d[Parent(i)]] < Key[t]
        BY <2>2, <2>4 DEF Less
      <4>2. QED
        BY <2>3, <3>2, <4>1, LiftMoves
    <3>4. QED
      BY <2>2, <2>4, <3>3 DEF Lifted
  <2>5. CASE ~(i > 0 /\ Less(d[Parent(i)], t))
    <3>1. i = 0 \/ Key[t] <= Key[d[Parent(i)]]
      <4>1. SUFFICES ASSUME i > 0 PROVE Key[t] <= Key[d[Parent(i)]]
        OBVIOUS
      <4>2. Parent(i) \in 0 .. n - 1
        BY <2>2, <4>1, ParentBefore
      <4>3. d[Parent(i)] \in Elems
        BY <4>2 DEF Arrays
      <4>4. Key[t] \in Int /\ Key[d[Parent(i)]] \in Int
        BY <4>3, KeyType
      <4>5. QED
        BY <2>5, <4>1, <4>4 DEF Less
    <3>2. LiftedHeap([d EXCEPT ![i] = t], n, d, t, i)
      BY <2>2, <2>3, <3>1, LiftStays
    <3>3. QED
      BY <2>2, <2>5, <3>2 DEF Lifted
  <2>6. QED
    BY <2>4, <2>5
<1>2. Nat \subseteq S
  <2> HIDE DEF S
  <2>1. QED
    BY <1>1, StrongInduction
<1>3. QED
  BY <1>2

(* sift_up makes a heap of one with an element behind it.                  *)
LEMMA SiftUpOrders ==
  ASSUME NEW n \in Nat, NEW d \in Arrays(n), NEW len \in 1 .. n,
         \A j \in 1 .. len - 2 : InOrder(d, j)
  PROVE  /\ sift_up(d, len) \in Arrays(n)
         /\ \A j \in 1 .. len - 1 : InOrder(sift_up(d, len), j)
<1> DEFINE t == d[len - 1]
<1>1. t \in Elems
  BY DEF Arrays
<1>2. PICK f : /\ \A i \in 0 .. n - 1 : f[i] = Lifted(f, d, t, i)
               /\ sift_up(d, len) = IF len > 1 THEN f[len - 1] ELSE d
  BY SiftUpLifts
<1>3. LiftedHeap(f[len - 1], n, d, t, len - 1)
  <2> HIDE DEF t
  <2>1. \A i \in 0 .. len - 1 : LiftedHeap(f[i], n, d, t, i)
    BY <1>1, <1>2, LiftGoes
  <2>2. QED
    BY <2>1
<1>4. QED
  BY <1>2, <1>3 DEF LiftedHeap
------------------------------------------------------------------------------
(* sift_down.  The equation of its recursive function: *)
Sunk(f, d, len, t, i) ==
  LET c == Child(d, len, i)
  IN  IF 2 * i + 1 < len /\ ~Less(d[c], t) THEN [f[c] EXCEPT ![i] = d[c]]
      ELSE [d EXCEPT ![i] = t]

Sinks(f, n, d, len, t) == f = [i \in 0 .. n - 1 |-> Sunk(f, d, len, t, i)]

(* The child of a cell that has one is in the heap, and the greatest.      *)
LEMMA ChildIsGreatest ==
  ASSUME NEW n \in Nat, NEW d \in Arrays(n), NEW len \in 1 .. n, NEW i \in Nat,
         2 * i + 1 < len
  PROVE  LET c == Child(d, len, i)
         IN  /\ c \in 1 .. len - 1 /\ c > i /\ Parent(c) = i
             /\ \A j \in 1 .. len - 1 : Parent(j) = i => Key[d[j]] <= Key[d[c]]
<1> DEFINE c == Child(d, len, i)
<1>1. \A j \in 0 .. n - 1 : Key[d[j]] \in Int
  BY KeyType DEF Arrays
<1>2. c = 2 * i + 1 \/ (c = 2 * i + 2 /\ 2 * i + 2 < len)
  BY DEF Child
<1>3. c \in 1 .. len - 1 /\ c > i
  <2> HIDE DEF c
  <2>1. QED
    BY <1>2
<1>4. Parent(c) = i
  <2> HIDE DEF c
  <2>1. QED
    BY <1>2, <1>3, Children
<1>5. ASSUME NEW j \in 1 .. len - 1, Parent(j) = i PROVE Key[d[j]] <= Key[d[c]]
  <2>1. j = 2 * i + 1 \/ j = 2 * i + 2
    BY <1>5, Children
  <2>2. Key[d[j]] \in Int
    BY <1>1
  <2>3. CASE 2 * i + 2 < len /\ Less(d[2 * i + 1], d[2 * i + 2])
    <3>1. c = 2 * i + 2
      BY <2>3 DEF Child
    <3>2. Key[d[2 * i + 1]] < Key[d[2 * i + 2]]
      BY <2>3 DEF Less
    <3>3. Key[d[2 * i + 1]] \in Int /\ Key[d[2 * i + 2]] \in Int
      BY <1>1, <2>3
    <3>4. QED
      BY <2>1, <2>2, <3>1, <3>2, <3>3
  <2>4. CASE ~(2 * i + 2 < len /\ Less(d[2 * i + 1], d[2 * i + 2]))
    <3>1. c = 2 * i + 1
      BY <2>4 DEF Child
    <3>2. CASE j = 2 * i + 1
      BY <2>2, <3>1, <3>2
    <3>3. CASE j = 2 * i + 2
      <4>1. 2 * i + 2 < len
        BY <3>3
      <4>2. ~(Key[d[2 * i + 1]] < Key[d[2 * i + 2]])
        BY <2>4, <4>1 DEF Less
      <4>3. Key[d[2 * i + 1]] \in Int /\ Key[d[2 * i + 2]] \in Int
        BY <1>1, <4>1
      <4>4. QED
        BY <3>1, <3>3, <4>2, <4>3
    <3>4. QED
      BY <2>1, <3>2, <3>3
  <2>5. QED
    BY <2>3, <2>4
<1>6. QED
  BY <1>3, <1>4, <1>5

(* The equation has a solution, because the hole moves to a greater index. *)
LEMMA SinkExists ==
  ASSUME NEW n \in Nat, NEW d \in Arrays(n), NEW t \in Elems, NEW len \in 1 .. n
  PROVE  \E f : Sinks(f, n, d, len, t)
<1> DEFINE D == 0 .. n - 1
           V == Arrays(n)
           C(i) == Child(d, len, i)
           R == {i \in D : 2 * i + 1 < len /\ ~Less(d[C(i)], t)}
           P == [i \in R |-> C(i)]
           H == [x \in R \X V |-> [x[2] EXCEPT ![x[1]] = d[C(x[1])]]]
           B == [i \in D |-> [d EXCEPT ![i] = t]]
           rank == [i \in D |-> n - i]
<1>1. \A i \in R : C(i) \in D /\ C(i) > i
  <2>1. ASSUME NEW i \in R PROVE C(i) \in 1 .. len - 1 /\ C(i) > i
    BY ChildIsGreatest
  <2> HIDE DEF C
  <2>2. QED
    BY <2>1
<1>2. P \in [R -> D]
  BY <1>1
<1>3. H \in [R \X V -> V]
  <2>1. ASSUME NEW x \in R \X V PROVE [x[2] EXCEPT ![x[1]] = d[C(x[1])]] \in V
    <3>1. x[1] \in D /\ x[2] \in V /\ C(x[1]) \in D
      BY <1>1
    <3> HIDE DEF C
    <3>2. d[C(x[1])] \in Elems
      BY <3>1 DEF Arrays
    <3>3. QED
      BY <3>1, <3>2, CellChanged
  <2>2. QED
    BY <2>1
<1>4. B \in [D -> V]
  BY CellChanged
<1>5. rank \in [D -> 0 .. n] /\ \A i \in R : rank[P[i]] < rank[i]
  <2>1. rank \in [D -> 0 .. n]
    OBVIOUS
  <2>2. ASSUME NEW i \in R PROVE rank[P[i]] < rank[i]
    <3>1. P[i] = C(i) /\ C(i) \in D /\ C(i) > i /\ i \in D
      BY <1>1
    <3> HIDE DEF P, C, R
    <3>2. QED
      BY <3>1
  <2>3. QED
    BY <2>1, <2>2
<1>6. \E f : Unrolls(f, D, V, R, P, H, B)
  <2>1. R \in SUBSET D
    OBVIOUS
  <2> HIDE DEF D, V, R, P, H, B, rank
  <2>2. QED
    BY <1>2, <1>3, <1>4, <1>5, <2>1, RecursionExists
<1>7. PICK f : Unrolls(f, D, V, R, P, H, B)
  BY <1>6
<1>8. ASSUME NEW i \in D PROVE f[i] = Sunk(f, d, len, t, i)
  <2>1. f \in [D -> V] /\ f[i] = Unrolled(f, R, P, H, B, i)
    BY <1>7 DEF Unrolls
  <2>2. CASE i \in R
    <3>1. P[i] \in D /\ P[i] = C(i)
      BY <1>1, <2>2
    <3>2. <<i, f[P[i]]>> \in R \X V
      BY <2>1, <2>2, <3>1
    <3>3. H[<<i, f[P[i]]>>] = [f[P[i]] EXCEPT ![i] = d[C(i)]]
      BY <3>2
    <3>4. QED
      BY <2>1, <2>2, <3>1, <3>3 DEF Unrolled, Sunk
  <2>3. CASE i \notin R
    BY <2>1, <2>3 DEF Unrolled, Sunk
  <2>4. QED
    BY <2>2, <2>3
<1>9. f = [i \in D |-> Sunk(f, d, len, t, i)]
  <2>1. f \in [D -> V]
    BY <1>7 DEF Unrolls
  <2>2. QED
    BY <1>8, <2>1
<1>10. QED
  BY <1>9 DEF Sinks

(* sift_down reads a solution. *)
LEMMA SiftDownSinks ==
  ASSUME NEW n \in Nat, NEW d \in Arrays(n), NEW len \in 1 .. n, NEW start \in 0 .. n - 1
  PROVE  \E f : /\ \A i \in 0 .. n - 1 : f[i] = Sunk(f, d, len, d[start], i)
                /\ sift_down(d, len, start) = f[start]
<1> DEFINE t == d[start]
           Eqn(f) == f = [i \in DOMAIN d |-> Sunk(f, d, len, t, i)]
           k == CHOOSE f : Eqn(f)
<1>1. t \in Elems /\ DOMAIN d = 0 .. n - 1
  BY DEF Arrays
<1>2. PICK f : Sinks(f, n, d, len, t)
  <2> HIDE DEF t
  <2>1. QED
    BY <1>1, SinkExists
<1>3. Eqn(f)
  BY <1>1, <1>2 DEF Sinks
<1>4. Eqn(k)
  BY <1>3
<1>5. sift_down(d, len, start) = k[start]
  BY DEF sift_down, Sunk
<1> HIDE DEF k
<1>6. \A i \in 0 .. n - 1 : k[i] = Sunk(k, d, len, t, i)
  BY <1>1, <1>4
<1>7. QED
  BY <1>5, <1>6

(* The cells whose parent is i or behind it are in order. *)
OrderedFrom(d, len, i) == \A j \in 1 .. len - 1 : Parent(j) >= i => InOrder(d, j)

(* With the hole at i, t or the greater child comes into the hole: no      *)
(* other cell gets a greater element, neither does the hole when its       *)
(* children were in order and t is not greater than what it held; the      *)
(* cells below the hole are in order, and those before it and behind the   *)
(* heap are as they were.                                                  *)
SunkHeap(g, n, d, len, t, i) ==
  /\ g \in Arrays(n)
  /\ \A j \in 0 .. n - 1 : j < i \/ j >= len => g[j] = d[j]
  /\ \A j \in 0 .. n - 1 : j # i => Key[g[j]] <= Key[d[j]]
  /\ OrderedFrom(d, len, i) /\ Key[t] <= Key[d[i]] => Key[g[i]] <= Key[d[i]]
  /\ OrderedFrom(g, len, i)

(* t belongs into the hole.                                                *)
LEMMA SinkStays ==
  ASSUME NEW n \in Nat, NEW d \in Arrays(n), NEW len \in 1 .. n, NEW t \in Elems,
         NEW i \in 0 .. len - 1, OrderedFrom(d, len, i + 1),
         2 * i + 1 < len => Key[d[Child(d, len, i)]] < Key[t]
  PROVE  SunkHeap([d EXCEPT ![i] = t], n, d, len, t, i)
<1> DEFINE g == [d EXCEPT ![i] = t]
<1>0. i \in 0 .. n - 1
  OBVIOUS
<1>1. g \in Arrays(n) /\ g[i] = t /\ \A j \in 0 .. n - 1 : j # i => g[j] = d[j]
  BY <1>0, CellChanged
<1> HIDE DEF g
<1>2. \A j \in 0 .. n - 1 : Key[d[j]] \in Int
  BY KeyType DEF Arrays
<1>3. Key[t] \in Int
  BY KeyType
<1>4. ASSUME NEW j \in 1 .. len - 1, Parent(j) >= i PROVE InOrder(g, j)
  <2>1. /\ j \in 0 .. n - 1 /\ Parent(j) \in 0 .. n - 1 /\ Parent(j) < j
    BY ParentBefore
  <2>2. g[j] = d[j]
    BY <1>1, <1>4, <2>1
  <2>3. CASE Parent(j) = i
    <3>1. 2 * i + 1 < len
      BY <2>3, Children
    <3>2. Child(d, len, i) \in 0 .. n - 1 /\ Key[d[j]] <= Key[d[Child(d, len, i)]]
      BY <2>3, <3>1, ChildIsGreatest
    <3>3. Key[d[j]] <= Key[t]
      BY <1>2, <1>3, <2>1, <3>1, <3>2
    <3>4. QED
      BY <1>1, <2>2, <2>3, <3>3 DEF InOrder
  <2>4. CASE Parent(j) # i
    <3>1. g[Parent(j)] = d[Parent(j)]
      BY <1>1, <2>1, <2>4
    <3>2. InOrder(d, j)
      BY <1>4, <2>1, <2>4 DEF OrderedFrom
    <3>3. QED
      BY <2>2, <3>1, <3>2 DEF InOrder
  <2>5. QED
    BY <2>3, <2>4
<1>5. OrderedFrom(g, len, i)
  BY <1>4 DEF OrderedFrom
<1>6. SunkHeap(g, n, d, len, t, i)
  BY <1>1, <1>2, <1>3, <1>5 DEF SunkHeap
<1>7. QED
  BY <1>6 DEF g

(* The greater child belongs into the hole, and the hole goes to its cell. *)
LEMMA SinkMoves ==
  ASSUME NEW n \in Nat, NEW d \in Arrays(n), NEW len \in 1 .. n, NEW t \in Elems,
         NEW i \in 0 .. len - 1, OrderedFrom(d, len, i + 1), 2 * i + 1 < len,
         Key[t] <= Key[d[Child(d, len, i)]],
         NEW h, SunkHeap(h, n, d, len, t, Child(d, len, i))
  PROVE  SunkHeap([h EXCEPT ![i] = d[Child(d, len, i)]], n, d, len, t, i)
<1> DEFINE c == Child(d, len, i)
           g == [h EXCEPT ![i] = d[c]]
<1>1. /\ c \in 1 .. len - 1 /\ c > i /\ Parent(c) = i
      /\ \A j \in 1 .. len - 1 : Parent(j) = i => Key[d[j]] <= Key[d[c]]
  BY ChildIsGreatest
<1>2. /\ h \in Arrays(n)
      /\ \A j \in 0 .. n - 1 : j < c \/ j >= len => h[j] = d[j]
      /\ \A j \in 0 .. n - 1 : j # c => Key[h[j]] <= Key[d[j]]
      /\ OrderedFrom(d, len, c) /\ Key[t] <= Key[d[c]] => Key[h[c]] <= Key[d[c]]
      /\ OrderedFrom(h, len, c)
  BY DEF SunkHeap
<1>t. Key[t] <= Key[d[c]]
  OBVIOUS
<1> HIDE DEF c
<1>a. i \in 0 .. n - 1 /\ c \in 0 .. n - 1
  BY <1>1
<1>3. d[c] \in Elems
  BY <1>a DEF Arrays
<1>4. g \in Arrays(n) /\ g[i] = d[c] /\ \A j \in 0 .. n - 1 : j # i => g[j] = h[j]
  BY <1>2, <1>3, <1>a, CellChanged
<1>5. \A j \in 0 .. n - 1 : Key[d[j]] \in Int /\ Key[h[j]] \in Int /\ Key[g[j]] \in Int
  BY <1>2, <1>4, KeyType DEF Arrays
<1>6. OrderedFrom(d, len, c)
  <2>1. \A j \in 1 .. len - 1 : Parent(j) \in Nat
    BY ParentBefore
  <2>2. QED
    BY <1>1, <2>1 DEF OrderedFrom
<1>7. \A j \in 0 .. n - 1 : Key[h[j]] <= Key[d[j]]
  BY <1>2, <1>6, <1>t
<1> HIDE DEF g
<1>8. \A j \in 0 .. n - 1 : j < i \/ j >= len => g[j] = d[j]
  BY <1>1, <1>2, <1>4, <1>a
<1>9. \A j \in 0 .. n - 1 : j # i => Key[g[j]] <= Key[d[j]]
  BY <1>4, <1>7
<1>10. OrderedFrom(d, len, i) => Key[g[i]] <= Key[d[i]]
  <2>1. SUFFICES ASSUME OrderedFrom(d, len, i) PROVE Key[g[i]] <= Key[d[i]]
    OBVIOUS
  <2>2. InOrder(d, c)
    BY <1>1, <2>1 DEF OrderedFrom
  <2>3. QED
    BY <1>1, <1>4, <2>2 DEF InOrder
<1>11. ASSUME NEW j \in 1 .. len - 1, Parent(j) >= i PROVE InOrder(g, j)
  <2>1. /\ j \in 0 .. n - 1 /\ Parent(j) \in 0 .. n - 1 /\ Parent(j) < j
    BY ParentBefore
  <2>2. g[j] = h[j]
    BY <1>4, <1>11, <2>1
  <2>3. CASE Parent(j) = i
    <3>1. Key[h[j]] <= Key[d[j]] /\ Key[d[j]] <= Key[d[c]]
      BY <1>1, <1>7, <2>1, <2>3
    <3>2. Key[g[j]] <= Key[d[c]]
      BY <1>5, <1>a, <2>1, <2>2, <3>1
    <3>3. QED
      BY <1>4, <2>3, <3>2 DEF InOrder
  <2>4. CASE Parent(j) # i /\ Parent(j) < c
    <3>1. g[Parent(j)] = d[Parent(j)]
      BY <1>2, <1>4, <2>1, <2>4
    <3>2. InOrder(d, j)
      BY <1>11, <2>1, <2>4 DEF OrderedFrom
    <3>3. Key[h[j]] <= Key[d[j]] /\ Key[d[j]] <= Key[d[Parent(j)]]
      BY <1>7, <2>1, <3>2 DEF InOrder
    <3>4. Key[g[j]] <= Key[g[Parent(j)]]
      BY <1>5, <2>1, <2>2, <3>1, <3>3
    <3>5. QED
      BY <3>4 DEF InOrder
  <2>5. CASE Parent(j) # i /\ Parent(j) >= c
    <3>1. g[Parent(j)] = h[Parent(j)]
      BY <1>4, <2>1, <2>5
    <3>2. InOrder(h, j)
      BY <1>2, <2>5 DEF OrderedFrom
    <3>3. QED
      BY <2>2, <3>1, <3>2 DEF InOrder
  <2>6. QED
    BY <1>a, <2>1, <2>3, <2>4, <2>5
<1>12. OrderedFrom(g, len, i)
  BY <1>11 DEF OrderedFrom
<1>13. SunkHeap(g, n, d, len, t, i)
  BY <1>4, <1>8, <1>9, <1>10, <1>12 DEF SunkHeap
<1>14. QED
  BY <1>13 DEF g, c

(* What sift_down makes of the vector with the hole at each cell from i on *)
LEMMA SinkGoes ==
  ASSUME NEW n \in Nat, NEW d \in Arrays(n), NEW t \in Elems, NEW len \in 1 .. n,
         NEW start \in 0 .. len - 1, OrderedFrom(d, len, start + 1),
         NEW f, \A i \in 0 .. n - 1 : f[i] = Sunk(f, d, len, t, i)
  PROVE  \A i \in start .. len - 1 : SunkHeap(f[i], n, d, len, t, i)
<1> DEFINE Claim(i) == i \in start .. len - 1 => SunkHeap(f[i], n, d, len, t, i)
           S == {k \in Nat : Claim(n - k)}
<1>1. ASSUME NEW k \in Nat, \A m \in 0 .. k - 1 : m \in S PROVE k \in S
  <2> DEFINE i == n - k
  <2>0. \A c \in i + 1 .. n : Claim(c)
    <3>1. ASSUME NEW c \in i + 1 .. n PROVE Claim(c)
      <4>1. n - c \in 0 .. k - 1 /\ n - (n - c) = c
        OBVIOUS
      <4> HIDE DEF Claim
      <4>2. QED
        BY <1>1, <4>1
    <3>2. QED
      BY <3>1
  <2>1. SUFFICES ASSUME i \in start .. len - 1 PROVE SunkHeap(f[i], n, d, len, t, i)
    OBVIOUS
  <2> HIDE DEF i, S
  <2>2. i \in 0 .. n - 1 /\ i \in 0 .. len - 1 /\ f[i] = Sunk(f, d, len, t, i)
    BY <2>1
  <2>3. OrderedFrom(d, len, i + 1)
    <3>1. \A j \in 1 .. len - 1 : Parent(j) \in Nat
      BY ParentBefore
    <3>2. QED
      BY <2>1, <3>1 DEF OrderedFrom
  <2>4. CASE 2 * i + 1 < len /\ ~Less(d[Child(d, len, i)], t)
    <3>1. Child(d, len, i) \in i + 1 .. len - 1
      BY <2>2, <2>4, ChildIsGreatest
    <3>2. SunkHeap(f[Child(d, len, i)], n, d, len, t, Child(d, len, i))
      BY <2>0, <2>1, <3>1
    <3>3. Key[t] <= Key[d[Child(d, len, i)]]
      <4>1. d[Child(d, len, i)] \in Elems
        BY <2>2, <3>1 DEF Arrays
      <4>2. Key[t] \in Int /\ Key[d[Child(d, len, i)]] \in Int
        BY <4>1, KeyType
      <4>3. QED
        BY <2>4, <4>2 DEF Less
    <3>4. SunkHeap([f[Child(d, len, i)] EXCEPT ![i] = d[Child(d, len, i)]], n, d, len, t, i)
      BY <2>2, <2>3, <2>4, <3>2, <3>3, SinkMoves
    <3>5. QED
      BY <2>2, <2>4, <3>4 DEF Sunk
  <2>5. CASE ~(2 * i + 1 < len /\ ~Less(d[Child(d, len, i)], t))
    <3>1. 2 * i + 1 < len => Key[d[Child(d, len, i)]] < Key[t]
      BY <2>5 DEF Less
    <3>2. SunkHeap([d EXCEPT ![i] = t], n, d, len, t, i)
      BY <2>2, <2>3, <3>1, SinkStays
    <3>3. QED
      BY <2>2, <2>5, <3>2 DEF Sunk
  <2>6. QED
    BY <2>4, <2>5
<1>2. Nat \subseteq S
  <2> HIDE DEF S
  <2>1. QED
    BY <1>1, StrongInduction
<1>3. ASSUME NEW i \in start .. len - 1 PROVE Claim(i)
  <2>1. n - i \in S /\ n - (n - i) = i
    BY <1>2
  <2> HIDE DEF Claim
  <2>2. QED
    BY <2>1
<1>4. QED
  BY <1>3

(* sift_down puts the cells below start in order, when those below its     *)
(* children were.                                                          *)
LEMMA SiftDownOrders ==
  ASSUME NEW n \in Nat, NEW d \in Arrays(n), NEW len \in 1 .. n,
         NEW start \in 0 .. len - 1, OrderedFrom(d, len, start + 1)
  PROVE  /\ sift_down(d, len, start) \in Arrays(n)
         /\ OrderedFrom(sift_down(d, len, start), len, start)
<1> DEFINE t == d[start]
<1>1. t \in Elems /\ start \in 0 .. n - 1
  BY DEF Arrays
<1>2. PICK f : /\ \A i \in 0 .. n - 1 : f[i] = Sunk(f, d, len, t, i)
               /\ sift_down(d, len, start) = f[start]
  BY <1>1, SiftDownSinks
<1>3. SunkHeap(f[start], n, d, len, t, start)
  <2> HIDE DEF t
  <2>1. \A i \in start .. len - 1 : SunkHeap(f[i], n, d, len, t, i)
    BY <1>1, <1>2, SinkGoes
  <2>2. QED
    BY <2>1
<1>4. QED
  BY <1>2, <1>3 DEF SunkHeap
------------------------------------------------------------------------------
(* Elements are counted: those of the first m cells that are e. *)
CellsOf(d, m, e) == {j \in 0 .. m - 1 : d[j] = e}

Count(d, m, e) == Cardinality(CellsOf(d, m, e))

Hit(a, e) == IF a = e THEN 1 ELSE 0

(* Counts are natural numbers.                                             *)
LEMMA CellsFinite ==
  ASSUME NEW m \in Nat, NEW d, NEW e
  PROVE  IsFiniteSet(CellsOf(d, m, e)) /\ Count(d, m, e) \in Nat
<1>1. IsFiniteSet(0 .. m - 1)
  BY FS_Interval
<1>2. IsFiniteSet(CellsOf(d, m, e))
  BY <1>1, FS_Subset DEF CellsOf
<1>3. QED
  BY <1>2, FS_CardinalityType DEF Count

(* A cell counts one or nothing.                                           *)
LEMMA CountWithout ==
  ASSUME NEW m \in Nat, NEW d, NEW e, NEW i \in 0 .. m - 1
  PROVE  /\ Cardinality(CellsOf(d, m, e) \ {i}) \in Nat
         /\ Count(d, m, e) = Cardinality(CellsOf(d, m, e) \ {i}) + Hit(d[i], e)
<1> DEFINE A == CellsOf(d, m, e)
<1>1. IsFiniteSet(A) /\ Cardinality(A) \in Nat
  BY CellsFinite DEF Count
<1>2. /\ IsFiniteSet(A \ {i})
      /\ Cardinality(A \ {i}) = IF i \in A THEN Cardinality(A) - 1 ELSE Cardinality(A)
  BY <1>1, FS_RemoveElement
<1>3. Cardinality(A \ {i}) \in Nat
  BY <1>2, FS_CardinalityType
<1>4. i \in A <=> d[i] = e
  BY DEF CellsOf
<1> HIDE DEF A
<1>5. Cardinality(A) = Cardinality(A \ {i}) + Hit(d[i], e)
  BY <1>1, <1>2, <1>3, <1>4 DEF Hit
<1>6. QED
  BY <1>3, <1>5 DEF A, Count

(* What a change of a cell does to the count                               *)
LEMMA CountUpdate ==
  ASSUME NEW n \in Nat, NEW d \in Arrays(n), NEW m \in 0 .. n, NEW i \in 0 .. m - 1,
         NEW a \in Elems, NEW x \in Elems
  PROVE  Count([d EXCEPT ![i] = a], m, x) = Count(d, m, x) - Hit(d[i], x) + Hit(a, x)
<1> DEFINE g == [d EXCEPT ![i] = a]
<1>1. i \in 0 .. n - 1 /\ m \in Nat
  OBVIOUS
<1>2. g \in Arrays(n) /\ g[i] = a /\ \A j \in 0 .. n - 1 : j # i => g[j] = d[j]
  BY <1>1, CellChanged
<1> HIDE DEF g
<1>3. CellsOf(g, m, x) \ {i} = CellsOf(d, m, x) \ {i}
  BY <1>2 DEF CellsOf
<1>4. /\ Cardinality(CellsOf(d, m, x) \ {i}) \in Nat
      /\ Count(d, m, x) = Cardinality(CellsOf(d, m, x) \ {i}) + Hit(d[i], x)
  BY <1>1, CountWithout
<1>5. Count(g, m, x) = Cardinality(CellsOf(g, m, x) \ {i}) + Hit(a, x)
  <2>1. Count(g, m, x) = Cardinality(CellsOf(g, m, x) \ {i}) + Hit(g[i], x)
    BY <1>1, CountWithout
  <2>2. g[i] = a
    BY <1>2
  <2>3. QED
    BY <2>1, <2>2
<1>6. Count(g, m, x) = Count(d, m, x) - Hit(d[i], x) + Hit(a, x)
  <2>1. Hit(d[i], x) \in Int /\ Hit(a, x) \in Int
    BY DEF Hit
  <2>2. Cardinality(CellsOf(g, m, x) \ {i}) = Cardinality(CellsOf(d, m, x) \ {i})
    BY <1>3
  <2>3. QED
    BY <1>4, <1>5, <2>1, <2>2
<1>7. QED
  BY <1>6 DEF g

(* Two arrays with the same elements in their first m cells                *)
SameElements(g, d, m) == \A e \in Elems : Count(g, m, e) = Count(d, m, e)

(* When the hole moves from p to i, the element of p comes into i.         *)
LEMMA HoleMoves ==
  ASSUME NEW n \in Nat, NEW d \in Arrays(n), NEW h \in Arrays(n), NEW m \in 0 .. n,
         NEW i \in 0 .. m - 1, NEW p \in 0 .. m - 1, NEW t \in Elems,
         h[i] = d[i], SameElements(h, [d EXCEPT ![p] = t], m)
  PROVE  SameElements([h EXCEPT ![i] = d[p]], [d EXCEPT ![i] = t], m)
<1>1. SUFFICES ASSUME NEW e \in Elems
               PROVE  Count([h EXCEPT ![i] = d[p]], m, e) = Count([d EXCEPT ![i] = t], m, e)
  BY DEF SameElements
<1>2. d[p] \in Elems
  BY DEF Arrays
<1>3. Count([h EXCEPT ![i] = d[p]], m, e) = Count(h, m, e) - Hit(h[i], e) + Hit(d[p], e)
  BY <1>2, CountUpdate
<1>4. Count(h, m, e) = Count([d EXCEPT ![p] = t], m, e)
  BY DEF SameElements
<1>5. Count([d EXCEPT ![p] = t], m, e) = Count(d, m, e) - Hit(d[p], e) + Hit(t, e)
  BY CountUpdate
<1>6. Count([d EXCEPT ![i] = t], m, e) = Count(d, m, e) - Hit(d[i], e) + Hit(t, e)
  BY CountUpdate
<1>7. Count(d, m, e) \in Nat
  BY CellsFinite
<1>8. Hit(d[p], e) \in Int /\ Hit(d[i], e) \in Int /\ Hit(t, e) \in Int
  BY DEF Hit
<1>9. QED
  BY <1>3, <1>4, <1>5, <1>6, <1>7, <1>8

(* The same vector but for the order of the elements of its first m cells  *)
Reordered(g, n, d, m) ==
  /\ g \in Arrays(n)
  /\ \A j \in m .. n - 1 : g[j] = d[j]
  /\ SameElements(g, d, m)

(* sift_up changes the order only.                                         *)
LEMMA SiftUpReorders ==
  ASSUME NEW n \in Nat, NEW d \in Arrays(n), NEW len \in 1 .. n
  PROVE  Reordered(sift_up(d, len), n, d, len)
<1> DEFINE t == d[len - 1]
<1>1. t \in Elems
  BY DEF Arrays
<1>2. PICK f : /\ \A i \in 0 .. n - 1 : f[i] = Lifted(f, d, t, i)
               /\ sift_up(d, len) = IF len > 1 THEN f[len - 1] ELSE d
  BY SiftUpLifts
<1> DEFINE Kept(g, i) == /\ g \in Arrays(n)
                         /\ \A j \in 0 .. n - 1 : j > i => g[j] = d[j]
                         /\ SameElements(g, [d EXCEPT ![i] = t], len)
           S == {i \in Nat : i < len => Kept(f[i], i)}
<1>t. d[len - 1] = t
  OBVIOUS
<1> HIDE DEF t
<1>3. ASSUME NEW i \in Nat, \A m \in 0 .. i - 1 : m \in S PROVE i \in S
  <2>1. SUFFICES ASSUME i < len PROVE Kept(f[i], i)
    OBVIOUS
  <2>2. i \in 0 .. n - 1 /\ i \in 0 .. len - 1 /\ f[i] = Lifted(f, d, t, i)
    BY <1>2, <2>1
  <2>3. CASE i > 0 /\ Less(d[Parent(i)], t)
    <3> DEFINE p == Parent(i)
               h == f[p]
    <3>1. p \in 0 .. i - 1 /\ p \in 0 .. len - 1 /\ p \in 0 .. n - 1
      BY <2>2, <2>3, ParentBefore
    <3>2. Kept(h, p)
      BY <1>3, <2>1, <3>1
    <3>3. d[p] \in Elems
      BY <3>1 DEF Arrays
    <3>4. f[i] = [h EXCEPT ![i] = d[p]]
      BY <2>2, <2>3 DEF Lifted
    <3> HIDE DEF h, p, S
    <3>5. h[i] = d[i]
      BY <2>2, <3>1, <3>2
    <3>6. SameElements([h EXCEPT ![i] = d[p]], [d EXCEPT ![i] = t], len)
      <4>1. len \in 0 .. n
        OBVIOUS
      <4>2. QED
        BY <1>1, <2>2, <3>1, <3>2, <3>5, <4>1, HoleMoves
    <3>7. /\ [h EXCEPT ![i] = d[p]] \in Arrays(n)
          /\ \A j \in 0 .. n - 1 : j # i => [h EXCEPT ![i] = d[p]][j] = h[j]
      BY <2>2, <3>2, <3>3, CellChanged
    <3>8. QED
      BY <2>2, <3>1, <3>2, <3>4, <3>6, <3>7
  <2>4. CASE ~(i > 0 /\ Less(d[Parent(i)], t))
    <3>1. f[i] = [d EXCEPT ![i] = t]
      BY <2>2, <2>4 DEF Lifted
    <3>2. /\ [d EXCEPT ![i] = t] \in Arrays(n)
          /\ \A j \in 0 .. n - 1 : j # i => [d EXCEPT ![i] = t][j] = d[j]
      BY <1>1, <2>2, CellChanged
    <3>3. QED
      BY <2>2, <3>1, <3>2 DEF SameElements
  <2>5. QED
    BY <2>3, <2>4
<1>4. Nat \subseteq S
  <2> HIDE DEF S
  <2>1. QED
    BY <1>3, StrongInduction
<1>5. Kept(f[len - 1], len - 1)
  BY <1>4
<1>6. [d EXCEPT ![len - 1] = t] = d
  BY <1>t DEF Arrays
<1>7. CASE len > 1
  BY <1>2, <1>5, <1>6, <1>7 DEF Reordered
<1>8. CASE ~(len > 1)
  BY <1>2, <1>8 DEF Reordered, SameElements
<1>9. QED
  BY <1>7, <1>8

(* sift_down changes the order only.                                       *)
LEMMA SiftDownReorders ==
  ASSUME NEW n \in Nat, NEW d \in Arrays(n), NEW len \in 1 .. n, NEW start \in 0 .. len - 1
  PROVE  Reordered(sift_down(d, len, start), n, d, len)
<1> DEFINE t == d[start]
<1>1. t \in Elems /\ start \in 0 .. n - 1
  BY DEF Arrays
<1>2. PICK f : /\ \A i \in 0 .. n - 1 : f[i] = Sunk(f, d, len, t, i)
               /\ sift_down(d, len, start) = f[start]
  BY <1>1, SiftDownSinks
<1> DEFINE Kept(g, i) == /\ g \in Arrays(n)
                         /\ \A j \in 0 .. n - 1 : j < i \/ j >= len => g[j] = d[j]
                         /\ SameElements(g, [d EXCEPT ![i] = t], len)
           Claim(i) == i \in 0 .. len - 1 => Kept(f[i], i)
           S == {k \in Nat : Claim(n - k)}
<1>t. d[start] = t
  OBVIOUS
<1> HIDE DEF t
<1>3. ASSUME NEW k \in Nat, \A m \in 0 .. k - 1 : m \in S PROVE k \in S
  <2> DEFINE i == n - k
  <2>0. \A c \in i + 1 .. n : Claim(c)
    <3>1. ASSUME NEW c \in i + 1 .. n PROVE Claim(c)
      <4>1. n - c \in 0 .. k - 1 /\ n - (n - c) = c
        OBVIOUS
      <4> HIDE DEF Claim
      <4>2. QED
        BY <1>3, <4>1
    <3>2. QED
      BY <3>1
  <2>1. SUFFICES ASSUME i \in 0 .. len - 1 PROVE Kept(f[i], i)
    OBVIOUS
  <2> HIDE DEF i, S
  <2>2. i \in 0 .. n - 1 /\ f[i] = Sunk(f, d, len, t, i)
    BY <1>2, <2>1
  <2>3. CASE 2 * i + 1 < len /\ ~Less(d[Child(d, len, i)], t)
    <3> DEFINE p == Child(d, len, i)
               h == f[p]
    <3>1. p \in i + 1 .. len - 1
      BY <2>1, <2>3, ChildIsGreatest
    <3>4. f[i] = [h EXCEPT ![i] = d[p]]
      BY <2>2, <2>3 DEF Sunk
    <3>2. Kept(h, p)
      BY <2>0, <2>1, <3>1
    <3> HIDE DEF h, p
    <3>3. d[p] \in Elems
      BY <2>1, <3>1 DEF Arrays
    <3>5. h[i] = d[i]
      BY <2>2, <3>1, <3>2
    <3>6. SameElements([h EXCEPT ![i] = d[p]], [d EXCEPT ![i] = t], len)
      <4>1. p \in 0 .. len - 1 /\ len \in 0 .. n
        BY <2>1, <3>1
      <4>2. QED
        BY <1>1, <2>1, <3>2, <3>5, <4>1, HoleMoves
    <3>7. /\ [h EXCEPT ![i] = d[p]] \in Arrays(n)
          /\ \A j \in 0 .. n - 1 : j # i => [h EXCEPT ![i] = d[p]][j] = h[j]
      BY <2>2, <3>2, <3>3, CellChanged
    <3>8. QED
      BY <2>1, <3>1, <3>2, <3>4, <3>6, <3>7
  <2>4. CASE ~(2 * i + 1 < len /\ ~Less(d[Child(d, len, i)], t))
    <3>1. f[i] = [d EXCEPT ![i] = t]
      BY <2>2, <2>4 DEF Sunk
    <3>2. /\ [d EXCEPT ![i] = t] \in Arrays(n)
          /\ \A j \in 0 .. n - 1 : j # i => [d EXCEPT ![i] = t][j] = d[j]
      BY <1>1, <2>2, CellChanged
    <3>3. QED
      BY <2>1, <3>1, <3>2 DEF SameElements
  <2>5. QED
    BY <2>3, <2>4
<1>4. Nat \subseteq S
  <2> HIDE DEF S
  <2>1. QED
    BY <1>3, StrongInduction
<1>5. Claim(start)
  <2> HIDE DEF Claim
  <2>1. n - start \in Nat /\ n - (n - start) = start
    BY <1>1
  <2>2. n - start \in S
    BY <1>4, <2>1
  <2>3. QED
    BY <2>1, <2>2
<1>6. [d EXCEPT ![start] = t] = d
  BY <1>t DEF Arrays
<1>7. QED
  BY <1>2, <1>5, <1>6 DEF Reordered

(* An order changed twice                                                  *)
LEMMA ReorderedAgain ==
  ASSUME NEW n \in Nat, NEW d, NEW g, NEW h, NEW m \in Nat,
         Reordered(g, n, d, m), Reordered(h, n, g, m)
  PROVE  Reordered(h, n, d, m)
BY DEF Reordered, SameElements
------------------------------------------------------------------------------
(* __make_heap: a fold of sift_down over the cells that have a child, from *)
(* the last of them to the first.                                          *)
SiftStep(n, len) ==
  [p \in (1 .. len \div 2) \X Arrays(n) |-> sift_down(p[2], len, len \div 2 - p[1])]

(* A step of the fold takes arrays to arrays.                              *)
LEMMA SiftStepType ==
  ASSUME NEW n \in Nat, NEW len \in 1 .. n
  PROVE  SiftStep(n, len) \in [(1 .. len \div 2) \X Arrays(n) -> Arrays(n)]
<1>1. ASSUME NEW p \in (1 .. len \div 2) \X Arrays(n)
      PROVE  sift_down(p[2], len, len \div 2 - p[1]) \in Arrays(n)
  <2>1. p[2] \in Arrays(n) /\ len \div 2 - p[1] \in 0 .. len - 1
    OBVIOUS
  <2>2. QED
    BY <2>1, SiftDownReorders DEF Reordered
<1>2. QED
  BY <1>1 DEF SiftStep

(* The fold takes its steps one after the other.                           *)
LEMMA HeapifyEnds ==
  ASSUME NEW n \in Nat, NEW d \in Arrays(n), NEW len \in 1 .. n
  PROVE  EndsIn(Heapify(d, len), Arrays(n), len \div 2, d, SiftStep(n, len))
<1> DEFINE N == len \div 2
           V == Arrays(n)
           H == SiftStep(n, len)
           q == Reverse([j \in 1 .. N |-> j - 1])
           Pick(a, start) == sift_down(a, len, start)
           Eqn(f) == f = [t \in SUBSET (1 .. N) |->
                            IF t = {} THEN d ELSE Pick(f[t \ {Max(t)}], q[Max(t)])]
           g == CHOOSE f : Eqn(f)
<1>1. N \in Nat /\ d \in V
  OBVIOUS
<1>2. H \in [(1 .. N) \X V -> V]
  BY SiftStepType
<1>3. PICK f \in [SUBSET (1 .. N) -> V] : Folds(f, N, d, H)
  <2> HIDE DEF H, V, N
  <2>1. QED
    BY <1>1, <1>2, FoldExists DEF HasFold
<1>q. DOMAIN q = 1 .. N /\ \A j \in 1 .. N : q[j] = N - j
  <2> DEFINE s == [j \in 1 .. N |-> j - 1]
  <2>1. s \in Seq(Nat) /\ Len(s) = N /\ \A j \in 1 .. N : s[j] = j - 1
    BY <1>1
  <2> HIDE DEF s, N
  <2>2. Reverse(s) = [j \in 1 .. Len(s) |-> s[(Len(s) - j) + 1]]
    BY DEF Reverse
  <2>3. ASSUME NEW j \in 1 .. N PROVE Reverse(s)[j] = N - j
    <3>1. (N - j) + 1 \in 1 .. N
      BY <1>1
    <3>2. QED
      BY <1>1, <2>1, <2>2, <3>1
  <2>4. DOMAIN Reverse(s) = 1 .. N
    BY <2>1, <2>2
  <2>5. QED
    BY <2>3, <2>4 DEF s
<1>4. ASSUME NEW j \in 1 .. N, NEW a \in V PROVE H[<<j, a>>] = Pick(a, q[j])
  <2>1. H[<<j, a>>] = sift_down(a, len, N - j)
    BY DEF SiftStep
  <2> HIDE DEF q, H
  <2>2. QED
    BY <1>q, <2>1
<1> HIDE DEF H, Pick, q
<1>5. Eqn(f)
  <2>1. \A t \in SUBSET (1 .. N) :
          f[t] = IF t = {} THEN d ELSE Pick(f[t \ {Max(t)}], q[Max(t)])
    <3>1. SUFFICES ASSUME NEW t \in SUBSET (1 .. N), t # {}
                   PROVE  f[t] = Pick(f[t \ {Max(t)}], q[Max(t)])
      BY <1>3 DEF Folds
    <3> HIDE DEF N, V
    <3>2. Max(t) \in 1 .. N /\ t \ {Max(t)} \in SUBSET (1 .. N)
      BY <1>1, <3>1, MaxOfSubset
    <3>3. f[t] = H[<<Max(t), f[t \ {Max(t)}]>>]
      BY <3>1, <1>3 DEF Folds
    <3>4. f[t \ {Max(t)}] \in V
      BY <1>3, <3>2
    <3>5. QED
      BY <1>4, <3>2, <3>3, <3>4
  <2>2. QED
    BY <2>1
<1>6. Eqn(g)
  BY <1>5
<1>7. Heapify(d, len) = g[1 .. N]
  <2>1. Heapify(d, len) = FoldLeft(LAMBDA a, start : Pick(a, start), d, q)
    BY DEF Heapify, Pick, q
  <2>2. QED
    BY <1>q, <2>1 DEF FoldLeft, MapThenFoldSet
<1>8. Follows(g, V, N, d, H)
  <2>1. g[{}] = d
    BY <1>6
  <2>2. ASSUME NEW t \in SUBSET (1 .. N), t # {}, g[t \ {Max(t)}] \in V
        PROVE  g[t] = H[<<Max(t), g[t \ {Max(t)}]>>]
    <3>1. Max(t) \in 1 .. N
      <4> HIDE DEF N
      <4>1. QED
        BY <1>1, <2>2, MaxOfSubset
    <3>2. g[t] = Pick(g[t \ {Max(t)}], q[Max(t)])
      BY <1>6, <2>2
    <3> HIDE DEF g, V, N
    <3>3. QED
      BY <1>4, <2>2, <3>1, <3>2
  <2>3. QED
    BY <2>1, <2>2 DEF Follows
<1>9. QED
  <2> HIDE DEF g, V, N
  <2>1. EndsIn(g[1 .. N], V, N, d, H)
    BY <1>1, <1>2, <1>8, FoldGoes
  <2>2. QED
    BY <2>1, <1>7 DEF H, N, V

(* Make_Heap makes a heap of any vector, and changes the order only.       *)
LEMMA HeapifyOrders ==
  ASSUME NEW n \in Nat, NEW d \in Arrays(n), NEW len \in 1 .. n
  PROVE  Reordered(Heapify(d, len), n, d, len) /\ OrderedFrom(Heapify(d, len), len, 0)
<1> DEFINE N == len \div 2
           Done(g, k) == Reordered(g, n, d, len) /\ OrderedFrom(g, len, N - k)
<1>1. PICK h : Goes(h, Arrays(n), N, d, SiftStep(n, len)) /\ Heapify(d, len) = h[N]
  BY HeapifyEnds DEF EndsIn
<1> DEFINE S == {k \in Nat : k <= N => Done(h[k], k)}
<1>0. N \in Nat
  OBVIOUS
<1>2. 0 \in S
  <2>1. h[0] = d
    BY <1>1 DEF Goes
  <2>2. Reordered(d, n, d, len)
    BY DEF Reordered, SameElements
  <2>3. OrderedFrom(d, len, N)
    <3>1. ASSUME NEW j \in 1 .. len - 1 PROVE ~(Parent(j) >= N)
      BY DEF Parent
    <3>2. QED
      BY <3>1 DEF OrderedFrom
  <2>4. QED
    BY <2>1, <2>2, <2>3
<1>3. ASSUME NEW k \in Nat, k \in S PROVE k + 1 \in S
  <2>1. SUFFICES ASSUME k + 1 <= N PROVE Done(h[k + 1], k + 1)
    OBVIOUS
  <2> DEFINE start == N - (k + 1)
  <2>2. Done(h[k], k)
    BY <1>0, <1>3, <2>1
  <2>3. h[k] \in Arrays(n)
    BY <2>2 DEF Reordered
  <2>4. k + 1 \in 1 .. N /\ start \in 0 .. len - 1 /\ start + 1 = N - k
    BY <1>0, <2>1
  <2>5. h[k + 1] = sift_down(h[k], len, start)
    <3>1. h[k + 1] = SiftStep(n, len)[<<k + 1, h[k]>>]
      <4>1. (k + 1) - 1 = k
        OBVIOUS
      <4> HIDE DEF N
      <4>2. QED
        BY <1>1, <2>4, <4>1 DEF Goes
    <3>2. QED
      BY <2>3, <2>4, <3>1 DEF SiftStep
  <2> HIDE DEF start, N
  <2>6. Reordered(sift_down(h[k], len, start), n, h[k], len)
    BY <2>3, <2>4, SiftDownReorders
  <2>7. OrderedFrom(sift_down(h[k], len, start), len, start)
    BY <2>2, <2>3, <2>4, SiftDownOrders
  <2>8. Reordered(sift_down(h[k], len, start), n, d, len)
    <3>1. len \in Nat
      OBVIOUS
    <3>2. QED
      BY <2>2, <2>6, <3>1, ReorderedAgain
  <2>9. QED
    BY <2>5, <2>7, <2>8 DEF start
<1>4. Nat \subseteq S
  <2> HIDE DEF S
  <2>1. QED
    BY <1>2, <1>3, Induction
<1>5. Done(h[N], N)
  BY <1>0, <1>4
<1>6. N - N = 0
  BY <1>0
<1>7. QED
  BY <1>1, <1>5, <1>6

(* The first element of a heap is a greatest one.                          *)
LEMMA FirstIsGreatest ==
  ASSUME NEW n \in Nat, NEW d \in Arrays(n), NEW m \in 0 .. n, OrderedFrom(d, m, 0)
  PROVE  \A i \in 0 .. m - 1 : Key[d[i]] <= Key[d[0]]
<1> DEFINE S == {i \in Nat : i < m => Key[d[i]] <= Key[d[0]]}
<1>1. \A j \in 0 .. n - 1 : Key[d[j]] \in Int
  BY KeyType DEF Arrays
<1>2. ASSUME NEW i \in Nat, \A j \in 0 .. i - 1 : j \in S PROVE i \in S
  <2>1. SUFFICES ASSUME i < m PROVE Key[d[i]] <= Key[d[0]]
    OBVIOUS
  <2>2. CASE i = 0
    BY <1>1, <2>1, <2>2
  <2>3. CASE i > 0
    <3>1. Parent(i) \in 0 .. i - 1
      BY <2>3, ParentBefore
    <3>2. Key[d[Parent(i)]] <= Key[d[0]]
      BY <1>2, <2>1, <3>1
    <3>3. Key[d[i]] <= Key[d[Parent(i)]]
      BY <2>1, <2>3, <3>1 DEF OrderedFrom, InOrder
    <3>4. QED
      BY <1>1, <2>1, <3>1, <3>2, <3>3
  <2>4. QED
    BY <2>2, <2>3
<1>3. Nat \subseteq S
  <2> HIDE DEF S
  <2>1. QED
    BY <1>2, StrongInduction
<1>4. QED
  BY <1>3
------------------------------------------------------------------------------
(* The vector: a cell for each index below its capacity, top of them used. *)
IsVector(w) ==
  /\ w.cap \in Nat /\ w.top \in 0 .. w.cap /\ w.data \in Arrays(w.cap)
  /\ w = Vector(w.data, w.cap, w.top)

(* The fields of a vector                                                  *)
LEMMA VectorFields ==
  ASSUME NEW data, NEW cap, NEW top
  PROVE  /\ Vector(data, cap, top).data = data
         /\ Vector(data, cap, top).cap = cap
         /\ Vector(data, cap, top).top = top
BY DEF Vector

(* Other cells in a vector                                                 *)
LEMMA WithData ==
  ASSUME NEW w, IsVector(w), NEW x \in Arrays(w.cap)
  PROVE  LET r == [w EXCEPT !.data = x]
         IN  IsVector(r) /\ r.cap = w.cap /\ r.top = w.top /\ r.data = x
BY DEF IsVector, Vector

(* Another top in a vector                                                 *)
LEMMA WithTop ==
  ASSUME NEW w, IsVector(w), NEW k \in 0 .. w.cap
  PROVE  LET r == [w EXCEPT !.top = k]
         IN  IsVector(r) /\ r.cap = w.cap /\ r.top = k /\ r.data = w.data
BY DEF IsVector, Vector

(* __vector_resize keeps the elements when they fit.                       *)
LEMMA ResizeKeeps ==
  ASSUME NEW w, IsVector(w), NEW newcap \in Nat, w.top <= newcap
  PROVE  LET r == Vector_Resize(w, newcap)
         IN  /\ IsVector(r) /\ r.cap = newcap /\ r.top = w.top
             /\ \A j \in 0 .. w.top - 1 : r.data[j] = w.data[j]
<1> DEFINE x == [j \in 0 .. newcap - 1 |-> IF j < w.cap THEN w.data[j] ELSE Zero]
           r == Vector_Resize(w, newcap)
<1>1. w.cap \in Nat /\ w.top \in 0 .. w.cap /\ w.data \in [0 .. w.cap - 1 -> Elems]
  BY DEF IsVector, Arrays
<1>2. x \in Arrays(newcap)
  BY <1>1, HeapAssumption DEF Arrays
<1>3. r.data = x /\ r.cap = newcap /\ r.top = w.top /\ r = Vector(x, newcap, w.top)
  BY VectorFields DEF Vector_Resize
<1>4. \A j \in 0 .. w.top - 1 : x[j] = w.data[j]
  BY <1>1
<1> HIDE DEF x, r
<1>5. IsVector(r)
  BY <1>1, <1>2, <1>3 DEF IsVector
<1>6. QED
  BY <1>3, <1>4, <1>5 DEF r

(* __vector_PutPtr writes one cell, and makes room for it.                 *)
LEMMA PutKeeps ==
  ASSUME NEW w, IsVector(w), NEW pos \in Nat, NEW e \in Elems
  PROVE  LET r == PutPtr(w, pos, e)
         IN  /\ IsVector(r)
             /\ r.top = IF pos >= w.top THEN pos + 1 ELSE w.top
             /\ r.data[pos] = e
             /\ \A j \in 0 .. w.top - 1 : j # pos => r.data[j] = w.data[j]
<1> DEFINE q == IF pos >= w.cap THEN Vector_Resize(w, pos + 1) ELSE w
           x == [q.data EXCEPT ![pos] = e]
           r == PutPtr(w, pos, e)
           k == IF pos >= q.top THEN pos + 1 ELSE q.top
<1>1. w.cap \in Nat /\ w.top \in 0 .. w.cap
  BY DEF IsVector
<1>2. /\ IsVector(q) /\ q.top = w.top /\ q.cap > pos
      /\ \A j \in 0 .. w.top - 1 : q.data[j] = w.data[j]
  <2>1. CASE pos >= w.cap
    <3>1. w.top <= pos + 1 /\ pos + 1 \in Nat
      BY <1>1, <2>1
    <3>2. QED
      BY <2>1, <3>1, ResizeKeeps
  <2>2. CASE ~(pos >= w.cap)
    BY <1>1, <2>2
  <2>3. QED
    BY <2>1, <2>2
<1>3. r = Vector(x, q.cap, k)
  BY DEF PutPtr
<1> HIDE DEF q
<1>4. q.cap \in Nat /\ q.data \in Arrays(q.cap) /\ q.top \in 0 .. q.cap
  BY <1>2 DEF IsVector
<1>5. pos \in 0 .. q.cap - 1
  BY <1>2, <1>4
<1>6. x \in Arrays(q.cap) /\ x[pos] = e /\ \A j \in 0 .. q.cap - 1 : j # pos => x[j] = q.data[j]
  BY <1>4, <1>5, CellChanged
<1>7. k \in 0 .. q.cap
  BY <1>2, <1>4
<1>8. r.data = x /\ r.cap = q.cap /\ r.top = k
  BY <1>3, VectorFields
<1> HIDE DEF x, r, k
<1>9. IsVector(r)
  BY <1>3, <1>4, <1>6, <1>7, <1>8 DEF IsVector
<1>10. k = IF pos >= w.top THEN pos + 1 ELSE w.top
  BY <1>2 DEF k
<1>11. \A j \in 0 .. w.top - 1 : j # pos => x[j] = w.data[j]
  BY <1>2, <1>4, <1>6
<1>12. QED
  BY <1>6, <1>8, <1>9, <1>10, <1>11 DEF r

(* __vector_PushPtr adds an element behind the others.                     *)
LEMMA PushKeeps ==
  ASSUME NEW w, IsVector(w), NEW e \in Elems
  PROVE  LET r == PushPtr(w, e)
         IN  /\ IsVector(r) /\ r.top = w.top + 1 /\ r.data[w.top] = e
             /\ \A j \in 0 .. w.top - 1 : r.data[j] = w.data[j]
<1> DEFINE c == IF w.cap = 0 THEN 1 ELSE w.cap * 2
           q == IF w.top # w.cap THEN w ELSE Vector_Resize(w, c)
<1>1. w.cap \in Nat /\ w.top \in 0 .. w.cap
  BY DEF IsVector
<1>2. c \in Nat /\ w.top <= c
  BY <1>1
<1>3. PushPtr(w, e) = PutPtr(q, q.top, e)
  BY DEF PushPtr
<1> HIDE DEF c
<1>4. IsVector(q) /\ q.top = w.top /\ \A j \in 0 .. w.top - 1 : q.data[j] = w.data[j]
  BY <1>2, ResizeKeeps
<1> HIDE DEF q
<1> DEFINE r == PutPtr(q, w.top, e)
<1>5. w.top \in Nat
  BY <1>1
<1>6. /\ IsVector(r)
      /\ r.top = IF w.top >= q.top THEN w.top + 1 ELSE q.top
      /\ r.data[w.top] = e
      /\ \A j \in 0 .. q.top - 1 : j # w.top => r.data[j] = q.data[j]
  BY <1>4, <1>5, PutKeeps
<1> HIDE DEF r
<1>7. /\ IsVector(r) /\ r.top = w.top + 1 /\ r.data[w.top] = e
      /\ \A j \in 0 .. w.top - 1 : r.data[j] = w.data[j]
  BY <1>4, <1>5, <1>6
<1>8. PushPtr(w, e) = r
  BY <1>3, <1>4 DEF r
<1>9. QED
  BY <1>7, <1>8
------------------------------------------------------------------------------
(* The inductive invariant: a vector, a heap when the program kept it so.  *)
HeapInv ==
  /\ IsVector(v) /\ isHeap \in BOOLEAN
  /\ isHeap => OrderedFrom(v.data, v.top, 0)

(* An order is kept by the cells that are.                                 *)
LEMMA SameCellsOrdered ==
  ASSUME NEW m \in Nat, NEW d, NEW g, NEW len \in Nat, m <= len,
         OrderedFrom(d, len, 0), \A j \in 0 .. m - 1 : g[j] = d[j]
  PROVE  OrderedFrom(g, m, 0)
<1>1. ASSUME NEW j \in 1 .. m - 1 PROVE InOrder(g, j)
  <2>1. Parent(j) \in 0 .. m - 1 /\ Parent(j) >= 0 /\ j \in 0 .. m - 1
    BY ParentBefore
  <2>2. InOrder(d, j)
    BY <2>1 DEF OrderedFrom
  <2>3. QED
    BY <2>1, <2>2 DEF InOrder
<1>2. QED
  BY <1>1 DEF OrderedFrom

(* What each call of the heap makes of a vector *)
LEMMA PushResult ==
  ASSUME NEW w, IsVector(w), NEW e \in Elems
  PROVE  LET q == PushPtr(w, e)
             r == Heap_Push(q)
         IN  /\ IsVector(r) /\ r.top = w.top + 1 /\ r.cap = q.cap
             /\ Reordered(r.data, q.cap, q.data, r.top)
             /\ OrderedFrom(w.data, w.top, 0) => OrderedFrom(r.data, r.top, 0)
<1> DEFINE q == PushPtr(w, e)
           r == Heap_Push(q)
           n == q.cap
           len == q.top
<1>1. w.top \in Nat
  BY DEF IsVector
<1>2. IsVector(q) /\ len = w.top + 1 /\ \A j \in 0 .. w.top - 1 : q.data[j] = w.data[j]
  BY PushKeeps
<1>3. n \in Nat /\ q.data \in Arrays(n) /\ len \in 1 .. n
  BY <1>1, <1>2 DEF IsVector
<1>4. r = [q EXCEPT !.data = sift_up(q.data, len)]
  <2>1. q.data = q.data
    OBVIOUS
  <2> HIDE DEF q
  <2>2. QED
    BY <1>2 DEF Heap_Push, IsVector, Vector
<1> HIDE DEF r, q
<1>5. Reordered(sift_up(q.data, len), n, q.data, len)
  BY <1>3, SiftUpReorders
<1>6. IsVector(r) /\ r.cap = n /\ r.top = len /\ r.data = sift_up(q.data, len)
  BY <1>2, <1>4, <1>5, WithData DEF Reordered
<1>7. ASSUME OrderedFrom(w.data, w.top, 0) PROVE OrderedFrom(r.data, r.top, 0)
  <2>1. OrderedFrom(q.data, w.top, 0)
    BY <1>1, <1>2, <1>7, SameCellsOrdered
  <2>2. \A j \in 1 .. len - 2 : InOrder(q.data, j)
    <3>1. ASSUME NEW j \in 1 .. len - 2 PROVE InOrder(q.data, j)
      <4>1. j \in 1 .. w.top - 1 /\ Parent(j) >= 0
        BY <1>1, <1>2, ParentBefore
      <4>2. QED
        BY <2>1, <4>1 DEF OrderedFrom
    <3>2. QED
      BY <3>1
  <2>3. \A j \in 1 .. len - 1 : InOrder(sift_up(q.data, len), j)
    BY <1>3, <2>2, SiftUpOrders
  <2>4. QED
    BY <1>6, <2>3 DEF OrderedFrom
<1>8. QED
  BY <1>2, <1>5, <1>6, <1>7 DEF q, r

(* Two cells change places.                                                *)
LEMMA SwapCells ==
  ASSUME NEW n \in Nat, NEW d \in Arrays(n), NEW i \in 0 .. n - 1, NEW k \in 0 .. n - 1
  PROVE  /\ Swap(d, i, k) \in Arrays(n)
         /\ Swap(d, i, k)[k] = d[i]
         /\ \A j \in 0 .. n - 1 : j # i /\ j # k => Swap(d, i, k)[j] = d[j]
         /\ \A m \in 0 .. n : i < m /\ k < m => SameElements(Swap(d, i, k), d, m)
<1> DEFINE g == [d EXCEPT ![i] = d[k]]
           h == [g EXCEPT ![k] = d[i]]
<1>1. d[i] \in Elems /\ d[k] \in Elems
  BY DEF Arrays
<1>2. Swap(d, i, k) = h
  BY DEF Swap
<1>3. g \in Arrays(n) /\ g[i] = d[k] /\ \A j \in 0 .. n - 1 : j # i => g[j] = d[j]
  BY <1>1, CellChanged
<1>4. g[k] = d[k]
  BY <1>3
<1>5. \A m \in 0 .. n, e \in Elems : i < m =>
        Count(g, m, e) = Count(d, m, e) - Hit(d[i], e) + Hit(d[k], e)
  <2>1. ASSUME NEW m \in 0 .. n, NEW e \in Elems, i < m
        PROVE  Count(g, m, e) = Count(d, m, e) - Hit(d[i], e) + Hit(d[k], e)
    <3>1. i \in 0 .. m - 1
      BY <2>1
    <3>2. QED
      BY <1>1, <3>1, CountUpdate
  <2>2. QED
    BY <2>1
<1> HIDE DEF g
<1>6. h \in Arrays(n) /\ h[k] = d[i] /\ \A j \in 0 .. n - 1 : j # k => h[j] = g[j]
  BY <1>1, <1>3, CellChanged
<1>7. ASSUME NEW m \in 0 .. n, i < m /\ k < m, NEW e \in Elems
      PROVE  Count(h, m, e) = Count(d, m, e)
  <2>1. Count(h, m, e) = Count(g, m, e) - Hit(g[k], e) + Hit(d[i], e)
    <3>1. k \in 0 .. m - 1
      BY <1>7
    <3>2. QED
      BY <1>1, <1>3, <3>1, CountUpdate
  <2>2. Count(g, m, e) = Count(d, m, e) - Hit(d[i], e) + Hit(d[k], e)
    BY <1>5, <1>7
  <2>3. Hit(d[i], e) \in Int /\ Hit(d[k], e) \in Int
    BY DEF Hit
  <2>4. Count(d, m, e) \in Nat
    BY CellsFinite
  <2>5. QED
    BY <1>4, <2>1, <2>2, <2>3, <2>4
<1> HIDE DEF h
<1>8. QED
  BY <1>2, <1>3, <1>6, <1>7 DEF SameElements

(* The last cell counted                                                   *)
LEMMA CountLast ==
  ASSUME NEW m \in Nat, NEW d, NEW e
  PROVE  Count(d, m + 1, e) = Count(d, m, e) + Hit(d[m], e)
<1>1. m \in 0 .. (m + 1) - 1 /\ m + 1 \in Nat
  OBVIOUS
<1>2. Count(d, m + 1, e) = Cardinality(CellsOf(d, m + 1, e) \ {m}) + Hit(d[m], e)
  BY <1>1, CountWithout
<1>3. CellsOf(d, m + 1, e) \ {m} = CellsOf(d, m, e)
  BY DEF CellsOf
<1>4. QED
  BY <1>2, <1>3 DEF Count

(* Heap_Pop puts the first element last, and keeps the others a heap.      *)
LEMMA PopResult ==
  ASSUME NEW w, IsVector(w), w.top > 0
  PROVE  LET r == Vector_Pop(Heap_Pop(w))
         IN  /\ IsVector(r) /\ r.top = w.top - 1
             /\ OrderedFrom(w.data, w.top, 0) => OrderedFrom(r.data, r.top, 0)
             /\ \A e \in Elems :
                  Count(r.data, r.top, e) = Count(w.data, w.top, e) - Hit(w.data[0], e)
<1> DEFINE n == w.top - 1
           s == Swap(w.data, 0, n)
           x == IF n > 0 THEN sift_down(s, n, 0) ELSE w.data
           q == Heap_Pop(w)
           r == Vector_Pop(q)
<1>1. /\ w.cap \in Nat /\ w.top \in 0 .. w.cap /\ w.data \in Arrays(w.cap)
      /\ w = Vector(w.data, w.cap, w.top)
  BY DEF IsVector
<1>2. n \in Nat /\ n \in 0 .. w.cap - 1 /\ 0 \in 0 .. w.cap - 1 /\ n + 1 = w.top
  BY <1>1
<1>3. q = [w EXCEPT !.data = x]
  <2>1. CASE n > 0
    BY <1>1, <2>1 DEF Heap_Pop, Vector
  <2>2. CASE ~(n > 0)
    BY <1>1, <2>2 DEF Heap_Pop, Vector
  <2>3. QED
    BY <2>1, <2>2
<1>4. /\ s \in Arrays(w.cap) /\ s[n] = w.data[0]
      /\ \A j \in 0 .. w.cap - 1 : j # 0 /\ j # n => s[j] = w.data[j]
      /\ SameElements(s, w.data, w.top)
  <2>1. 0 < w.top /\ n < w.top
    BY <1>1
  <2> HIDE DEF n
  <2>2. QED
    BY <1>1, <1>2, <2>1, SwapCells
<1> HIDE DEF s, q
<1>5. n > 0 => Reordered(x, w.cap, s, n)
  <2>1. SUFFICES ASSUME n > 0 PROVE Reordered(sift_down(s, n, 0), w.cap, s, n)
    OBVIOUS
  <2>2. n \in 1 .. w.cap /\ 0 \in 0 .. n - 1
    BY <1>1, <1>2, <2>1
  <2> HIDE DEF n
  <2>3. QED
    BY <1>1, <1>4, <2>2, SiftDownReorders
<1>6. x \in Arrays(w.cap)
  BY <1>1, <1>5 DEF Reordered
<1>7. OrderedFrom(w.data, w.top, 0) => OrderedFrom(x, n, 0)
  <2>1. SUFFICES ASSUME OrderedFrom(w.data, w.top, 0) PROVE OrderedFrom(x, n, 0)
    OBVIOUS
  <2>2. CASE n > 0
    <3>1. OrderedFrom(s, n, 0 + 1)
      <4>1. ASSUME NEW j \in 1 .. n - 1, Parent(j) >= 1 PROVE InOrder(s, j)
        <5>1. /\ j \in 0 .. w.cap - 1 /\ j # 0 /\ j # n
              /\ Parent(j) \in 0 .. w.cap - 1 /\ Parent(j) # 0 /\ Parent(j) # n
          BY <1>1, <1>2, <4>1, ParentBefore
        <5>2. j \in 1 .. w.top - 1 /\ Parent(j) >= 0
          BY <1>1, <4>1, <5>1
        <5>3. InOrder(w.data, j)
          BY <2>1, <5>2 DEF OrderedFrom
        <5>4. QED
          BY <1>4, <5>1, <5>3 DEF InOrder
      <4>2. QED
        BY <4>1 DEF OrderedFrom
    <3>2. n \in 1 .. w.cap /\ 0 \in 0 .. n - 1
      BY <1>1, <1>2, <2>2
    <3>3. x = sift_down(s, n, 0)
      BY <2>2
    <3> HIDE DEF n, x
    <3>4. QED
      BY <1>1, <1>4, <3>1, <3>2, <3>3, SiftDownOrders
  <2>3. CASE ~(n > 0)
    <3>1. 1 .. n - 1 = {}
      BY <1>2, <2>3
    <3>2. QED
      BY <3>1 DEF OrderedFrom
  <2>4. QED
    BY <2>2, <2>3
<1>8. ASSUME NEW e \in Elems
      PROVE  Count(x, n, e) = Count(w.data, w.top, e) - Hit(w.data[0], e)
  <2>1. Count(w.data, n, e) \in Nat /\ Count(s, n, e) \in Nat /\ Hit(w.data[0], e) \in Int
    BY <1>2, CellsFinite DEF Hit
  <2>2. CASE n > 0
    <3>1. Count(x, n, e) = Count(s, n, e)
      BY <1>5, <2>2 DEF Reordered, SameElements
    <3>2. Count(s, n + 1, e) = Count(s, n, e) + Hit(s[n], e)
      BY <1>2, CountLast
    <3>3. Count(s, n + 1, e) = Count(w.data, w.top, e)
      BY <1>2, <1>4 DEF SameElements
    <3> HIDE DEF n, x
    <3>4. QED
      BY <1>4, <2>1, <3>1, <3>2, <3>3
  <2>3. CASE n = 0
    <3>1. x = w.data
      BY <2>3
    <3>2. Count(w.data, n + 1, e) = Count(w.data, n, e) + Hit(w.data[n], e)
      BY <1>2, CountLast
    <3> HIDE DEF n, x
    <3>3. QED
      BY <1>2, <2>1, <2>3, <3>1, <3>2
  <2>4. QED
    BY <1>2, <2>2, <2>3
<1>9. IsVector(q) /\ q.cap = w.cap /\ q.top = w.top /\ q.data = x
  <2> HIDE DEF x
  <2>1. QED
    BY <1>3, <1>6, WithData
<1>10. r = [q EXCEPT !.top = n]
  BY <1>1, <1>9 DEF Vector_Pop, IsVector, Vector
<1>11. IsVector(r) /\ r.top = n /\ r.data = x
  <2>1. n \in 0 .. q.cap
    BY <1>1, <1>2, <1>9
  <2> HIDE DEF n, r, x
  <2>2. QED
    BY <1>9, <1>10, <2>1, WithTop
<1>12. QED
  <2> HIDE DEF x
  <2>1. QED
    BY <1>7, <1>8, <1>11 DEF q

(* Make_Heap makes a heap of any vector.                                   *)
LEMMA MakeResult ==
  ASSUME NEW w, IsVector(w)
  PROVE  LET r == Make_Heap(w)
         IN  /\ IsVector(r) /\ r.cap = w.cap /\ r.top = w.top
             /\ Reordered(r.data, w.cap, w.data, w.top)
             /\ OrderedFrom(r.data, r.top, 0)
<1>1. /\ w.cap \in Nat /\ w.top \in 0 .. w.cap /\ w.data \in Arrays(w.cap)
  BY DEF IsVector
<1>2. CASE w.top > 1
  <2> DEFINE x == Heapify(w.data, w.top)
  <2>1. Make_Heap(w) = [w EXCEPT !.data = x]
    BY <1>2 DEF Make_Heap, IsVector, Vector
  <2>2. Reordered(x, w.cap, w.data, w.top) /\ OrderedFrom(x, w.top, 0)
    <3>1. w.top \in 1 .. w.cap
      BY <1>1, <1>2
    <3>2. QED
      BY <1>1, <3>1, HeapifyOrders
  <2> HIDE DEF x
  <2>3. QED
    BY <2>1, <2>2, WithData DEF Reordered
<1>3. CASE ~(w.top > 1)
  <2>1. Make_Heap(w) = w
    BY <1>3 DEF Make_Heap
  <2>2. OrderedFrom(w.data, w.top, 0)
    <3>1. 1 .. w.top - 1 = {}
      BY <1>1, <1>3
    <3>2. QED
      BY <3>1 DEF OrderedFrom
  <2>3. Reordered(w.data, w.cap, w.data, w.top)
    BY <1>1 DEF Reordered, SameElements
  <2>4. QED
    BY <2>1, <2>2, <2>3
<1>4. QED
  BY <1>2, <1>3
------------------------------------------------------------------------------
(* A new vector is an empty heap.                                          *)
LEMMA InitHeap == Init => HeapInv
<1>1. ASSUME NEW cap \in Caps PROVE IsVector(NewVector(cap)) /\ NewVector(cap).top = 0
  <2> DEFINE x == [j \in 0 .. cap - 1 |-> Zero]
  <2>1. cap \in Nat /\ 0 \in 0 .. cap
    BY QueueAssumption
  <2>2. x \in Arrays(cap)
    BY HeapAssumption DEF Arrays
  <2>3. NewVector(cap) = Vector(x, cap, 0)
    BY DEF NewVector
  <2> HIDE DEF x
  <2>4. QED
    BY <2>1, <2>2, <2>3, VectorFields DEF IsVector
<1>2. ASSUME Init PROVE HeapInv
  <2>1. IsVector(v) /\ v.top = 0 /\ isHeap = TRUE
    BY <1>1, <1>2 DEF Init
  <2>2. OrderedFrom(v.data, v.top, 0)
    BY <2>1 DEF OrderedFrom
  <2>3. QED
    BY <2>1, <2>2 DEF HeapInv
<1>3. QED
  BY <1>2

(* The invariant is inductive: the heap's own calls keep the order, those  *)
(* of the vector break it or only remove, and Make_Heap restores it.       *)
LEMMA StepHeap == HeapInv /\ [Next]_vars => HeapInv'
<1>1. SUFFICES ASSUME HeapInv, [Next]_vars PROVE HeapInv'
  OBVIOUS
<1>2. IsVector(v) /\ isHeap \in BOOLEAN /\ (isHeap => OrderedFrom(v.data, v.top, 0))
  BY <1>1 DEF HeapInv
<1>3. v.cap \in Nat /\ v.top \in 0 .. v.cap /\ v.top \in Nat
  BY <1>2 DEF IsVector
<1>4. ASSUME NEW e \in Elems, Priority_Queue_Push(e) PROVE HeapInv'
  <2>1. v' = Heap_Push(PushPtr(v, e)) /\ isHeap' = isHeap /\ isHeap
    BY <1>4 DEF Priority_Queue_Push
  <2>2. LET r == Heap_Push(PushPtr(v, e))
        IN  IsVector(r) /\ OrderedFrom(r.data, r.top, 0)
    BY <1>2, <2>1, PushResult
  <2>3. QED
    BY <1>2, <2>1, <2>2 DEF HeapInv
<1>5. ASSUME NEW e \in Elems, VectorPush(e) PROVE HeapInv'
  <2>1. v' = PushPtr(v, e) /\ isHeap' = FALSE
    BY <1>5 DEF VectorPush
  <2>2. IsVector(PushPtr(v, e))
    BY <1>2, PushKeeps
  <2>3. QED
    BY <2>1, <2>2 DEF HeapInv
<1>6. ASSUME NEW e \in Elems, NEW pos \in 0 .. MaxTop - 1, VectorPut(pos, e) PROVE HeapInv'
  <2>1. v' = PutPtr(v, pos, e) /\ isHeap' = FALSE
    BY <1>6 DEF VectorPut
  <2>2. IsVector(PutPtr(v, pos, e))
    <3>1. pos \in Nat
      BY QueueAssumption
    <3>2. QED
      BY <1>2, <3>1, PutKeeps
  <2>3. QED
    BY <2>1, <2>2 DEF HeapInv
<1>7. ASSUME Priority_Queue_Pop PROVE HeapInv'
  <2>1. isHeap' = isHeap /\ isHeap
    BY <1>7 DEF Priority_Queue_Pop
  <2>2. CASE v.top = 0
    <3>1. v' = v
      BY <1>7, <2>2 DEF Priority_Queue_Pop
    <3>2. QED
      BY <1>2, <2>1, <3>1 DEF HeapInv
  <2>3. CASE v.top # 0
    <3>1. v' = Vector_Pop(Heap_Pop(v))
      BY <1>7, <2>3 DEF Priority_Queue_Pop
    <3>2. LET r == Vector_Pop(Heap_Pop(v))
          IN  IsVector(r) /\ OrderedFrom(r.data, r.top, 0)
      <4>1. v.top > 0
        BY <1>3, <2>3
      <4>2. QED
        BY <1>2, <2>1, <4>1, PopResult
    <3>3. QED
      BY <1>2, <2>1, <3>1, <3>2 DEF HeapInv
  <2>4. QED
    BY <2>2, <2>3
<1>8. ASSUME VectorPop PROVE HeapInv'
  <2> DEFINE k == v.top - 1
  <2>1. isHeap' = isHeap /\ v' = Vector_Pop(v) /\ v.top > 0
    BY <1>8 DEF VectorPop
  <2>2. v' = [v EXCEPT !.top = k]
    BY <1>2, <2>1 DEF Vector_Pop, IsVector, Vector
  <2>3. k \in 0 .. v.cap /\ k <= v.top /\ k \in Nat
    BY <1>3, <2>1
  <2> HIDE DEF k
  <2>4. IsVector(v') /\ v'.top = k /\ v'.data = v.data
    BY <1>2, <2>2, <2>3, WithTop
  <2>5. isHeap => OrderedFrom(v'.data, v'.top, 0)
    BY <1>2, <1>3, <2>3, <2>4, SameCellsOrdered
  <2>6. QED
    BY <1>2, <2>1, <2>4, <2>5 DEF HeapInv
<1>9. ASSUME NEW newcap \in Caps, VectorResize(newcap) PROVE HeapInv'
  <2>1. isHeap' = isHeap /\ v' = Vector_Resize(v, newcap) /\ v.top <= newcap
    BY <1>9 DEF VectorResize
  <2>2. /\ IsVector(v') /\ v'.top = v.top
        /\ \A j \in 0 .. v.top - 1 : v'.data[j] = v.data[j]
    <3>1. newcap \in Nat
      BY QueueAssumption
    <3>2. QED
      BY <1>2, <2>1, <3>1, ResizeKeeps
  <2>3. isHeap => OrderedFrom(v'.data, v'.top, 0)
    BY <1>2, <1>3, <2>2, SameCellsOrdered
  <2>4. QED
    BY <1>2, <2>1, <2>2, <2>3 DEF HeapInv
<1>10. ASSUME MakeHeap PROVE HeapInv'
  <2>1. isHeap' = TRUE /\ v' = Make_Heap(v)
    BY <1>10 DEF MakeHeap
  <2>2. LET r == Make_Heap(v) IN IsVector(r) /\ OrderedFrom(r.data, r.top, 0)
    BY <1>2, MakeResult
  <2>3. QED
    BY <2>1, <2>2 DEF HeapInv
<1>11. ASSUME UNCHANGED vars PROVE HeapInv'
  BY <1>2, <1>11 DEF HeapInv, vars
<1>12. QED
  BY <1>1, <1>4, <1>5, <1>6, <1>7, <1>8, <1>9, <1>10, <1>11 DEF Next

(* The invariant holds in every state.                                     *)
LEMMA HeapInvHolds == Spec => []HeapInv
<1>1. QED
  BY InitHeap, StepHeap, PTL DEF Spec

(* The invariant says what the property does.                              *)
LEMMA HeapInvOrders == HeapInv => HeapOrdered
<1>1. SUFFICES ASSUME HeapInv, isHeap
               PROVE  /\ \A i \in 1 .. v.top - 1 : ~Less(v.data[Parent(i)], v.data[i])
                      /\ \A i \in 0 .. v.top - 1 : ~Less(Priority_Queue_Top[1], v.data[i])
  BY DEF HeapOrdered
<1> DEFINE d == v.data
           m == v.top
<1>2. v.cap \in Nat /\ m \in 0 .. v.cap /\ d \in Arrays(v.cap) /\ OrderedFrom(d, m, 0)
  BY <1>1 DEF HeapInv, IsVector
<1>3. \A j \in 0 .. v.cap - 1 : Key[d[j]] \in Int
  BY <1>2, KeyType DEF Arrays
<1>4. ASSUME NEW i \in 1 .. m - 1 PROVE ~Less(d[Parent(i)], d[i])
  <2>1. Parent(i) \in 0 .. v.cap - 1 /\ Parent(i) >= 0 /\ i \in 0 .. v.cap - 1
    BY <1>2, ParentBefore
  <2>2. Key[d[i]] <= Key[d[Parent(i)]]
    BY <1>2, <2>1 DEF OrderedFrom, InOrder
  <2>3. QED
    BY <1>3, <2>1, <2>2 DEF Less
<1>5. ASSUME NEW i \in 0 .. m - 1 PROVE ~Less(Priority_Queue_Top[1], d[i])
  <2>1. 0 < m /\ i \in 0 .. v.cap - 1 /\ 0 \in 0 .. v.cap - 1
    BY <1>2
  <2>2. Priority_Queue_Top[1] = d[0]
    BY <2>1 DEF Priority_Queue_Top, Vector_Get
  <2>3. Key[d[i]] <= Key[d[0]]
    <3> HIDE DEF d, m
    <3>1. QED
      BY <1>2, FirstIsGreatest
  <2>4. QED
    BY <1>3, <2>1, <2>2, <2>3 DEF Less
<1>6. QED
  BY <1>4, <1>5

(* Whatever a program does with the queue and with its vector: while the   *)
(* vector is a heap no element is greater than its parent, and the first   *)
(* is a greatest one (heap.c:21-84, priority_queue.c:15-31).               *)
THEOREM QueueInOrder == Spec => []HeapOrdered
<1>1. QED
  BY HeapInvHolds, HeapInvOrders, PTL
------------------------------------------------------------------------------
(* The refinement of the bag.  A bag of elements, by how often it has each *)
Bagged(c) == [x \in {y \in Elems : c[y] > 0} |-> c[x]]

Counts(d, m) == [x \in Elems |-> Count(d, m, x)]

Content(w) == Bagged(Counts(w.data, w.top))

(* How often a vector has each element                                     *)
LEMMA CountsType ==
  ASSUME NEW m \in Nat, NEW d
  PROVE  Counts(d, m) \in [Elems -> Nat]
BY CellsFinite DEF Counts

(* An element is counted when a cell has it.                               *)
LEMMA CountPositive ==
  ASSUME NEW m \in Nat, NEW d, NEW x
  PROVE  Count(d, m, x) > 0 <=> \E j \in 0 .. m - 1 : d[j] = x
<1>1. IsFiniteSet(CellsOf(d, m, x)) /\ Count(d, m, x) \in Nat
  BY CellsFinite
<1>2. Count(d, m, x) = 0 <=> CellsOf(d, m, x) = {}
  BY <1>1, FS_EmptySet DEF Count
<1>3. CellsOf(d, m, x) # {} <=> \E j \in 0 .. m - 1 : d[j] = x
  BY DEF CellsOf
<1>4. QED
  BY <1>1, <1>2, <1>3

(* The bag of the model is the count of each element.                      *)
LEMMA ElementsAreContent ==
  ASSUME NEW w, IsVector(w)
  PROVE  LET cells == 0 .. w.top - 1
         IN  [e \in {w.data[j] : j \in cells} |-> Cardinality({j \in cells : w.data[j] = e})]
               = Content(w)
<1> DEFINE d == w.data
           m == w.top
           used == {d[j] : j \in 0 .. m - 1}
           some == {y \in Elems : Counts(d, m)[y] > 0}
<1>1. w.cap \in Nat /\ m \in 0 .. w.cap /\ m \in Nat /\ d \in [0 .. w.cap - 1 -> Elems]
  BY DEF IsVector, Arrays
<1>2. used \subseteq Elems
  BY <1>1
<1>3. \A y \in Elems : y \in some <=> \E j \in 0 .. m - 1 : d[j] = y
  BY <1>1, CountPositive DEF Counts
<1>4. used = some
  BY <1>2, <1>3
<1>5. Content(w) = [e \in some |-> Count(d, m, e)]
  BY DEF Content, Bagged, Counts
<1>6. [e \in used |-> Cardinality({j \in 0 .. m - 1 : d[j] = e})]
        = [e \in used |-> Count(d, m, e)]
  BY DEF Count, CellsOf
<1> HIDE DEF some
<1>7. QED
  BY <1>4, <1>5, <1>6

(* Arrays that agree on the cells counted *)
LEMMA CountAgrees ==
  ASSUME NEW m \in Nat, NEW d, NEW g, \A j \in 0 .. m - 1 : g[j] = d[j], NEW x
  PROVE  Count(g, m, x) = Count(d, m, x)
<1>1. CellsOf(g, m, x) = CellsOf(d, m, x)
  BY DEF CellsOf
<1>2. QED
  BY <1>1 DEF Count

(* c has one e more than b *)
OneMore(c, b, e) == \A x \in Elems : c[x] = b[x] + Hit(e, x)

(* Adding an element to a bag counts one more of it.                       *)
LEMMA AddOne ==
  ASSUME NEW b \in [Elems -> Nat], NEW c \in [Elems -> Nat], NEW e \in Elems,
         OneMore(c, b, e)
  PROVE  Promised!BagAdd(Bagged(b), e) = Bagged(c)
<1> DEFINE B == Bagged(b)
           C == Bagged(c)
<1>1. DOMAIN B = {y \in Elems : b[y] > 0} /\ \A y \in DOMAIN B : B[y] = b[y]
  BY DEF Bagged
<1>2. \A y \in Elems : c[y] = b[y] + (IF e = y THEN 1 ELSE 0)
  BY DEF OneMore, Hit
<1>3. {y \in Elems : c[y] > 0} = {y \in Elems : b[y] > 0} \cup {e}
  BY <1>2
<1>4. C = [y \in DOMAIN B \cup {e} |-> b[y] + (IF e = y THEN 1 ELSE 0)]
  <2>1. C = [y \in {y \in Elems : b[y] > 0} \cup {e} |-> c[y]]
    BY <1>3 DEF Bagged
  <2>2. QED
    BY <1>1, <1>2, <2>1
<1> HIDE DEF B, C
<1>5. CASE e \in DOMAIN B
  <2>1. DOMAIN B \cup {e} = DOMAIN B
    BY <1>5
  <2>2. C = [y \in DOMAIN B |-> b[y] + (IF e = y THEN 1 ELSE 0)]
    BY <1>4, <2>1
  <2>3. \A y \in DOMAIN B : b[y] + (IF e = y THEN 1 ELSE 0) = IF y = e THEN B[y] + 1 ELSE B[y]
    BY <1>1
  <2>4. C = [y \in DOMAIN B |-> IF y = e THEN B[y] + 1 ELSE B[y]]
    BY <2>2, <2>3
  <2>5. QED
    BY <1>5, <2>4 DEF Promised!BagAdd, B, C
<1>6. CASE e \notin DOMAIN B
  <2>1. b[e] = 0
    BY <1>1, <1>6
  <2>2. \A y \in DOMAIN B \cup {e} : b[y] + (IF e = y THEN 1 ELSE 0) = IF y = e THEN 1 ELSE B[y]
    BY <1>1, <1>6, <2>1
  <2>3. C = [y \in DOMAIN B \cup {e} |-> IF y = e THEN 1 ELSE B[y]]
    BY <1>4, <2>2
  <2>4. QED
    BY <1>6, <2>3 DEF Promised!BagAdd, B, C
<1>7. QED
  BY <1>5, <1>6

(* Removing an element that is counted counts one less of it.              *)
LEMMA RemoveOne ==
  ASSUME NEW b \in [Elems -> Nat], NEW c \in [Elems -> Nat], NEW e \in Elems,
         OneMore(c, b, e)
  PROVE  /\ e \in DOMAIN Bagged(c)
         /\ Promised!BagRemove(Bagged(c), e) = Bagged(b)
<1> DEFINE B == Bagged(b)
           C == Bagged(c)
<1>1. DOMAIN C = {y \in Elems : c[y] > 0} /\ \A y \in DOMAIN C : C[y] = c[y]
  BY DEF Bagged
<1>2. \A y \in Elems : c[y] = b[y] + (IF e = y THEN 1 ELSE 0)
  BY DEF OneMore, Hit
<1>3. e \in DOMAIN C /\ C[e] = b[e] + 1
  BY <1>1, <1>2
<1>4. B = [y \in {y \in Elems : b[y] > 0} |-> b[y]]
  BY DEF Bagged
<1> HIDE DEF B, C
<1>5. CASE C[e] = 1
  <2>1. {y \in Elems : b[y] > 0} = DOMAIN C \ {e}
    BY <1>1, <1>2, <1>3, <1>5
  <2>2. \A y \in DOMAIN C \ {e} : b[y] = C[y]
    BY <1>1, <1>2
  <2>3. B = [y \in DOMAIN C \ {e} |-> C[y]]
    BY <1>4, <2>1, <2>2
  <2>4. QED
    BY <1>3, <1>5, <2>3 DEF Promised!BagRemove, B, C
<1>6. CASE C[e] # 1
  <2>1. {y \in Elems : b[y] > 0} = DOMAIN C
    BY <1>1, <1>2, <1>3, <1>6
  <2>2. \A y \in DOMAIN C : b[y] = IF y = e THEN C[y] - 1 ELSE C[y]
    BY <1>1, <1>2
  <2>3. B = [y \in DOMAIN C |-> IF y = e THEN C[y] - 1 ELSE C[y]]
    BY <1>4, <2>1, <2>2
  <2>4. QED
    BY <1>3, <1>6, <2>3 DEF Promised!BagRemove, B, C
<1>7. QED
  BY <1>5, <1>6
------------------------------------------------------------------------------
(* What each call does to the bag *)
LEMMA PushAdds ==
  ASSUME NEW w, IsVector(w), NEW e \in Elems
  PROVE  /\ Content(PushPtr(w, e)) = Promised!BagAdd(Content(w), e)
         /\ Content(Heap_Push(PushPtr(w, e))) = Promised!BagAdd(Content(w), e)
<1> DEFINE q == PushPtr(w, e)
           r == Heap_Push(q)
           b == Counts(w.data, w.top)
           c == Counts(q.data, q.top)
<1>1. w.top \in Nat /\ w.data \in Arrays(w.cap)
  BY DEF IsVector
<1>2. /\ IsVector(q) /\ q.top = w.top + 1 /\ q.data[w.top] = e
      /\ \A j \in 0 .. w.top - 1 : q.data[j] = w.data[j]
  BY PushKeeps
<1>3. r.top = w.top + 1 /\ Reordered(r.data, q.cap, q.data, r.top)
  BY PushResult
<1> HIDE DEF q, r
<1>4. OneMore(c, b, e)
  <2>1. ASSUME NEW x \in Elems PROVE c[x] = b[x] + Hit(e, x)
    <3>1. c[x] = Count(q.data, w.top + 1, x) /\ b[x] = Count(w.data, w.top, x)
      BY <1>2 DEF Counts
    <3>2. Count(q.data, w.top + 1, x) = Count(q.data, w.top, x) + Hit(e, x)
      BY <1>1, <1>2, CountLast
    <3>3. Count(q.data, w.top, x) = Count(w.data, w.top, x)
      <4>1. w.top \in Nat /\ \A j \in 0 .. w.top - 1 : q.data[j] = w.data[j]
        BY <1>1, <1>2
      <4>2. CellsOf(q.data, w.top, x) = CellsOf(w.data, w.top, x)
        BY ONLY <4>1 DEF CellsOf
      <4>3. QED
        BY ONLY <4>2 DEF Count
    <3>4. QED
      BY <3>1, <3>2, <3>3
  <2> HIDE DEF b, c
  <2>2. QED
    BY <2>1 DEF OneMore
<1>5. b \in [Elems -> Nat] /\ c \in [Elems -> Nat]
  BY <1>1, <1>2, CountsType
<1>6. Counts(r.data, r.top) = c
  <2>1. \A x \in Elems : Count(r.data, r.top, x) = Count(q.data, q.top, x)
    BY <1>2, <1>3 DEF Reordered, SameElements
  <2>2. QED
    BY <2>1 DEF Counts
<1>7. Promised!BagAdd(Bagged(b), e) = Bagged(c)
  <2> HIDE DEF b, c
  <2>1. QED
    BY <1>4, <1>5, AddOne
<1>8. QED
  BY <1>6, <1>7 DEF Content, q, r

(* Heap_Pop and the pop of the vector take the first element.              *)
LEMMA PopRemoves ==
  ASSUME NEW w, IsVector(w), w.top > 0
  PROVE  /\ w.data[0] \in DOMAIN Content(w)
         /\ Content(Vector_Pop(Heap_Pop(w))) = Promised!BagRemove(Content(w), w.data[0])
<1> DEFINE r == Vector_Pop(Heap_Pop(w))
           e == w.data[0]
           b == Counts(r.data, r.top)
           c == Counts(w.data, w.top)
<1>1. w.cap \in Nat /\ w.top \in 0 .. w.cap /\ w.data \in Arrays(w.cap)
  BY DEF IsVector
<1>2. /\ IsVector(r) /\ r.top = w.top - 1
      /\ \A x \in Elems : Count(r.data, r.top, x) = Count(w.data, w.top, x) - Hit(w.data[0], x)
  BY PopResult
<1> HIDE DEF r
<1>3. e \in Elems
  BY <1>1 DEF Arrays
<1>4. r.top \in Nat /\ w.top \in Nat
  BY <1>1, <1>2
<1>5. b \in [Elems -> Nat] /\ c \in [Elems -> Nat]
  BY <1>4, CountsType
<1>6. OneMore(c, b, e)
  <2>1. ASSUME NEW x \in Elems PROVE c[x] = b[x] + Hit(e, x)
    <3>1. c[x] = Count(w.data, w.top, x) /\ b[x] = c[x] - Hit(e, x)
      BY <1>2 DEF Counts
    <3>2. c[x] \in Nat /\ Hit(e, x) \in Int
      BY <1>5 DEF Hit
    <3> HIDE DEF b, c, e
    <3>3. QED
      BY <3>1, <3>2
  <2> HIDE DEF b, c, e
  <2>2. QED
    BY <2>1 DEF OneMore
<1>7. e \in DOMAIN Bagged(c) /\ Promised!BagRemove(Bagged(c), e) = Bagged(b)
  <2> HIDE DEF b, c, e
  <2>1. QED
    BY <1>3, <1>5, <1>6, RemoveOne
<1>8. QED
  BY <1>7 DEF Content, r

(* The vector's own pop takes the last.                                    *)
LEMMA VectorPopRemoves ==
  ASSUME NEW w, IsVector(w), w.top > 0
  PROVE  \E e \in DOMAIN Content(w) :
           Content(Vector_Pop(w)) = Promised!BagRemove(Content(w), e)
<1> DEFINE k == w.top - 1
           e == w.data[k]
           b == Counts(w.data, k)
           c == Counts(w.data, w.top)
<1>1. w.cap \in Nat /\ w.top \in 0 .. w.cap /\ w.data \in Arrays(w.cap)
  BY DEF IsVector
<1>2. k \in Nat /\ k \in 0 .. w.cap - 1 /\ k \in 0 .. w.cap /\ k + 1 = w.top
  BY <1>1
<1>3. e \in Elems
  BY <1>1, <1>2 DEF Arrays
<1>4. Vector_Pop(w) = [w EXCEPT !.top = k]
  BY DEF Vector_Pop, IsVector, Vector
<1> HIDE DEF k
<1>5. Vector_Pop(w).data = w.data /\ Vector_Pop(w).top = k
  BY <1>2, <1>4, WithTop
<1>6. b \in [Elems -> Nat] /\ c \in [Elems -> Nat]
  BY <1>1, <1>2, CountsType
<1>7. OneMore(c, b, e)
  <2>1. ASSUME NEW x \in Elems PROVE c[x] = b[x] + Hit(e, x)
    BY <1>2, CountLast DEF Counts
  <2> HIDE DEF b, c, e
  <2>2. QED
    BY <2>1 DEF OneMore
<1>8. e \in DOMAIN Bagged(c) /\ Promised!BagRemove(Bagged(c), e) = Bagged(b)
  <2> HIDE DEF b, c, e
  <2>1. QED
    BY <1>3, <1>6, <1>7, RemoveOne
<1>9. QED
  BY <1>5, <1>8 DEF Content

(* A put replaces an element, or adds one and whatever is between.         *)
LEMMA PutChanges ==
  ASSUME NEW w, IsVector(w), NEW pos \in Nat, NEW e \in Elems
  PROVE  LET r == PutPtr(w, pos, e)
         IN  \/ \E a \in DOMAIN Content(w) :
                  Content(r) = Promised!BagAdd(Promised!BagRemove(Content(w), a), e)
             \/ Promised!\sqsubseteq(Promised!BagAdd(Content(w), e), Content(r))
<1> DEFINE r == PutPtr(w, pos, e)
           m == w.top
           d == w.data
           b == Counts(d, m)
           c == Counts(r.data, r.top)
<1>1. w.cap \in Nat /\ m \in Nat /\ m \in 0 .. w.cap /\ d \in Arrays(w.cap)
  BY DEF IsVector
<1>2. /\ IsVector(r)
      /\ r.top = IF pos >= m THEN pos + 1 ELSE m
      /\ r.data[pos] = e
      /\ \A j \in 0 .. m - 1 : j # pos => r.data[j] = d[j]
  BY PutKeeps
<1> HIDE DEF r
<1>3. r.top \in Nat
  BY <1>1, <1>2
<1>4. b \in [Elems -> Nat] /\ c \in [Elems -> Nat]
  BY <1>1, <1>3, CountsType
<1>5. CASE pos < m
  <2> DEFINE a == d[pos]
             g == [d EXCEPT ![pos] = e]
             o == [x \in Elems |-> b[x] - Hit(a, x)]
  <2>1. pos \in 0 .. m - 1 /\ pos \in 0 .. w.cap - 1 /\ r.top = m
    BY <1>1, <1>2, <1>5
  <2>2. a \in Elems
    BY <1>1, <2>1 DEF Arrays
  <2>3. g[pos] = e /\ \A j \in 0 .. w.cap - 1 : j # pos => g[j] = d[j]
    <3>1. g \in Arrays(w.cap) /\ g[pos] = e /\ \A j \in 0 .. w.cap - 1 : j # pos => g[j] = d[j]
      BY <1>1, <2>1, CellChanged
    <3>2. QED
      BY <3>1
  <2>4. ASSUME NEW x \in Elems PROVE c[x] = b[x] - Hit(a, x) + Hit(e, x)
    <3>1. \A j \in 0 .. m - 1 : r.data[j] = g[j]
      <4> HIDE DEF g
      <4>1. QED
        BY <1>1, <1>2, <2>1, <2>3
    <3>2. Count(r.data, m, x) = Count(g, m, x)
      <4> HIDE DEF g, b, c
      <4>1. QED
        BY ONLY <1>1, <3>1, CountAgrees
    <3>3. Count(g, m, x) = Count(d, m, x) - Hit(d[pos], x) + Hit(e, x)
      BY <1>1, <2>1, CountUpdate
    <3>4. QED
      BY <2>1, <3>2, <3>3 DEF Counts
  <2> HIDE DEF g
  <2>5. ASSUME NEW x \in Elems PROVE b[x] - Hit(a, x) \in Nat
    <3>1. b[x] \in Nat /\ (a = x => b[x] > 0)
      <4>1. b[x] = Count(d, m, x)
        BY DEF Counts
      <4>2. a = x => Count(d, m, x) > 0
        BY <1>1, <2>1, CountPositive
      <4> HIDE DEF a, b
      <4>3. QED
        BY <1>4, <4>1, <4>2
    <3> HIDE DEF a, b
    <3>2. QED
      BY <3>1 DEF Hit
  <2>6. o \in [Elems -> Nat] /\ \A x \in Elems : o[x] = b[x] - Hit(a, x)
    BY <2>5
  <2> HIDE DEF a, b, c, o, m, d
  <2>7. \A x \in Elems : b[x] \in Nat /\ Hit(a, x) \in Int /\ Hit(e, x) \in Int
    BY <1>4 DEF Hit
  <2>8. OneMore(b, o, a)
    BY <2>6, <2>7 DEF OneMore
  <2>9. OneMore(c, o, e)
    <3>1. ASSUME NEW x \in Elems PROVE c[x] = o[x] + Hit(e, x)
      BY <2>4, <2>6
    <3>2. QED
      BY <3>1 DEF OneMore
  <2>10. a \in DOMAIN Bagged(b) /\ Promised!BagRemove(Bagged(b), a) = Bagged(o)
    BY <1>4, <2>2, <2>6, <2>8, RemoveOne
  <2>11. Promised!BagAdd(Bagged(o), e) = Bagged(c)
    BY <1>4, <2>6, <2>9, AddOne
  <2>12. QED
    BY <2>10, <2>11 DEF Content, b, c, m, d, r
<1>6. CASE pos >= m
  <2> DEFINE o == [x \in Elems |-> b[x] + Hit(e, x)]
  <2>1. r.top = pos + 1 /\ pos \in 0 .. (pos + 1) - 1 /\ pos + 1 \in Nat
    BY <1>2, <1>6
  <2>2. ASSUME NEW x \in Elems PROVE c[x] >= b[x] + Hit(e, x)
    <3> DEFINE A == CellsOf(r.data, pos + 1, x) \ {pos}
               O == CellsOf(d, m, x)
    <3>1. Count(r.data, pos + 1, x) = Cardinality(A) + Hit(e, x)
      BY <1>2, <2>1, CountWithout
    <3>2. IsFiniteSet(A)
      <4>1. IsFiniteSet(CellsOf(r.data, pos + 1, x))
        BY <2>1, CellsFinite
      <4>2. QED
        BY <4>1, FS_RemoveElement
    <3>3. O \subseteq A
      BY <1>1, <1>2, <1>6 DEF CellsOf
    <3>4. Cardinality(O) <= Cardinality(A)
      <4> HIDE DEF A, O
      <4>1. QED
        BY <3>2, <3>3, FS_Subset
    <3>5. Cardinality(A) \in Nat /\ Cardinality(O) \in Nat
      <4>1. Cardinality(O) \in Nat
        BY <1>1, CellsFinite DEF Count
      <4> HIDE DEF A
      <4>2. QED
        BY <3>2, <4>1, FS_CardinalityType
    <3>6. c[x] = Cardinality(A) + Hit(e, x) /\ b[x] = Cardinality(O)
      BY <2>1, <3>1 DEF Counts, Count
    <3> HIDE DEF A, O, b, c
    <3>7. QED
      BY <3>4, <3>5, <3>6 DEF Hit
  <2>3. o \in [Elems -> Nat] /\ \A x \in Elems : o[x] = b[x] + Hit(e, x)
    <3> HIDE DEF b
    <3>1. \A x \in Elems : b[x] + Hit(e, x) \in Nat
      BY <1>4 DEF Hit
    <3>2. QED
      BY <3>1
  <2> HIDE DEF b, c, o
  <2>4. Promised!BagAdd(Bagged(b), e) = Bagged(o)
    <3>1. OneMore(o, b, e)
      BY <2>3 DEF OneMore
    <3>2. QED
      BY <1>4, <2>3, <3>1, AddOne
  <2>5. ASSUME NEW x \in Elems, o[x] > 0 PROVE c[x] > 0 /\ o[x] <= c[x]
    <3>1. c[x] >= o[x] /\ c[x] \in Nat /\ o[x] \in Nat
      BY <1>4, <2>2, <2>3
    <3>2. QED
      BY <2>5, <3>1
  <2>6. Promised!\sqsubseteq(Bagged(o), Bagged(c))
    BY <2>5 DEF Promised!\sqsubseteq, Bagged
  <2>7. QED
    BY <2>4, <2>6 DEF Content, b, c, r
<1>7. QED
  BY <1>1, <1>5, <1>6

(* A vector with the same elements in another order                        *)
LEMMA SameContent ==
  ASSUME NEW w, NEW u, w.top = u.top,
         \A x \in Elems : Count(w.data, w.top, x) = Count(u.data, u.top, x)
  PROVE  Content(w) = Content(u)
<1>1. Counts(w.data, w.top) = Counts(u.data, u.top)
  BY DEF Counts
<1>2. QED
  BY <1>1 DEF Content
------------------------------------------------------------------------------
(* A new vector is an empty bag.                                           *)
LEMMA InitBag == Init => Promised!Init
<1>1. SUFFICES ASSUME Init PROVE Promised!Init
  OBVIOUS
<1>2. v.top = 0 /\ isHeap = TRUE /\ last = "create"
  <2>1. \A cap \in Caps : NewVector(cap).top = 0
    BY DEF NewVector, Vector
  <2>2. QED
    BY <1>1, <2>1 DEF Init
<1>3. 0 .. v.top - 1 = {}
  BY <1>2
<1>4. Elements = [e \in {} |-> 1]
  BY <1>3 DEF Elements
<1>5. QED
  BY <1>2, <1>4 DEF Promised!Init, Promised!EmptyBag, Promised!SetToBag

(* The first element of a heap is one of the greatest of its bag.          *)
LEMMA FirstIsPromised ==
  ASSUME NEW w, IsVector(w), OrderedFrom(w.data, w.top, 0)
  PROVE  \A f \in DOMAIN Content(w) : Key[f] <= Key[w.data[0]]
<1>1. SUFFICES ASSUME NEW f \in DOMAIN Content(w) PROVE Key[f] <= Key[w.data[0]]
  OBVIOUS
<1>2. w.cap \in Nat /\ w.top \in 0 .. w.cap /\ w.top \in Nat /\ w.data \in Arrays(w.cap)
  BY DEF IsVector
<1>3. f \in Elems /\ Count(w.data, w.top, f) > 0
  BY DEF Content, Bagged, Counts
<1>4. PICK j \in 0 .. w.top - 1 : w.data[j] = f
  BY <1>2, <1>3, CountPositive
<1>5. \A i \in 0 .. w.top - 1 : Key[w.data[i]] <= Key[w.data[0]]
  BY <1>2, FirstIsGreatest
<1>6. QED
  BY <1>4, <1>5

(* Each call of the queue and of its vector is a step of the bag.          *)
LEMMA StepBag == HeapInv /\ HeapInv' /\ [Next]_vars => [Promised!Next]_(Promised!vars)
<1>1. SUFFICES ASSUME HeapInv, HeapInv', [Next]_vars PROVE [Promised!Next]_(Promised!vars)
  OBVIOUS
<1>2. /\ IsVector(v) /\ IsVector(v') /\ isHeap \in BOOLEAN
      /\ isHeap => OrderedFrom(v.data, v.top, 0)
  BY <1>1 DEF HeapInv
<1>3. Elements = Content(v) /\ Elements' = Content(v')
  BY <1>2, ElementsAreContent DEF Elements
<1>4. v.top \in Nat
  BY <1>2 DEF IsVector
<1>5. ASSUME NEW e \in Elems, Priority_Queue_Push(e) PROVE Promised!Next
  <2>1. v' = Heap_Push(PushPtr(v, e)) /\ isHeap /\ isHeap' = isHeap /\ last' = "push"
    BY <1>5 DEF Priority_Queue_Push
  <2>2. Elements' = Promised!BagAdd(Elements, e)
    BY <1>2, <1>3, <2>1, PushAdds
  <2>3. QED
    BY <2>1, <2>2 DEF Promised!Next, Promised!Push
<1>6. ASSUME NEW e \in Elems, VectorPush(e) PROVE Promised!Next
  <2>1. v' = PushPtr(v, e) /\ isHeap' = FALSE /\ last' = "put"
    BY <1>6 DEF VectorPush
  <2>2. Elements' = Promised!BagAdd(Elements, e)
    BY <1>2, <1>3, <2>1, PushAdds
  <2>3. Promised!\sqsubseteq(Promised!BagAdd(Elements, e), Elements')
    <3>1. Promised!\sqsubseteq(Content(v'), Content(v'))
      <4>1. \A x \in DOMAIN Content(v') : Content(v')[x] <= Content(v')[x]
        BY <1>2, CountsType DEF IsVector, Content, Bagged
      <4>2. QED
        BY <4>1 DEF Promised!\sqsubseteq
    <3>2. QED
      BY <1>3, <2>2, <3>1
  <2>4. QED
    BY <2>1, <2>3 DEF Promised!Next, Promised!Put
<1>7. ASSUME NEW e \in Elems, NEW pos \in 0 .. MaxTop - 1, VectorPut(pos, e) PROVE Promised!Next
  <2>1. v' = PutPtr(v, pos, e) /\ isHeap' = FALSE /\ last' = "put"
    BY <1>7 DEF VectorPut
  <2>2. pos \in Nat
    BY QueueAssumption
  <2>3. \/ \E a \in DOMAIN Elements :
             Elements' = Promised!BagAdd(Promised!BagRemove(Elements, a), e)
        \/ Promised!\sqsubseteq(Promised!BagAdd(Elements, e), Elements')
    BY <1>2, <1>3, <2>1, <2>2, PutChanges
  <2>4. QED
    BY <2>1, <2>3 DEF Promised!Next, Promised!Put, Promised!BagToSet
<1>8. ASSUME Priority_Queue_Pop PROVE Promised!Next
  <2>1. isHeap /\ isHeap' = isHeap /\ last' = "pop"
    BY <1>8 DEF Priority_Queue_Pop
  <2>2. CASE v.top = 0
    <3>1. v' = v
      BY <1>8, <2>2 DEF Priority_Queue_Pop
    <3>2. 0 .. v.top - 1 = {}
      BY <2>2
    <3>3. Elements = [x \in {} |-> 1]
      BY <3>2 DEF Elements
    <3>4. Elements' = Elements
      BY <1>3, <3>1
    <3>5. QED
      BY <2>1, <3>3, <3>4 DEF Promised!Next, Promised!Pop, Promised!EmptyBag, Promised!SetToBag
  <2>3. CASE v.top # 0
    <3> DEFINE e == v.data[0]
    <3>1. v' = Vector_Pop(Heap_Pop(v)) /\ v.top > 0
      BY <1>4, <1>8, <2>3 DEF Priority_Queue_Pop
    <3>2. e \in DOMAIN Elements /\ Elements' = Promised!BagRemove(Elements, e)
      BY <1>2, <1>3, <3>1, PopRemoves
    <3>3. \A f \in DOMAIN Elements : Key[f] <= Key[e]
      BY <1>2, <1>3, <2>1, FirstIsPromised
    <3> HIDE DEF e
    <3>4. e \in Promised!Greatest
      BY <3>2, <3>3 DEF Promised!Greatest, Promised!BagToSet
    <3>5. Elements # [x \in {} |-> 1]
      BY <3>2
    <3>6. QED
      BY <2>1, <3>2, <3>4, <3>5
      DEF Promised!Next, Promised!Pop, Promised!EmptyBag, Promised!SetToBag
  <2>4. QED
    BY <2>2, <2>3
<1>9. ASSUME VectorPop PROVE Promised!Next
  <2>1. v' = Vector_Pop(v) /\ v.top > 0 /\ isHeap' = isHeap /\ last' = "remove"
    BY <1>9 DEF VectorPop
  <2>2. \E e \in DOMAIN Elements : Elements' = Promised!BagRemove(Elements, e)
    BY <1>2, <1>3, <2>1, VectorPopRemoves
  <2>3. QED
    BY <2>1, <2>2 DEF Promised!Next, Promised!RemoveAny, Promised!BagToSet
<1>10. ASSUME NEW newcap \in Caps, VectorResize(newcap) PROVE Promised!Next
  <2>1. v' = Vector_Resize(v, newcap) /\ v.top <= newcap /\ isHeap' = isHeap /\ last' = "resize"
    BY <1>10 DEF VectorResize
  <2>2. v'.top = v.top /\ \A j \in 0 .. v.top - 1 : v'.data[j] = v.data[j]
    <3>1. newcap \in Nat
      BY QueueAssumption
    <3>2. QED
      BY <1>2, <2>1, <3>1, ResizeKeeps
  <2>3. \A x \in Elems : Count(v'.data, v.top, x) = Count(v.data, v.top, x)
    <3>1. \A x \in Elems : CellsOf(v'.data, v.top, x) = CellsOf(v.data, v.top, x)
      BY <2>2 DEF CellsOf
    <3>2. QED
      BY <3>1 DEF Count
  <2>4. Elements' = Elements
    BY <1>3, <2>2, <2>3, SameContent
  <2>5. QED
    BY <2>1, <2>4 DEF Promised!Next, Promised!Resize
<1>11. ASSUME MakeHeap PROVE Promised!Next
  <2>1. v' = Make_Heap(v) /\ isHeap' = TRUE /\ last' = "order"
    BY <1>11 DEF MakeHeap
  <2>2. LET r == Make_Heap(v)
        IN  r.top = v.top /\ SameElements(r.data, v.data, v.top)
    BY <1>2, MakeResult DEF Reordered
  <2>3. v'.top = v.top /\ \A x \in Elems : Count(v'.data, v.top, x) = Count(v.data, v.top, x)
    BY <2>1, <2>2 DEF SameElements
  <2>4. Elements' = Elements
    BY <1>3, <2>3, SameContent
  <2>5. QED
    BY <2>1, <2>4 DEF Promised!Next, Promised!Order
<1>12. ASSUME UNCHANGED vars PROVE UNCHANGED Promised!vars
  BY <1>3, <1>12 DEF vars, Promised!vars
<1>13. QED
  BY <1>1, <1>5, <1>6, <1>7, <1>8, <1>9, <1>10, <1>11, <1>12 DEF Next

(* The queue and its vector are the bag that the headers promise: nothing  *)
(* is lost or made up, and Priority_Queue_Pop takes a greatest element     *)
(* (priority_queue.h:6-10, heap.h:30-36).                                  *)
THEOREM QueueIsBag == Spec => ImplementsBag
<1>1. Spec => Promised!Init /\ [][Promised!Next]_(Promised!vars)
  BY InitBag, StepBag, HeapInvHolds, PTL DEF Spec
<1>2. QED
  BY <1>1, PTL DEF ImplementsBag, Promised!Spec
==============================================================================
