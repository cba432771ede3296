-------------------------------- MODULE Heap --------------------------------
(***************************************************************************)
(* rmutil/vector.c and rmutil/heap.c as operators on a vector [data, cap,  *)
(* top]: data has a cell for each of 0 .. cap - 1, those from top on hold  *)
(* what was left there.  A heap is the range [0, last) of data, as in      *)
(* every call of these functions.                                          *)
(***************************************************************************)
EXTENDS Integers, Sequences, SequencesExt

CONSTANTS
  Elems,       \* the elements
  Key,         \* cmp(a, b) is Key[a] - Key[b]
  Zero         \* the element whose bytes are all zero

ASSUME HeapAssumption == Zero \in Elems /\ Key \in [Elems -> Int]

Less(a, b) == Key[a] < Key[b]

------------------------------------------------------------------------------
(* vector.c *)

Vector(data, cap, top) == [data |-> data, cap |-> cap, top |-> top]

NewVector(cap) == Vector([j \in 0 .. cap - 1 |-> Zero], cap, 0)

Vector_Resize(v, newcap) ==
  Vector([j \in 0 .. newcap - 1 |-> IF j < v.cap THEN v.data[j] ELSE Zero], newcap, v.top)

(* Mutant of PutPtr: top follows the last position that was written. *)
PutPtrShrinks(v, pos, e) ==
  LET r == IF pos >= v.cap THEN Vector_Resize(v, pos + 1) ELSE v
  IN  Vector([r.data EXCEPT ![pos] = e], r.cap, pos + 1)

PutPtr(v, pos, e) ==
  LET r == IF pos >= v.cap THEN Vector_Resize(v, pos + 1) ELSE v
  IN  Vector([r.data EXCEPT ![pos] = e], r.cap, IF pos >= r.top THEN pos + 1 ELSE r.top)

PushPtr(v, e) ==
  LET r == IF v.top # v.cap THEN v
           ELSE Vector_Resize(v, IF v.cap = 0 THEN 1 ELSE v.cap * 2)
  IN  PutPtr(r, r.top, e)

(* What is copied to ptr, if anything *)
Vector_Get(v, pos) == IF pos < v.top THEN <<v.data[pos]>> ELSE <<>>

Vector_Pop(v) == [v EXCEPT !.top = IF @ > 0 THEN @ - 1 ELSE @]

------------------------------------------------------------------------------
(* heap.c, on data.  A hole moves from cell i to where t belongs.          *)

Parent(i) == (i - 1) \div 2

sift_up(data, len) ==
  LET t == data[len - 1]
      lift[i \in DOMAIN data] ==
        IF i > 0 /\ Less(data[Parent(i)], t)
        THEN [lift[Parent(i)] EXCEPT ![i] = data[Parent(i)]]
        ELSE [data EXCEPT ![i] = t]
  IN  IF len > 1 THEN lift[len - 1] ELSE data

(* Mutant of Child: the right child is compared although it is not there. *)
ChildBeyond(data, len, i) ==
  IF 2 * i + 2 \in DOMAIN data /\ Less(data[2 * i + 1], data[2 * i + 2]) THEN 2 * i + 2
  ELSE 2 * i + 1

(* The larger child, the left one when they are equal *)
Child(data, len, i) ==
  IF 2 * i + 2 < len /\ Less(data[2 * i + 1], data[2 * i + 2]) THEN 2 * i + 2
  ELSE 2 * i + 1

sift_down(data, len, start) ==
  LET t == data[start]
      sink[i \in DOMAIN data] ==
        LET c == Child(data, len, i)
        IN  IF 2 * i + 1 < len /\ ~Less(data[c], t)
            THEN [sink[c] EXCEPT ![i] = data[c]]
            ELSE [data EXCEPT ![i] = t]
  IN  sink[start]

Heapify(data, len) ==
  FoldLeft(LAMBDA d, start : sift_down(d, len, start), data,
           Reverse([j \in 1 .. len \div 2 |-> j - 1]))

Make_Heap(v) == IF v.top > 1 THEN [v EXCEPT !.data = Heapify(@, v.top)] ELSE v

Heap_Push(v) == [v EXCEPT !.data = sift_up(@, v.top)]

Swap(data, i, j) == [data EXCEPT ![i] = data[j], ![j] = data[i]]

(* The greatest element changes places with the last, which then sinks.    *)
Heap_Pop(v) ==
  LET n == v.top - 1
  IN  IF n > 0 THEN [v EXCEPT !.data = sift_down(Swap(@, 0, n), n, 0)] ELSE v
==============================================================================
