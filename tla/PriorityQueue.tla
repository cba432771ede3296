---------------------------- MODULE PriorityQueue ----------------------------
(***************************************************************************)
(* A priority queue of rmutil, and the program that uses it: through       *)
(* Priority_Queue_Push and _Pop while the vector is a heap, and through    *)
(* the vector's own functions, after which it calls Make_Heap.             *)
(***************************************************************************)
EXTENDS Heap, FiniteSets

CONSTANTS
  Caps,        \* the capacities that the program asks for
  MaxTop       \* bound: elements

ASSUME QueueAssumption == Caps \subseteq Nat /\ MaxTop \in Nat

VARIABLES
  v,           \* pq->v
  isHeap,      \* whether the program has kept it a heap
  last         \* the kind of the last call

vars == <<v, isHeap, last>>

Init ==
  /\ v \in {NewVector(cap) : cap \in Caps}
  /\ isHeap = TRUE
  /\ last = "create"

Priority_Queue_Push(e) ==
  /\ isHeap /\ v.top < MaxTop
  /\ v' = Heap_Push(PushPtr(v, e))
  /\ last' = "push"
  /\ UNCHANGED isHeap

Priority_Queue_Top == Vector_Get(v, 0)

Priority_Queue_Pop ==
  /\ isHeap
  /\ v' = IF v.top = 0 THEN v ELSE Vector_Pop(Heap_Pop(v))
  /\ last' = "pop"
  /\ UNCHANGED isHeap

VectorPut(pos, e) ==
  /\ pos < MaxTop
  /\ v' = PutPtr(v, pos, e)
  /\ isHeap' = FALSE
  /\ last' = "put"

VectorPush(e) ==
  /\ v.top < MaxTop
  /\ v' = PushPtr(v, e)
  /\ isHeap' = FALSE
  /\ last' = "put"

VectorPop ==
  /\ v.top > 0
  /\ v' = Vector_Pop(v)
  /\ last' = "remove"
  /\ UNCHANGED isHeap

(* A capacity below top is left to the program to avoid. *)
VectorResize(newcap) ==
  /\ v.top <= newcap
  /\ v' = Vector_Resize(v, newcap)
  /\ last' = "resize"
  /\ UNCHANGED isHeap

MakeHeap ==
  /\ v' = Make_Heap(v)
  /\ isHeap' = TRUE
  /\ last' = "order"

Next ==
  \/ \E e \in Elems : Priority_Queue_Push(e) \/ VectorPush(e)
  \/ \E e \in Elems, pos \in 0 .. MaxTop - 1 : VectorPut(pos, e)
  \/ Priority_Queue_Pop \/ VectorPop
  \/ \E newcap \in Caps : VectorResize(newcap)
  \/ MakeHeap

Spec == Init /\ [][Next]_vars

------------------------------------------------------------------------------
(* Properties *)

(* No element of a heap is greater than its parent, whatever calls made    *)
(* it, and whatever is left in the cells behind the last element, so that  *)
(* Priority_Queue_Top gives a greatest one (heap.c:21-84,                  *)
(* priority_queue.c:15-31).                                                *)
HeapOrdered ==
  isHeap => /\ \A i \in 1 .. v.top - 1 : ~Less(v.data[Parent(i)], v.data[i])
            /\ \A i \in 0 .. v.top - 1 : ~Less(Priority_Queue_Top[1], v.data[i])

Elements ==
  LET cells == 0 .. v.top - 1
      used  == {v.data[j] : j \in cells}
      Count(e) == {j \in cells : v.data[j] = e}
  IN  [e \in used |-> Cardinality(Count(e))]

Promised == INSTANCE PriorityBag WITH bag <- Elements, ordered <- isHeap

(* Elements are neither lost nor made up, however cells are moved, swapped *)
(* and reallocated, and Priority_Queue_Pop takes a greatest one            *)
(* (priority_queue.h:6-10, heap.h:30-36).                                  *)
ImplementsBag == Promised!Spec
==============================================================================
