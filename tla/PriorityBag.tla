----------------------------- MODULE PriorityBag -----------------------------
(***************************************************************************)
(* What vector.h, heap.h and priority_queue.h promise: a bag of elements   *)
(* that, while it is in heap order, gives back a greatest element first.   *)
(***************************************************************************)
EXTENDS Integers, BagsExt, Bags

CONSTANTS
  Elems,        \* the elements
  Key           \* what cmp compares of them: a function from Elems to Int

VARIABLES
  bag,          \* the elements
  ordered,      \* whether they are in heap order
  last          \* the kind of the last call

vars == <<bag, ordered, last>>

Greatest == {e \in BagToSet(bag) : \A f \in BagToSet(bag) : Key[f] <= Key[e]}

Init == bag = EmptyBag /\ ordered = TRUE /\ last = "create"

(* Priority_Queue_Push *)
Push ==
  /\ ordered
  /\ \E e \in Elems : bag' = BagAdd(bag, e)
  /\ last' = "push" /\ UNCHANGED ordered

(* Priority_Queue_Pop: a greatest element leaves, and no other. *)
Pop ==
  /\ ordered
  /\ IF bag = EmptyBag THEN UNCHANGED bag
     ELSE \E e \in Greatest : bag' = BagRemove(bag, e)
  /\ last' = "pop" /\ UNCHANGED ordered

(* The program changes the vector itself: it replaces an element, adds     *)
(* one, or adds one further out, with whatever is between.                 *)
Put ==
  /\ \/ \E e \in BagToSet(bag), f \in Elems : bag' = BagAdd(BagRemove(bag, e), f)
     \/ \E f \in Elems : BagAdd(bag, f) \sqsubseteq bag'
  /\ ordered' = FALSE
  /\ last' = "put"

(* Vector_Pop *)
RemoveAny ==
  /\ \E e \in BagToSet(bag) : bag' = BagRemove(bag, e)
  /\ last' = "remove" /\ UNCHANGED ordered

(* Make_Heap *)
Order ==
  /\ ordered' = TRUE
  /\ last' = "order" /\ UNCHANGED bag

(* Vector_Resize *)
Resize == last' = "resize" /\ UNCHANGED <<bag, ordered>>

Next == Push \/ Pop \/ Put \/ RemoveAny \/ Order \/ Resize

Spec == Init /\ [][Next]_vars
==============================================================================
