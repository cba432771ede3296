------------------------------ MODULE ForestTree ------------------------------
(***************************************************************************)
(* The decision trees of forest.c.  A tree is the set of its nodes: a      *)
(* function from the path of a node, the letters after the ".", to what is *)
(* stored there.  A path outside the domain is a NULL pointer, the empty   *)
(* function a NULL root.  Attributes, numbers and votes are not kept; of a *)
(* splitter on categories, whether its only category is 0.                 *)
(***************************************************************************)
EXTENDS Naturals, Sequences, SequencesExt

Sides == {"l", "r"}
Paths == Seq(Sides)
Splitters == {"numeric", "categoric", "categoric 0"}
Kinds     == Splitters \cup {"leaf"}

Root == <<>>

NullTree == [p \in {} |-> "leaf"]

(* A node hangs from its parent. *)
IsTree(t) ==
  /\ DOMAIN t \subseteq Paths
  /\ \A p \in DOMAIN t : t[p] \in Kinds
  /\ \A p \in DOMAIN t : p # Root => Front(p) \in DOMAIN t

(* Mutant of CanAdd: no NULL on the way is noticed. *)
CanAddAnywhere(t, path) == TRUE

(* Forest_TreeAdd walks down the path, through leaves as well, and fails   *)
(* at the first NULL above its end.                                        *)
CanAdd(t, path) == \A k \in 0 .. Len(path) - 1 : SubSeq(path, 1, k) \in DOMAIN t

(* What stood at the end of the path is overwritten with all below it.     *)
TreeAdd(t, path, kind) ==
  [p \in {q \in DOMAIN t : ~IsPrefix(path, q)} \cup {path} |->
     IF p = path THEN kind ELSE t[p]]

(* The nodes that a walk from the root can meet: it stops at a leaf, even  *)
(* when TreeAdd has hung something below it.                               *)
Reached(t) ==
  {p \in DOMAIN t : \A k \in 0 .. Len(p) - 1 : t[SubSeq(p, 1, k)] # "leaf"}

(* Forest_TreeClassify ends in a leaf, or in the NULL it met first. *)
Ends(t) ==
  IF Root \notin DOMAIN t THEN {Root}
  ELSE {p \in Reached(t) : t[p] = "leaf"} \cup
       ({Append(p, s) : p \in {q \in Reached(t) : t[q] # "leaf"}, s \in Sides}
          \ DOMAIN t)

(* Mutant of CheckTree: only the root is looked at. *)
CheckRoot(t) == Root \in DOMAIN t

(* Forest_CheckTree *)
CheckTree(t) ==
  /\ Root \in DOMAIN t
  /\ \A p \in Reached(t), s \in Sides :
       t[p] # "leaf" => Append(p, s) \in DOMAIN t
==============================================================================
