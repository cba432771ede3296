----------------------------- MODULE ForestCodec -----------------------------
(***************************************************************************)
(* Forest_TreeSerialize and Forest_TreeDeSerialize of forest.c.  A tree is *)
(* saved as one record per node, in preorder.  A record holds the length   *)
(* of the node's path and the path itself, one bit for each letter; but    *)
(* the path is built in one char, and only that char is written.           *)
(***************************************************************************)
EXTENDS ForestTree

CONSTANT PathBits  \* the bits of the char: 8

ASSUME CodecAssumption == PathBits \in Nat \ {0}

Records == [plen : Nat, bits : Paths, kind : Kinds]

(* Mutant of Char: one bit of the char is lost. *)
CharShort(p) == IF Len(p) < PathBits THEN p ELSE SubSeq(p, Len(p) - PathBits + 2, Len(p))

(* What path << 1 | side has left of the letters of p *)
Char(p) == IF Len(p) <= PathBits THEN p ELSE SubSeq(p, Len(p) - PathBits + 1, Len(p))

Record(p, kind) == [plen |-> Len(p), bits |-> Char(p), kind |-> kind]

(* Mutant of Serialize: the right child is written over the left one.      *)
SerializeOver(t) ==
  LET Write[p \in Paths, buf \in Seq(Records)] ==
        IF p \notin DOMAIN t THEN <<>>
        ELSE LET here == Append(buf, Record(p, t[p]))
             IN IF t[p] = "leaf" THEN here ELSE Write[Append(p, "r"), here]
  IN Write[Root, <<>>]

(* A node is written behind buf, and its children behind it.  For a NULL   *)
(* pointer the length returned is 0, which drops all that was written.     *)
(* What is below a leaf is not looked at.                                  *)
Serialize(t) ==
  LET Write[p \in Paths, buf \in Seq(Records)] ==
        IF p \notin DOMAIN t THEN <<>>
        ELSE LET here == Append(buf, Record(p, t[p]))
             IN IF t[p] = "leaf" THEN here
                ELSE Write[Append(p, "r"), Write[Append(p, "l"), here]]
  IN Write[Root, <<>>]

(* Letters that the char did not hold are read from bytes nobody wrote.    *)
DecodedPaths(rec) ==
  {unset \o rec.bits : unset \in [1 .. rec.plen - Len(rec.bits) -> Sides]}

(* The categories of a splitter are an array of doubles, saved as if they  *)
(* were a string: up to the first zero byte, which is the first byte of    *)
(* every number with few binary digits.  The empty string is category 0.   *)
Decoded(kind) == IF kind = "categoric" THEN "categoric 0" ELSE kind

(* The trees Forest_TreeDeSerialize may build from a NULL root; that       *)
(* Forest_TreeAdd fails is ignored.                                        *)
Deserialize(buf) ==
  FoldLeft(LAMBDA trees, rec :
             {IF CanAdd(t, p) THEN TreeAdd(t, p, Decoded(rec.kind)) ELSE t :
                t \in trees, p \in DecodedPaths(rec)},
           {NullTree}, buf)
------------------------------------------------------------------------------
(* What a walk from the root can tell of a tree *)
Visible(t) == [p \in Reached(t) |-> t[p]]

(* The tree can be saved: no path is longer than the char, no categories.  *)
Fits(t) == \A p \in Reached(t) : Len(p) <= PathBits /\ t[p] # "categoric"
==============================================================================
