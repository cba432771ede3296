------------------------------- MODULE Sample -------------------------------
(***************************************************************************)
(* The data item of ML.FOREST.RUN: what FeatureVec_Create makes of it and  *)
(* where it leads in the trees of a forest.                                *)
(***************************************************************************)
EXTENDS ForestNode

CONSTANTS
  MaxFields     \* MAX_NUM_FIELDS

ASSUME SampleAssumption == MaxFields \in Nat

(* An attribute whose text is a number in Fields has its place in an       *)
(* array, the others are kept in a list.                                   *)
Fields == 1 .. MaxFields - 1

Numeric(name) == name.number \in Fields

(* A data item is a sequence of <<name, value>>, texts both, not empty.    *)
(* If one of them does not parse the whole item is refused.                *)
Malformed == <<Text("", 0), Text("", 0)>>

EmptyVec == [numericFields |-> [n \in Fields |-> 0], features |-> <<>>]

(* Of a value only the number is kept, whatever the name. *)
AddFeature(fv, pair) ==
  IF Numeric(pair[1])
  THEN [fv EXCEPT !.numericFields[pair[1].number] = pair[2].number]
  ELSE [fv EXCEPT !.features = Append(@, <<pair[1].text, pair[2].number>>)]

FeatureVec_Create(data) == FoldLeft(AddFeature, EmptyVec, data)

FeatureVec_GetValue(fv, name) ==
  LET found == {j \in DOMAIN fv.features : fv.features[j][1] = name.text}
  IN  IF Numeric(name) THEN fv.numericFields[name.number]
      ELSE IF found = {} THEN 0
      ELSE fv.features[Min(found)][2]

------------------------------------------------------------------------------
(* A tree as in ForestTree, with the nodes of ForestNode                   *)

GoesLeft(node, fv) ==
  LET attrVal == FeatureVec_GetValue(fv, node.attr)
  IN  IF node.kind = "numeric" THEN attrVal <= node.vals[1]
      ELSE \E j \in DOMAIN node.vals : attrVal = node.vals[j]

(* Mutant of Turn: a category is compared as a number is. *)
TurnFirst(node, fv) ==
  IF FeatureVec_GetValue(fv, node.attr) <= node.vals[1] THEN "l" ELSE "r"

Turn(node, fv) == IF GoesLeft(node, fv) THEN "l" ELSE "r"

(* Forest_TreeClassify: where the walk of fv down the tree stops, which is *)
(* a leaf or the first NULL.                                               *)
Forest_TreeClassify(fv, tree) ==
  LET walk[p \in DOMAIN tree] ==
        LET child == Append(p, Turn(tree[p], fv))
        IN  IF tree[p].kind = "leaf" THEN p
            ELSE IF child \in DOMAIN tree THEN walk[child]
            ELSE child
  IN  IF <<>> \in DOMAIN tree THEN walk[<<>>] ELSE <<>>

(* A walk does not come below a leaf, where ADD may have put something.    *)
Reached(tree, p) == \A n \in 0 .. Len(p) - 1 : tree[SubSeq(p, 1, n)].kind # "leaf"

(* A tree that Forest_CheckTree accepts, as ForestStore shows of all trees *)
(* built by ADD: no walk ends at a NULL.                                   *)
CompleteTree(tree) ==
  /\ IsFiniteSet(DOMAIN tree) /\ DOMAIN tree \subseteq Seq({"l", "r"})
  /\ <<>> \in DOMAIN tree
  /\ \A p \in DOMAIN tree :
       IF tree[p].kind = "leaf" THEN tree[p].predVal \in Int
       ELSE Reached(tree, p) => Append(p, "l") \in DOMAIN tree /\ Append(p, "r") \in DOMAIN tree

(* Forest_Classify in regression mode: the mean of the predVals, kept as   *)
(* <<sum, len>>; len = 0 is 0.0 / 0, not a number.                         *)
Regression(fv, trees) ==
  <<FoldLeft(+, 0, [j \in DOMAIN trees |-> trees[j][Forest_TreeClassify(fv, trees[j])].predVal]),
    Len(trees)>>
==============================================================================
