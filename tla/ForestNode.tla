------------------------------ MODULE ForestNode ------------------------------
(***************************************************************************)
(* The nodes of a decision tree, as the constructors of forest.c make them *)
(* from the arguments of ML.FOREST.ADD.                                    *)
(***************************************************************************)
EXTENDS Integers, Sequences, SequencesExt

(* A text, with the number that atof reads from it: 0 if it starts with    *)
(* none                                                                    *)
Text(text, number) == [text |-> text, number |-> number]

NoStats == <<>>

(* attr is the splitter's attribute, as FeatureVec_GetValue looks it up.   *)
Forest_NewNumericalNode(attr, sv) ==
  [kind |-> "numeric", attr |-> attr, vals |-> <<sv>>]

(* One category or several with colons between them: texts, of which the   *)
(* numbers are kept                                                        *)
Forest_NewCategoricalNode(attr, categories) ==
  [kind |-> "categoric", attr |-> attr,
   vals |-> [j \in DOMAIN categories |-> categories[j].number]]

(* stats[j] is stats[j - 1] of the code.  A leaf without STATS has one for *)
(* each class up to its own.                                               *)
Forest_NewLeaf(predVal, stats) ==
  [kind |-> "leaf", predVal |-> predVal,
   stats |-> IF stats = NoStats
             THEN [j \in 1 .. predVal + 1 |-> IF j = predVal + 1 THEN 1 ELSE 0]
             ELSE stats,
   statsTotal |-> IF stats = NoStats THEN 1 ELSE FoldLeft(+, 0, stats)]

(* What a leaf adds to the total of class c, in units of 1 / unit *)
Share(leaf, c, unit) ==
  IF c < Len(leaf.stats) THEN (unit * leaf.stats[c + 1]) \div leaf.statsTotal ELSE 0
==============================================================================
