--------------------------- MODULE MCForestClassify ---------------------------
(* Forests for TLC: up to MaxTrees trees, each answering with one leaf.    *)
EXTENDS ForestClassify, ForestNode

CONSTANT MaxTrees

Answer(leaf) == [c \in Classes |-> Share(leaf, c, Unit)]

Plain == {Answer(Forest_NewLeaf(k, NoStats)) : k \in Classes}

(* STATS for all classes or for the first ones; the unit is half a vote    *)
WithStats == {Answer(Forest_NewLeaf(0, stats)) : stats \in {<<1, 1>>, <<0, 2, 2>>, <<1, 0, 1>>}}

PlainForests == UNION {[1 .. n -> Plain] : n \in 0 .. MaxTrees}
StatsForests == UNION {[1 .. n -> Plain \cup WithStats] : n \in 0 .. MaxTrees - 1}
AllForests == PlainForests \cup StatsForests
==============================================================================
