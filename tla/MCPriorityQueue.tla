--------------------------- MODULE MCPriorityQueue ---------------------------
(* Elements compare as numbers; a number may be there several times.       *)
EXTENDS PriorityQueue

Keys == [e \in 0 .. 2 |-> e]
==============================================================================
