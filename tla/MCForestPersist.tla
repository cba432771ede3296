--------------------------- MODULE MCForestPersist ---------------------------
(* Commands for TLC.  A session bounds what clients send: few commands on  *)
(* two trees, or trees of depth three where a path has room for two.       *)
EXTENDS ForestPersist

L  == <<"l">>
R  == <<"r">>
LL == <<"l", "l">>
LR == <<"l", "r">>

OneLeaf   == << <<Root, "leaf">> >>
Stump     == << <<Root, "numeric">>, <<L, "leaf">>, <<R, "stats">> >>
RootOnly  == << <<Root, "numeric">> >>
HalfGraft == << <<L, "numeric">>, <<L \o LL, "leaf">> >>
BadPath   == << <<Root, "numeric">>, <<L, "bad">> >>

Graft     == << <<L, "categoric">>, <<LL, "leaf">>, <<LR, "stats">> >>
Deep      == << <<LL, "numeric">>, <<Append(LL, "l"), "leaf">>, <<Append(LL, "r"), "stats">> >>

(* Below a leaf, and below that, with a change elsewhere *)
Hide      == << <<LL, "numeric">> >>
Seek      == << <<Append(LL, "l"), "leaf">>, <<R, "categoric 0">>,
                <<Append(R, "l"), "leaf">>, <<Append(R, "r"), "leaf">> >>

FewCommands  == {Stump, OneLeaf, RootOnly, HalfGraft, BadPath}
DeepCommands == {Stump, Graft, Deep, HalfGraft, Hide, Seek}
AllCommands  == FewCommands \cup DeepCommands

VARIABLE session

SessionCalls ==
  [few  |-> [key : Keys, tid : Tids, nodes : FewCommands],
   deep |-> [key : Keys \ OtherKeys, tid : {0}, nodes : DeepCommands]]

MCInit == Init /\ session \in DOMAIN SessionCalls

MCNext ==
  /\ PersistNext
  /\ call'["master"] \in SessionCalls[session] \cup {NoCall}
  /\ UNCHANGED session

MCSpec == MCInit /\ [][MCNext]_<<vars, session>>
==============================================================================
