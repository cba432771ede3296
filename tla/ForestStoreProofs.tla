-------------------------- MODULE ForestStoreProofs --------------------------
(***************************************************************************)
(* For every set of keys, tree ids and commands: the forests a server      *)
(* serves have no null nodes, and ML.FOREST.RUN follows no null pointer,   *)
(* unless a command has been abandoned half way; every tree is a tree; and *)
(* a replica that has caught up holds what the master holds.               *)
(***************************************************************************)
EXTENDS ForestStore, FoldTheorems, TLAPS

(* Every tree there can be *)
TreeSet == UNION {[D -> Kinds] : D \in SUBSET Paths}

(* A tree that passes Forest_CheckTree has a leaf at the end of each walk. *)
LEMMA CheckedTreesEndInLeaves ==
  ASSUME NEW t, CheckTree(t)
  PROVE  Ends(t) \subseteq DOMAIN t
<1>1. SUFFICES ASSUME NEW p \in Ends(t) PROVE p \in DOMAIN t
  OBVIOUS
<1>2. CASE p \in {q \in Reached(t) : t[q] = "leaf"}
  BY <1>2 DEF Reached
<1>3. ASSUME NEW q \in Reached(t), t[q] # "leaf", NEW d \in Sides, p = Append(q, d)
      PROVE  p \in DOMAIN t
  BY <1>3 DEF CheckTree
<1>4. Root \in DOMAIN t
  BY DEF CheckTree
<1>5. ASSUME p \in {Append(q, d) : q \in {r \in Reached(t) : t[r] # "leaf"}, d \in Sides}
      PROVE  p \in DOMAIN t
  BY <1>3, <1>5
<1>6. QED
  BY <1>1, <1>2, <1>4, <1>5 DEF Ends

(* Forest_TreeAdd turns a tree into a tree. *)
LEMMA TreeAddType ==
  ASSUME NEW t \in TreeSet, NEW p \in Paths, NEW k \in Kinds
  PROVE  TreeAdd(t, p, k) \in TreeSet
<1>1. PICK D \in SUBSET Paths : t \in [D -> Kinds]
  BY DEF TreeSet
<1> DEFINE E == {q \in DOMAIN t : ~IsPrefix(p, q)} \cup {p}
<1>2. E \in SUBSET Paths
  BY <1>1
<1>3. TreeAdd(t, p, k) \in [E -> Kinds]
  BY <1>1 DEF TreeAdd
<1>4. QED
  BY <1>2, <1>3 DEF TreeSet

(* A new tree is one, although its root is not set.                        *)
LEMMA NullTreeType == NullTree \in TreeSet
<1>1. NullTree \in [{} -> Kinds]
  BY DEF NullTree
<1>2. QED
  BY <1>1 DEF TreeSet
------------------------------------------------------------------------------
(* The types that the argument below needs *)
StoreType ==
  /\ type \in [Servers -> [Keys -> {"empty", "forest", "other"}]]
  /\ forest \in [Servers -> [Keys -> Seq(TreeSet)]]
  /\ at \in [Servers -> {"idle", "args", "tree", "add"}]
  /\ call \in [Servers -> Calls]
  /\ i \in [Servers -> Nat \ {0}]
  /\ stream \in Seq(Calls)
  /\ torn \in [Servers -> SUBSET Keys]
  /\ was \in [Servers -> {"empty", "forest", "other"} \X Seq(TreeSet)]
  /\ \A s \in Servers : at[s] = "add" => call[s].tid + 1 \in 1 .. Len(Trees(s))

(* There is a command that an idle handler may be said to hold.            *)
LEMMA NoCallType == NoCall \in Calls
<1>1. PICK k \in Keys, d \in Tids, n \in Commands : TRUE
  BY StoreAssumption
<1>2. [key |-> k, tid |-> d, nodes |-> n] \in Calls
  BY DEF Calls
<1>3. QED
  BY <1>2 DEF NoCall

(* A new forest has no trees.                                              *)
LEMMA EmptySeqType == <<>> \in Seq(TreeSet)
OBVIOUS

(* The value that an idle handler remembers is one.                        *)
LEMMA NoValueType == NoValue \in {"empty", "forest", "other"} \X Seq(TreeSet)
BY EmptySeqType DEF NoValue

(* The servers start with empty keys. *)
LEMMA TypeInit == Init => StoreType
BY NoCallType, NoValueType DEF Init, StoreType

(* A node argument is a path and a kind. *)
LEMMA NodeArgType ==
  ASSUME StoreType, NEW s \in Servers, i[s] <= Len(Nodes(s))
  PROVE  Path(s) \in Paths /\ Kind(s) \in Kinds
<1>1. Nodes(s) \in Seq(Paths \X NodeArgs) /\ i[s] \in 1 .. Len(Nodes(s))
  BY StoreAssumption DEF StoreType, Calls, Nodes
<1>2. Nodes(s)[i[s]] \in Paths \X NodeArgs
  BY <1>1
<1>3. QED
  BY <1>2 DEF Path, Kind, Kinds

(* What the handler reads of its command *)
LEMMA CallType ==
  ASSUME StoreType, NEW s \in Servers
  PROVE  Key(s) \in Keys /\ Trees(s) \in Seq(TreeSet) /\ call[s].tid \in Nat
<1>1. call[s] \in Calls /\ forest[s] \in [Keys -> Seq(TreeSet)]
  BY DEF StoreType
<1>2. call[s].key \in Keys /\ call[s].tid \in Tids
  BY <1>1 DEF Calls
<1>3. QED
  BY <1>1, <1>2, StoreAssumption DEF Key, Trees

(* Each step keeps the types.                                              *)
LEMMA TypeStep == StoreType /\ [Next]_vars => StoreType'
<1> SUFFICES ASSUME StoreType, [Next]_vars
             PROVE  StoreType'
  OBVIOUS
<1> USE DEF keys, command, history
<1>r. ASSUME NEW s \in Servers, Return(s),
             forest' \in [Servers -> [Keys -> Seq(TreeSet)]],
             \A u \in Servers \ {s} : forest'[u] = forest[u]
      PROVE  /\ at' \in [Servers -> {"idle", "args", "tree", "add"}]
             /\ call' \in [Servers -> Calls]
             /\ i' \in [Servers -> Nat \ {0}]
             /\ was' \in [Servers -> {"empty", "forest", "other"} \X Seq(TreeSet)]
             /\ \A u \in Servers : at'[u] = "add" =>
                  call'[u].tid + 1 \in 1 .. Len(forest'[u][call'[u].key])
  <2>1. /\ at' = [at EXCEPT ![s] = "idle"]
        /\ call' = [call EXCEPT ![s] = NoCall]
        /\ i' = [i EXCEPT ![s] = 1]
        /\ was' = [was EXCEPT ![s] = NoValue]
    BY <1>r DEF Return, Goto
  <2>2. \A u \in Servers : at'[u] = "add" =>
          u # s /\ at[u] = "add" /\ call'[u] = call[u] /\ forest'[u] = forest[u]
    BY <1>r, <2>1 DEF StoreType
  <2>3. QED
    BY <2>1, <2>2, NoCallType, NoValueType DEF StoreType, Trees, Key
<1>1. ASSUME NEW s \in Servers, NEW c \in Calls, Start(s, c), stream' \in Seq(Calls)
      PROVE  StoreType'
  <2>1. <<type[s][c.key], forest[s][c.key]>> \in {"empty", "forest", "other"} \X Seq(TreeSet)
    BY DEF StoreType, Calls
  <2>2. QED
    BY <1>1, <2>1 DEF Start, StoreType, Trees, Key
<1>2. CASE AddCommand
  BY <1>1, <1>2 DEF AddCommand, Servers, StoreType
<1>3. CASE Replicate
  <2>1. Head(stream) \in Calls /\ Tail(stream) \in Seq(Calls)
    BY <1>3 DEF Replicate, StoreType
  <2>2. QED
    BY <1>1, <1>3, <2>1 DEF Replicate, Servers
<1>4. ASSUME NEW s \in Servers, ForestAdd(s)
      PROVE  StoreType'
  <2>1. CASE Refuse(s)
    <3>1. Return(s) /\ UNCHANGED <<type, forest, torn, stream>>
      BY <2>1 DEF Refuse, Fail
    <3>2. QED
      BY <3>1, <1>r DEF StoreType, Trees, Key
  <2>2. CASE ReadUnsetStats(s)
    BY <2>2 DEF ReadUnsetStats, Crash, StoreType, Trees, Key
  <2>3. CASE OpenKey(s)
    BY <2>3 DEF OpenKey, Goto, StoreType, Trees, Key
  <2>4. CASE TidTooLarge(s)
    <3>1. Return(s) /\ UNCHANGED <<type, forest, torn, stream>>
      BY <2>4 DEF TidTooLarge, Fail
    <3>2. QED
      BY <3>1, <1>r DEF StoreType, Trees, Key
  <2>5. CASE NewTree(s)
    <3>1. Key(s) \in Keys /\ Trees(s) \in Seq(TreeSet) /\ call[s].tid \in Nat
      BY CallType
    <3>2. /\ Append(Trees(s), NullTree) \in Seq(TreeSet)
          /\ Len(Append(Trees(s), NullTree)) = Len(Trees(s)) + 1
      BY <3>1, NullTreeType
    <3>3. forest' = [forest EXCEPT ![s] = [@ EXCEPT ![Key(s)] = Append(Trees(s), NullTree)]]
      BY <2>5 DEF NewTree, Trees
    <3>4. forest' \in [Servers -> [Keys -> Seq(TreeSet)]]
      BY <3>1, <3>2, <3>3 DEF StoreType
    <3>5. ASSUME NEW u \in Servers, at'[u] = "add"
          PROVE  call'[u].tid + 1 \in 1 .. Len(Trees(u)')
      <4>1. CASE u = s
        <5>1. Trees(s)' = Append(Trees(s), NullTree)
          BY <2>5, <3>1, <3>3 DEF NewTree, Trees, Key, StoreType
        <5>2. QED
          BY <2>5, <3>1, <3>2, <4>1, <5>1 DEF NewTree
      <4>2. CASE u # s
        BY <2>5, <3>3, <3>5, <4>2 DEF NewTree, Goto, Trees, Key, StoreType
      <4>3. QED
        BY <4>1, <4>2
    <3>6. QED
      BY <2>5, <3>4, <3>5 DEF NewTree, Goto, StoreType
  <2>6. CASE OldTree(s)
    <3>1. call[s].tid \in Nat /\ Trees(s) \in Seq(TreeSet)
      BY CallType
    <3>2. call[s].tid + 1 \in 1 .. Len(Trees(s))
      BY <2>6, <3>1 DEF OldTree
    <3>3. QED
      BY <2>6, <3>2 DEF OldTree, Goto, StoreType, Trees, Key
  <2>7. CASE AddNode(s)
    <3> DEFINE n == call[s].tid + 1
               new == TreeAdd(Tree(s), Path(s), Kind(s))
    <3>1. Key(s) \in Keys /\ Trees(s) \in Seq(TreeSet) /\ n \in 1 .. Len(Trees(s))
      BY <2>7 DEF StoreType, Calls, Key, Trees, AddNode, At
    <3>2. new \in TreeSet
      BY <2>7, <3>1, NodeArgType, TreeAddType DEF AddNode, Tree
    <3>3. /\ [Trees(s) EXCEPT ![n] = new] \in Seq(TreeSet)
          /\ Len([Trees(s) EXCEPT ![n] = new]) = Len(Trees(s))
      BY <3>1, <3>2
    <3>4. forest' = [forest EXCEPT ![s] =
                       [@ EXCEPT ![Key(s)] = [Trees(s) EXCEPT ![n] = new]]]
      BY <2>7 DEF AddNode, Trees, Tree
    <3>5. forest' \in [Servers -> [Keys -> Seq(TreeSet)]]
      BY <3>1, <3>3, <3>4 DEF StoreType
    <3>6. \A u \in Servers : Len(Trees(u)') = Len(Trees(u))
      BY <2>7, <3>1, <3>3, <3>4 DEF AddNode, Trees, Key, StoreType
    <3>7. QED
      BY <2>7, <3>5, <3>6 DEF AddNode, StoreType
  <2>8. CASE FollowWildRoot(s)
    BY <2>8 DEF FollowWildRoot, Crash, StoreType, Trees, Key
  <2>9. CASE AddFails(s)
    <3>1. torn' \in [Servers -> SUBSET Keys]
      BY <2>9 DEF AddFails, StoreType, Calls, Key
    <3>2. Return(s) /\ UNCHANGED <<type, forest, stream>>
      BY <2>9 DEF AddFails, Fail
    <3>3. QED
      BY <3>1, <3>2, <1>r DEF StoreType, Trees, Key
  <2>10. CASE DeleteForest(s)
    <3>1. Key(s) \in Keys /\ <<>> \in Seq(TreeSet)
      BY DEF StoreType, Calls, Key
    <3>2. /\ forest' \in [Servers -> [Keys -> Seq(TreeSet)]]
          /\ type' \in [Servers -> [Keys -> {"empty", "forest", "other"}]]
          /\ torn' \in [Servers -> SUBSET Keys]
          /\ \A u \in Servers \ {s} : forest'[u] = forest[u]
      BY <2>10, <3>1 DEF DeleteForest, StoreType
    <3>3. Return(s) /\ stream' = stream
      BY <2>10 DEF DeleteForest, Fail
    <3>4. QED
      BY <3>2, <3>3, <1>r DEF StoreType, Trees, Key
  <2>11. CASE ReplyOK(s)
    <3>1. stream' \in Seq(Calls)
      BY <2>11 DEF ReplyOK, StoreType
    <3>2. QED
      BY <2>11, <3>1, <1>r DEF ReplyOK, StoreType, Trees, Key
  <2>12. QED
    BY <1>4, <2>1, <2>2, <2>3, <2>4, <2>5, <2>6, <2>7, <2>8, <2>9, <2>10, <2>11
       DEF ForestAdd
<1>5. ASSUME NEW s \in Servers, RunMeetsNull(s)
      PROVE  StoreType'
  BY <1>5 DEF RunMeetsNull, Crash, StoreType, Trees, Key
<1>6. CASE UNCHANGED vars
  BY <1>6 DEF vars, StoreType, Trees, Key
<1>7. QED
  BY <1>2, <1>3, <1>4, <1>5, <1>6 DEF Next

------------------------------------------------------------------------------
(* All trees of a forest are complete, or all but tree m *)
Whole(f) == \A n \in 1 .. Len(f) : CheckTree(f[n])
WholeBut(f, m) == \A n \in 1 .. Len(f) : n # m => CheckTree(f[n])

(* The inductive invariant, for one server.  While a command runs, its key *)
(* is as it was when the command began, or all its trees but the one that  *)
(* is being added to are complete.                                         *)
ServerInv(s) ==
  /\ \A k \in Keys \ torn[s] :
       at[s] # "add" \/ k # Key(s) => Whole(forest[s][k])
  /\ at[s] # "idle" /\ Key(s) \notin torn[s] => Whole(was[s][2])
  /\ at[s] = "add" /\ Key(s) \notin torn[s] =>
       WholeBut(Trees(s), call[s].tid + 1)

StoreInv == StoreType /\ \A s \in Servers : ServerInv(s)

(* Empty keys have no incomplete trees. *)
LEMMA StoreInit == Init => StoreInv
<1> SUFFICES ASSUME Init PROVE \A s \in Servers : ServerInv(s)
  BY TypeInit DEF StoreInv
<1>1. \A s \in Servers : at[s] = "idle" /\ \A k \in Keys : forest[s][k] = <<>>
  BY DEF Init
<1>2. Whole(<<>>)
  BY DEF Whole
<1>3. QED
  BY <1>1, <1>2 DEF ServerInv

(* A server is not affected by a step of the other one. *)
LEMMA OtherServer ==
  ASSUME NEW s \in Servers, ServerInv(s),
         UNCHANGED <<forest[s], at[s], call[s], was[s], torn[s]>>
  PROVE  ServerInv(s)'
BY DEF ServerInv, Trees, Key

(* A step of one server touches the variables of that server only. *)
LEMMA OneServerMoves ==
  ASSUME StoreType, NEW s \in Servers, ForestAdd(s), NEW u \in Servers, u # s
  PROVE  UNCHANGED <<forest[u], at[u], call[u], was[u], torn[u]>>
<1> USE DEF StoreType, keys, command, history, Goto, Return, Fail
<1>1. UNCHANGED at[u]
  BY DEF ForestAdd, Refuse, ReadUnsetStats, OpenKey, TidTooLarge, NewTree, OldTree,
         AddNode, FollowWildRoot, AddFails, DeleteForest, ReplyOK, Crash
<1>2. UNCHANGED call[u]
  BY DEF ForestAdd, Refuse, ReadUnsetStats, OpenKey, TidTooLarge, NewTree, OldTree,
         AddNode, FollowWildRoot, AddFails, DeleteForest, ReplyOK, Crash
<1>3. UNCHANGED was[u]
  BY DEF ForestAdd, Refuse, ReadUnsetStats, OpenKey, TidTooLarge, NewTree, OldTree,
         AddNode, FollowWildRoot, AddFails, DeleteForest, ReplyOK, Crash
<1>4. UNCHANGED torn[u]
  BY DEF ForestAdd, Refuse, ReadUnsetStats, OpenKey, TidTooLarge, NewTree, OldTree,
         AddNode, FollowWildRoot, AddFails, DeleteForest, ReplyOK, Crash
<1>5. UNCHANGED forest[u]
  BY DEF ForestAdd, Refuse, ReadUnsetStats, OpenKey, TidTooLarge, NewTree, OldTree,
         AddNode, FollowWildRoot, AddFails, DeleteForest, ReplyOK, Crash
<1>6. QED
  BY <1>1, <1>2, <1>3, <1>4, <1>5

(* A command that returns leaves whole what it found whole, or complete    *)
(* trees only, or a torn key.                                              *)
LEMMA Returned ==
  ASSUME StoreType, NEW s \in Servers, ServerInv(s), Return(s),
         \A k \in Keys : k # Key(s) => forest'[s][k] = forest[s][k],
         \A k \in Keys : k # Key(s) => (k \in torn[s] <=> k \in torn'[s]),
         Key(s) \in torn'[s] \/ Whole(forest'[s][Key(s)])
  PROVE  ServerInv(s)'
<1>1. at'[s] = "idle"
  BY DEF Return, Goto, StoreType
<1>2. ASSUME NEW k \in Keys, k \notin torn'[s]
      PROVE  Whole(forest'[s][k])
  <2>1. CASE k = Key(s)
    BY <1>2, <2>1
  <2>2. CASE k # Key(s)
    BY <1>2, <2>2 DEF ServerInv
  <2>3. QED
    BY <2>1, <2>2
<1>3. QED
  BY <1>1, <1>2 DEF ServerInv

(* Each step leaves complete trees, or a command that is at work on one,   *)
(* or a torn key.                                                          *)
LEMMA StoreStep == StoreInv /\ [Next]_vars => StoreInv'
<1> SUFFICES ASSUME StoreInv, [Next]_vars, NEW u \in Servers
             PROVE  ServerInv(u)'
  BY TypeStep DEF StoreInv
<1>0. StoreType /\ \A s \in Servers : ServerInv(s)
  BY DEF StoreInv
<1> USE DEF keys, command, history
<1>1. ASSUME NEW s \in Servers, NEW c \in Calls, Start(s, c)
      PROVE  ServerInv(u)'
  <2>1. CASE u # s
    <3>1. UNCHANGED <<forest[u], at[u], call[u], was[u], torn[u]>>
      BY <1>0, <1>1, <2>1 DEF Start, StoreType
    <3>2. QED
      BY <1>0, <3>1, OtherServer
  <2>2. CASE u = s
    <3>1. /\ at[s] = "idle" /\ at'[s] = "args" /\ call'[s] = c
          /\ forest' = forest /\ torn' = torn
          /\ was'[s] = <<type[s][c.key], forest[s][c.key]>>
      BY <1>0, <1>1 DEF Start, StoreType
    <3>2. c.key \in Keys
      BY DEF Calls
    <3>3. \A k \in Keys \ torn[s] : Whole(forest[s][k])
      BY <1>0, <3>1 DEF ServerInv
    <3>4. QED
      BY <2>2, <3>1, <3>2, <3>3 DEF ServerInv, Key
  <2>3. QED
    BY <2>1, <2>2
<1>2. CASE AddCommand
  BY <1>1, <1>2 DEF AddCommand, Servers
<1>3. CASE Replicate
  <2>1. Head(stream) \in Calls
    BY <1>0, <1>3 DEF Replicate, StoreType
  <2>2. QED
    BY <1>1, <1>3, <2>1 DEF Replicate, Servers
<1>4. ASSUME NEW s \in Servers, ForestAdd(s)
      PROVE  ServerInv(u)'
  <2>u. CASE u # s
    BY <1>0, <1>4, <2>u, OneServerMoves, OtherServer
  <2> SUFFICES ASSUME u = s PROVE ServerInv(s)'
    BY <2>u
  <2>k. Key(s) \in Keys /\ Trees(s) \in Seq(TreeSet) /\ call[s].tid \in Nat
    BY <1>0, CallType
  <2>i. ServerInv(s)
    BY <1>0
  <2>1. CASE Refuse(s)
    <3>1. Return(s) /\ forest' = forest /\ torn' = torn /\ at[s] = "args"
      BY <2>1 DEF Refuse, Fail, At
    <3>2. Key(s) \in torn'[s] \/ Whole(forest'[s][Key(s)])
      BY <2>k, <2>i, <3>1 DEF ServerInv
    <3>3. QED
      BY <1>0, <2>i, <3>1, <3>2, Returned
  <2>2. CASE ReadUnsetStats(s)
    BY <2>2, <2>i, OtherServer DEF ReadUnsetStats, Crash
  <2>3. CASE OpenKey(s)
    <3>1. /\ forest' = forest /\ torn' = torn /\ call' = call /\ was' = was
          /\ at[s] = "args" /\ at'[s] = "tree"
      BY <1>0, <2>3 DEF OpenKey, At, Goto, StoreType
    <3>2. QED
      BY <2>i, <3>1 DEF ServerInv, Key
  <2>4. CASE TidTooLarge(s)
    <3>1. Return(s) /\ forest' = forest /\ torn' = torn /\ at[s] = "tree"
      BY <2>4 DEF TidTooLarge, Fail, At
    <3>2. Key(s) \in torn'[s] \/ Whole(forest'[s][Key(s)])
      BY <2>k, <2>i, <3>1 DEF ServerInv
    <3>3. QED
      BY <1>0, <2>i, <3>1, <3>2, Returned
  <2>5. CASE NewTree(s)
    <3>1. /\ torn' = torn /\ call' = call /\ was' = was
          /\ at[s] = "tree" /\ at'[s] = "add"
          /\ call[s].tid = Len(Trees(s))
          /\ forest' = [forest EXCEPT ![s] =
                          [@ EXCEPT ![Key(s)] = Append(Trees(s), NullTree)]]
      BY <1>0, <2>5 DEF NewTree, At, Goto, StoreType, Trees
    <3>2. /\ forest'[s][Key(s)] = Append(Trees(s), NullTree)
          /\ \A k \in Keys : k # Key(s) => forest'[s][k] = forest[s][k]
      BY <1>0, <2>k, <3>1 DEF StoreType
    <3>3. Key(s) \notin torn[s] =>
            WholeBut(Append(Trees(s), NullTree), Len(Trees(s)) + 1)
      <4>1. Key(s) \notin torn[s] => Whole(Trees(s))
        BY <2>k, <2>i, <3>1 DEF ServerInv, Trees
      <4>2. \A n \in 1 .. Len(Append(Trees(s), NullTree)) :
              n # Len(Trees(s)) + 1 => /\ n \in 1 .. Len(Trees(s))
                                       /\ Append(Trees(s), NullTree)[n] = Trees(s)[n]
        BY <2>k, NullTreeType
      <4>3. QED
        BY <4>1, <4>2 DEF Whole, WholeBut
    <3>4. QED
      BY <2>i, <3>1, <3>2, <3>3 DEF ServerInv, Key, Trees
  <2>6. CASE OldTree(s)
    <3>1. /\ forest' = forest /\ torn' = torn /\ call' = call /\ was' = was
          /\ at[s] = "tree" /\ at'[s] = "add"
      BY <1>0, <2>6 DEF OldTree, At, Goto, StoreType
    <3>2. Key(s) \notin torn[s] => WholeBut(Trees(s), call[s].tid + 1)
      BY <2>k, <2>i, <3>1 DEF ServerInv, Trees, Whole, WholeBut
    <3>3. QED
      BY <2>i, <3>1, <3>2 DEF ServerInv, Key, Trees
  <2>7. CASE AddNode(s)
    <3> DEFINE m == call[s].tid + 1
               new == TreeAdd(Tree(s), Path(s), Kind(s))
    <3>1. /\ torn' = torn /\ call' = call /\ was' = was /\ at' = at
          /\ at[s] = "add"
          /\ forest' = [forest EXCEPT ![s] =
                          [@ EXCEPT ![Key(s)] = [Trees(s) EXCEPT ![m] = new]]]
      BY <2>7 DEF AddNode, At, Trees, Tree
    <3>2. /\ forest'[s][Key(s)] = [Trees(s) EXCEPT ![m] = new]
          /\ \A k \in Keys : k # Key(s) => forest'[s][k] = forest[s][k]
      BY <1>0, <2>k, <3>1 DEF StoreType
    <3>3. WholeBut(Trees(s), m) => WholeBut([Trees(s) EXCEPT ![m] = new], m)
      BY <2>k DEF WholeBut
    <3>4. QED
      BY <2>i, <3>1, <3>2, <3>3 DEF ServerInv, Key, Trees
  <2>8. CASE FollowWildRoot(s)
    BY <2>8, <2>i, OtherServer DEF FollowWildRoot, Crash
  <2>9. CASE AddFails(s)
    <3>1. /\ Return(s) /\ forest' = forest /\ at[s] = "add"
          /\ torn' = IF <<type[s][Key(s)], Trees(s)>> # was[s]
                     THEN [torn EXCEPT ![s] = @ \cup {Key(s)}] ELSE torn
      BY <2>9 DEF AddFails, Fail, At
    <3>2. /\ torn[s] \subseteq torn'[s]
          /\ \A k \in Keys : k # Key(s) => (k \in torn[s] <=> k \in torn'[s])
      BY <1>0, <3>1 DEF StoreType
    <3>3. Key(s) \in torn'[s] \/ Whole(forest'[s][Key(s)])
      <4>1. CASE <<type[s][Key(s)], Trees(s)>> # was[s]
        BY <1>0, <3>1, <4>1 DEF StoreType
      <4>2. CASE <<type[s][Key(s)], Trees(s)>> = was[s]
        <5>1. Trees(s) = was[s][2]
          BY <4>2
        <5>2. QED
          BY <2>i, <3>1, <3>2, <5>1 DEF ServerInv, Trees
      <4>3. QED
        BY <4>1, <4>2
    <3>4. QED
      BY <1>0, <2>i, <3>1, <3>2, <3>3, Returned
  <2>10. CASE DeleteForest(s)
    <3>1. /\ Return(s)
          /\ forest'[s][Key(s)] = <<>>
          /\ \A k \in Keys : k # Key(s) => forest'[s][k] = forest[s][k]
          /\ \A k \in Keys : k # Key(s) => (k \in torn[s] <=> k \in torn'[s])
      BY <1>0, <2>k, <2>10 DEF DeleteForest, Fail, StoreType
    <3>2. Whole(forest'[s][Key(s)])
      BY <3>1 DEF Whole
    <3>3. QED
      BY <1>0, <2>i, <3>1, <3>2, Returned
  <2>11. CASE ReplyOK(s)
    <3>1. /\ Return(s) /\ forest' = forest /\ torn' = torn /\ at[s] = "add"
          /\ CheckTree(Trees(s)[call[s].tid + 1])
      BY <2>11 DEF ReplyOK, Added, At, Tree
    <3>2. Key(s) \in torn[s] \/ Whole(Trees(s))
      BY <2>i, <3>1 DEF ServerInv, Whole, WholeBut
    <3>3. QED
      BY <1>0, <2>i, <3>1, <3>2, Returned DEF Trees
  <2>12. QED
    BY <1>4, <2>1, <2>2, <2>3, <2>4, <2>5, <2>6, <2>7, <2>8, <2>9, <2>10, <2>11
       DEF ForestAdd
<1>5. ASSUME NEW s \in Servers, RunMeetsNull(s)
      PROVE  ServerInv(u)'
  BY <1>0, <1>5, OtherServer DEF RunMeetsNull, Crash
<1>6. CASE UNCHANGED vars
  BY <1>0, <1>6, OtherServer DEF vars
<1>7. QED
  BY <1>2, <1>3, <1>4, <1>5, <1>6 DEF Next

(* The invariant holds in every state.                                     *)
LEMMA StoreAlways == Spec => []StoreInv
BY StoreInit, StoreStep, PTL DEF Spec

(* For all keys, tree ids and commands, and in every interleaving of the   *)
(* master with its replica: between commands, the trees of every key that  *)
(* no command has left half changed are complete.                          *)
THEOREM CompleteTrees == Spec => []CompleteUnlessTorn
<1>1. StoreInv => CompleteUnlessTorn
  BY DEF StoreInv, ServerInv, CompleteUnlessTorn, Usable, Whole
<1>2. QED
  BY <1>1, StoreAlways, PTL

(* ML.FOREST.RUN follows a NULL pointer only on a server where a command   *)
(* has been abandoned half way.                                            *)
THEOREM RunsSafely == Spec => RunIsSafe
<1>1. StoreInv /\ [Next]_vars => [\A s \in Servers : RunMeetsNull(s) => torn[s] # {}]_vars
  <2> SUFFICES ASSUME StoreInv, NEW s \in Servers, RunMeetsNull(s), torn[s] = {}
               PROVE  FALSE
    OBVIOUS
  <2>1. PICK k \in Keys : \E n \in 1 .. Len(forest[s][k]) :
          ~(Ends(forest[s][k][n]) \subseteq DOMAIN forest[s][k][n])
    BY DEF RunMeetsNull
  <2>2. Whole(forest[s][k])
    BY DEF StoreInv, ServerInv, RunMeetsNull
  <2>3. QED
    BY <2>1, <2>2, CheckedTreesEndInLeaves DEF Whole
<1>2. QED
  BY <1>1, StoreAlways, PTL DEF Spec, RunIsSafe
------------------------------------------------------------------------------
(* Sequences with the same elements are the same. *)
LEMMA SameSequence ==
  ASSUME NEW S, NEW x \in Seq(S), NEW y \in Seq(S), Len(x) = Len(y),
         \A j \in 1 .. Len(x) : x[j] = y[j]
  PROVE  x = y
OBVIOUS

(* Forest_TreeAdd hangs the new node from a node that is there, and what   *)
(* it keeps keeps its parent.                                              *)
LEMMA TreeAddIsTree ==
  ASSUME NEW t, IsTree(t), NEW p \in Paths, NEW k \in Kinds, CanAdd(t, p)
  PROVE  IsTree(TreeAdd(t, p, k))
<1> DEFINE E == {q \in DOMAIN t : ~IsPrefix(p, q)} \cup {p}
           new == TreeAdd(t, p, k)
<1>1. DOMAIN t \subseteq Paths /\ \A q \in DOMAIN t : t[q] \in Kinds
  BY DEF IsTree
<1>2. DOMAIN new = E /\ \A q \in E : new[q] = IF q = p THEN k ELSE t[q]
  BY DEF TreeAdd
<1>3. E \subseteq Paths /\ \A q \in E : new[q] \in Kinds
  BY <1>1, <1>2
<1>4. \A q \in Paths : q # Root =>
        /\ Len(q) \in Nat \ {0} /\ Front(q) \in Paths /\ Len(Front(q)) = Len(q) - 1
        /\ \A n \in 0 .. Len(q) - 1 : SubSeq(Front(q), 1, n) = SubSeq(q, 1, n)
  <2>1. SUFFICES ASSUME NEW q \in Seq(Sides), q # <<>>
                 PROVE  /\ Len(q) \in Nat \ {0} /\ Front(q) \in Seq(Sides)
                        /\ Len(Front(q)) = Len(q) - 1
                        /\ \A n \in 0 .. Len(q) - 1 :
                             SubSeq(Front(q), 1, n) = SubSeq(q, 1, n)
    BY DEF Paths, Root
  <2>2. Len(q) \in Nat \ {0}
    BY <2>1
  <2>3. Front(q) \in Seq(Sides) /\ Len(Front(q)) = Len(q) - 1
    <3>1. ASSUME NEW m \in Nat, m <= Len(q)
          PROVE  SubSeq(q, 1, m) \in Seq(Sides) /\ Len(SubSeq(q, 1, m)) = m
      BY <3>1
    <3>2. Len(q) - 1 \in Nat /\ Len(q) - 1 <= Len(q)
      BY <2>2
    <3>3. QED
      BY <3>1, <3>2 DEF Front
  <2>4. \A j \in 1 .. Len(q) - 1 : Front(q)[j] = q[j]
    <3>1. ASSUME NEW m \in Nat, m <= Len(q), NEW j \in 1 .. m
          PROVE  SubSeq(q, 1, m)[j] = q[j]
      BY <3>1
    <3>2. Len(q) - 1 \in Nat /\ Len(q) - 1 <= Len(q)
      BY <2>2
    <3>3. QED
      BY <3>1, <3>2 DEF Front
  <2>5. ASSUME NEW n \in 0 .. Len(q) - 1
        PROVE  SubSeq(Front(q), 1, n) = SubSeq(q, 1, n)
    <3>1. /\ SubSeq(Front(q), 1, n) \in Seq(Sides) /\ SubSeq(q, 1, n) \in Seq(Sides)
          /\ Len(SubSeq(Front(q), 1, n)) = n /\ Len(SubSeq(q, 1, n)) = n
      BY <2>2, <2>3
    <3>2. ASSUME NEW j \in 1 .. n
          PROVE  SubSeq(Front(q), 1, n)[j] = SubSeq(q, 1, n)[j]
      BY <2>2, <2>3, <2>4
    <3> DEFINE x == SubSeq(Front(q), 1, n)
               y == SubSeq(q, 1, n)
    <3>3. /\ x \in Seq(Sides) /\ y \in Seq(Sides) /\ Len(x) = Len(y)
          /\ \A j \in 1 .. Len(x) : x[j] = y[j]
      BY <3>1, <3>2
    <3> HIDE DEF x, y
    <3>4. x = y
      BY <3>3, SameSequence
    <3>5. QED
      BY <3>4 DEF x, y
  <2>6. QED
    BY <2>2, <2>3, <2>5
<1>5. p # Root => Front(p) \in E
  <2>1. SUFFICES ASSUME p # Root PROVE Front(p) \in E
    OBVIOUS
  <2>2. Len(p) \in Nat \ {0} /\ Len(Front(p)) = Len(p) - 1
    BY <1>4, <2>1
  <2>3. Front(p) \in DOMAIN t
    BY <2>2 DEF CanAdd, Front
  <2>4. ~IsPrefix(p, Front(p))
    BY <2>2 DEF IsPrefix
  <2>5. QED
    BY <2>3, <2>4
<1>6. ASSUME NEW q \in DOMAIN t, ~IsPrefix(p, q), q # Root
      PROVE  Front(q) \in E
  <2>1. Front(q) \in DOMAIN t
    BY <1>6 DEF IsTree
  <2>2. q \in Paths
    BY <1>1
  <2>3. /\ Len(q) \in Nat \ {0} /\ Len(Front(q)) = Len(q) - 1
        /\ \A n \in 0 .. Len(q) - 1 : SubSeq(Front(q), 1, n) = SubSeq(q, 1, n)
    BY <1>4, <1>6, <2>2
  <2>4. Len(p) \in Nat
    BY DEF Paths
  <2>5. IsPrefix(p, Front(q)) => IsPrefix(p, q)
    BY <2>3, <2>4 DEF IsPrefix
  <2>6. QED
    BY <1>6, <2>1, <2>5
<1>7. ASSUME NEW q \in E, q # Root PROVE Front(q) \in E
  BY <1>5, <1>6, <1>7
<1> HIDE DEF E, new
<1>8. IsTree(new)
  BY <1>2, <1>3, <1>7 DEF IsTree
<1>9. QED
  BY <1>8 DEF new

(* A NULL root is a tree. *)
LEMMA NullIsTree == IsTree(NullTree)
BY DEF IsTree, NullTree

(* A list of trees, each of them a tree *)
Proper(f) == f \in Seq(TreeSet) /\ \A n \in 1 .. Len(f) : IsTree(f[n])

(* A forest with one more tree, or with a tree changed *)
LEMMA ProperAppend ==
  ASSUME NEW f, Proper(f)
  PROVE  Proper(Append(f, NullTree))
<1>1. NullTree \in TreeSet
  BY NullTreeType
<1>2. IsTree(NullTree)
  BY NullIsTree
<1> DEFINE g == Append(f, NullTree)
<1>3. g \in Seq(TreeSet) /\ Len(g) = Len(f) + 1 /\ Len(f) \in Nat
  BY <1>1 DEF Proper
<1>4. ASSUME NEW n \in 1 .. Len(g) PROVE IsTree(g[n])
  <2>1. CASE n \in 1 .. Len(f)
    <3>1. g[n] = f[n]
      BY <1>1, <2>1 DEF Proper
    <3>2. QED
      BY <2>1, <3>1 DEF Proper
  <2>2. CASE n = Len(f) + 1
    <3>1. g[n] = NullTree
      BY <1>1, <2>2 DEF Proper
    <3>2. QED
      BY <1>2, <3>1
  <2>3. QED
    BY <1>3, <2>1, <2>2
<1> HIDE DEF g
<1>5. Proper(g)
  BY <1>3, <1>4 DEF Proper
<1>6. QED
  BY <1>5 DEF g

(* The same when one tree is changed.                                      *)
LEMMA ProperChange ==
  ASSUME NEW f, Proper(f), NEW m \in 1 .. Len(f), NEW t \in TreeSet, IsTree(t)
  PROVE  Proper([f EXCEPT ![m] = t])
<1> DEFINE g == [f EXCEPT ![m] = t]
<1>1. g \in Seq(TreeSet) /\ Len(g) = Len(f)
  BY DEF Proper
<1>2. ASSUME NEW n \in 1 .. Len(g) PROVE IsTree(g[n])
  <2>1. g[n] = IF n = m THEN t ELSE f[n]
    BY <1>1 DEF Proper
  <2>2. QED
    BY <1>1, <2>1 DEF Proper
<1> HIDE DEF g
<1>3. Proper(g)
  BY <1>1, <1>2 DEF Proper
<1>4. QED
  BY <1>3 DEF g

(* The inductive invariant of the types: a key with trees is a forest, and *)
(* the key of a command that has been given its tree is one.               *)
Shaped(s) ==
  /\ \A k \in Keys : Proper(forest[s][k])
  /\ \A k \in Keys : forest[s][k] # <<>> => type[s][k] = "forest"
  /\ at[s] \in {"tree", "add"} => type[s][Key(s)] = "forest"

FlagType ==
  /\ wild \in [Servers -> BOOLEAN]
  /\ up \in [Servers -> BOOLEAN]
  /\ silent \in SUBSET Keys

ShapeInv == StoreType /\ FlagType /\ \A s \in Servers : Shaped(s)

(* The flags keep their types in every step. *)
LEMMA FlagStep == StoreType /\ FlagType /\ [Next]_vars => FlagType'
<1> SUFFICES ASSUME StoreType, FlagType, [Next]_vars PROVE FlagType'
  OBVIOUS
<1> USE DEF keys, command, history
<1>r. ASSUME NEW s \in Servers, Return(s) PROVE wild' \in [Servers -> BOOLEAN]
  BY <1>r DEF Return, FlagType
<1>f. ASSUME NEW s \in Servers, Fail(s) PROVE FlagType'
  <2>1. Key(s) \in Keys
    BY CallType
  <2>2. wild' \in [Servers -> BOOLEAN]
    BY <1>f, <1>r DEF Fail
  <2>3. silent' \in {silent, silent \cup {Key(s)}} /\ up' = up
    BY <1>f DEF Fail
  <2>4. QED
    BY <2>1, <2>2, <2>3 DEF FlagType
<1>c. ASSUME NEW s \in Servers, Crash(s) PROVE FlagType'
  BY <1>c DEF Crash, FlagType
<1>1. CASE AddCommand
  BY <1>1 DEF AddCommand, Start, FlagType
<1>2. CASE Replicate
  BY <1>2 DEF Replicate, Start, FlagType
<1>3. ASSUME NEW s \in Servers, ForestAdd(s) PROVE FlagType'
  <2>1. CASE Refuse(s) \/ TidTooLarge(s) \/ AddFails(s) \/ DeleteForest(s)
    BY <2>1, <1>f DEF Refuse, TidTooLarge, AddFails, DeleteForest
  <2>2. CASE ReadUnsetStats(s) \/ FollowWildRoot(s)
    BY <2>2, <1>c DEF ReadUnsetStats, FollowWildRoot
  <2>3. CASE OpenKey(s) \/ OldTree(s) \/ AddNode(s)
    BY <2>3 DEF OpenKey, OldTree, AddNode, FlagType
  <2>4. CASE NewTree(s)
    BY <2>4 DEF NewTree, FlagType
  <2>5. CASE ReplyOK(s)
    BY <2>5, <1>r DEF ReplyOK, FlagType
  <2>6. QED
    BY <1>3, <2>1, <2>2, <2>3, <2>4, <2>5 DEF ForestAdd
<1>4. ASSUME NEW s \in Servers, RunMeetsNull(s) PROVE FlagType'
  BY <1>4, <1>c DEF RunMeetsNull
<1>5. CASE UNCHANGED vars
  BY <1>5 DEF vars, FlagType
<1>6. QED
  BY <1>1, <1>2, <1>3, <1>4, <1>5 DEF Next

(* Empty keys and keys of other types have no trees. *)
LEMMA ShapeInit == Init => ShapeInv
<1> SUFFICES ASSUME Init PROVE ShapeInv
  OBVIOUS
<1>1. Proper(<<>>)
  BY DEF Proper
<1>2. StoreType /\ FlagType
  BY TypeInit DEF Init, FlagType
<1>3. \A s \in Servers : Shaped(s)
  BY <1>1 DEF Init, Shaped
<1>4. QED
  BY <1>2, <1>3 DEF ShapeInv

(* The keys a step of one server leaves alone, and the other server *)
LEMMA OtherShape ==
  ASSUME NEW s \in Servers, Shaped(s),
         UNCHANGED <<type[s], forest[s], at[s], call[s]>>
  PROVE  Shaped(s)'
BY DEF Shaped, Key

(* A step of one server leaves the types of the keys of the other alone.   *)
LEMMA OtherTypes ==
  ASSUME StoreType, NEW s \in Servers, ForestAdd(s), NEW u \in Servers, u # s
  PROVE  UNCHANGED type[u]
BY DEF StoreType, keys, command, history, ForestAdd, Refuse, ReadUnsetStats, OpenKey,
       TidTooLarge, NewTree, OldTree, AddNode, FollowWildRoot, AddFails, DeleteForest,
       ReplyOK, Crash, Fail

(* Each step makes trees of trees.                                         *)
LEMMA ShapeStep == ShapeInv /\ [Next]_vars => ShapeInv'
<1> SUFFICES ASSUME ShapeInv, [Next]_vars, NEW u \in Servers PROVE Shaped(u)'
  BY TypeStep, FlagStep DEF ShapeInv
<1>0. StoreType /\ \A s \in Servers : Shaped(s)
  BY DEF ShapeInv
<1> USE DEF keys, command, history
<1>1. ASSUME NEW s \in Servers, NEW c, Start(s, c) PROVE Shaped(u)'
  <2>1. type' = type /\ forest' = forest
    BY <1>1 DEF Start
  <2>2. at'[u] \in {"tree", "add"} => at[u] \in {"tree", "add"} /\ call'[u] = call[u]
    BY <1>0, <1>1 DEF Start, StoreType
  <2>3. QED
    BY <1>0, <2>1, <2>2 DEF Shaped, Key
<1>2. CASE AddCommand
  BY <1>1, <1>2 DEF AddCommand, Servers
<1>3. CASE Replicate
  BY <1>1, <1>3 DEF Replicate, Servers
<1>4. ASSUME NEW s \in Servers, ForestAdd(s) PROVE Shaped(u)'
  <2>u. CASE u # s
    BY <1>0, <1>4, <2>u, OneServerMoves, OtherTypes, OtherShape
  <2> SUFFICES ASSUME u = s PROVE Shaped(s)'
    BY <2>u
  <2>k. Key(s) \in Keys /\ Trees(s) \in Seq(TreeSet) /\ call[s].tid \in Nat
    BY <1>0, CallType
  <2>i. Shaped(s)
    BY <1>0
  <2>r. ASSUME Return(s), type' = type, forest' = forest PROVE Shaped(s)'
    <3>1. at'[s] = "idle"
      BY <1>0, <2>r DEF Return, Goto, StoreType
    <3>2. QED
      BY <2>i, <2>r, <3>1 DEF Shaped
  <2>1. CASE Refuse(s) \/ TidTooLarge(s) \/ AddFails(s) \/ ReplyOK(s)
    BY <2>1, <2>r DEF Refuse, TidTooLarge, AddFails, ReplyOK, Fail
  <2>2. CASE ReadUnsetStats(s) \/ FollowWildRoot(s)
    BY <2>2, <2>i, OtherShape DEF ReadUnsetStats, FollowWildRoot, Crash
  <2>3. CASE OpenKey(s)
    <3>1. /\ forest' = forest /\ call' = call
          /\ type'[s][Key(s)] = "forest"
          /\ \A k \in Keys : k # Key(s) => type'[s][k] = type[s][k]
      BY <1>0, <2>k, <2>3 DEF OpenKey, StoreType
    <3>2. QED
      BY <2>i, <3>1 DEF Shaped, Key
  <2>4. CASE NewTree(s)
    <3>1. /\ type' = type /\ call' = call /\ at[s] = "tree"
          /\ forest'[s][Key(s)] = Append(Trees(s), NullTree)
          /\ \A k \in Keys : k # Key(s) => forest'[s][k] = forest[s][k]
      BY <1>0, <2>k, <2>4 DEF NewTree, At, StoreType, Trees
    <3>2. Proper(Append(Trees(s), NullTree))
      BY <2>i, <2>k, ProperAppend DEF Shaped, Trees
    <3>3. QED
      BY <2>i, <3>1, <3>2 DEF Shaped, Key
  <2>5. CASE OldTree(s)
    BY <2>5, <2>i DEF OldTree, At, Goto, Shaped, Key
  <2>6. CASE AddNode(s)
    <3> DEFINE m == call[s].tid + 1
               new == TreeAdd(Tree(s), Path(s), Kind(s))
    <3>1. /\ type' = type /\ call' = call /\ at[s] = "add"
          /\ forest'[s][Key(s)] = [Trees(s) EXCEPT ![m] = new]
          /\ \A k \in Keys : k # Key(s) => forest'[s][k] = forest[s][k]
      BY <1>0, <2>k, <2>6 DEF AddNode, At, StoreType, Trees, Tree
    <3>2. m \in 1 .. Len(Trees(s))
      BY <1>0, <3>1 DEF StoreType
    <3>3. Proper(Trees(s))
      BY <2>i, <2>k DEF Shaped, Trees
    <3>4. Tree(s) \in TreeSet /\ IsTree(Tree(s))
      BY <3>2, <3>3 DEF Proper, Tree
    <3>5. Path(s) \in Paths /\ Kind(s) \in Kinds /\ CanAdd(Tree(s), Path(s))
      BY <1>0, <2>6, NodeArgType DEF AddNode
    <3>6. new \in TreeSet /\ IsTree(new)
      BY <3>4, <3>5, TreeAddType, TreeAddIsTree
    <3> HIDE DEF new, m
    <3>7. Proper([Trees(s) EXCEPT ![m] = new])
      BY <3>2, <3>3, <3>6, ProperChange
    <3>8. QED
      BY <2>i, <3>1, <3>7 DEF Shaped, Key
  <2>7. CASE DeleteForest(s)
    <3>1. /\ at'[s] = "idle"
          /\ forest'[s][Key(s)] = <<>>
          /\ \A k \in Keys : k # Key(s) =>
               forest'[s][k] = forest[s][k] /\ type'[s][k] = type[s][k]
      BY <1>0, <2>k, <2>7 DEF DeleteForest, Fail, Return, Goto, StoreType
    <3>2. Proper(<<>>)
      BY DEF Proper
    <3>3. QED
      BY <2>i, <3>1, <3>2 DEF Shaped
  <2>8. QED
    BY <1>4, <2>1, <2>2, <2>3, <2>4, <2>5, <2>6, <2>7 DEF ForestAdd
<1>5. ASSUME NEW s \in Servers, RunMeetsNull(s) PROVE Shaped(u)'
  BY <1>0, <1>5, OtherShape DEF RunMeetsNull, Crash
<1>6. CASE UNCHANGED vars
  BY <1>0, <1>6, OtherShape DEF vars
<1>7. QED
  BY <1>2, <1>3, <1>4, <1>5, <1>6 DEF Next

(* The invariant of the types holds in every state.                        *)
LEMMA ShapeAlways == Spec => []ShapeInv
BY ShapeInit, ShapeStep, PTL DEF Spec

(* Every tree of every forest is a tree: however subtrees are overwritten, *)
(* each node hangs from another; and only forests have trees.              *)
THEOREM TypeCorrect == Spec => []TypeOK
<1>1. ShapeInv => TypeOK
  BY DEF ShapeInv, StoreType, FlagType, Shaped, Proper, TypeOK
<1>2. QED
  BY <1>1, ShapeAlways, PTL
------------------------------------------------------------------------------
(* A root that nobody has set belongs to a command that is at its first    *)
(* node.                                                                   *)
AtFirst(s) == at[s] \in {"args", "tree"} \/ wild[s] => i[s] = 1

WildInv == StoreType /\ FlagType /\ \A s \in Servers : AtFirst(s)

(* A step of one server leaves the loop and the root of the other alone.   *)
LEMMA OtherRoot ==
  ASSUME StoreType, FlagType, NEW s \in Servers, ForestAdd(s), NEW u \in Servers, u # s
  PROVE  UNCHANGED <<at[u], wild[u], i[u], up[u]>>
<1> USE DEF StoreType, FlagType, keys, command, history, Goto, Return, Fail
<1>1. UNCHANGED at[u] /\ UNCHANGED up[u]
  BY DEF ForestAdd, Refuse, ReadUnsetStats, OpenKey, TidTooLarge, NewTree, OldTree,
         AddNode, FollowWildRoot, AddFails, DeleteForest, ReplyOK, Crash
<1>2. UNCHANGED wild[u] /\ UNCHANGED i[u]
  BY DEF ForestAdd, Refuse, ReadUnsetStats, OpenKey, TidTooLarge, NewTree, OldTree,
         AddNode, FollowWildRoot, AddFails, DeleteForest, ReplyOK, Crash
<1>3. QED
  BY <1>1, <1>2

(* The first node is the root's, or the handler does not go on.            *)
LEMMA WildStep == WildInv /\ [Next]_vars => WildInv'
<1> SUFFICES ASSUME WildInv, [Next]_vars, NEW u \in Servers PROVE AtFirst(u)'
  BY TypeStep, FlagStep DEF WildInv
<1> USE DEF WildInv
<1>c. ASSUME NEW s \in Servers, Crash(s) PROVE AtFirst(u)'
  BY <1>c DEF Crash, command, AtFirst
<1>s. ASSUME NEW s \in Servers, NEW c, Start(s, c) PROVE AtFirst(u)'
  BY <1>s DEF Start, AtFirst, StoreType
<1>1. CASE AddCommand
  BY <1>1, <1>s DEF AddCommand, Servers
<1>2. CASE Replicate
  BY <1>2, <1>s DEF Replicate, Servers
<1>3. ASSUME NEW s \in Servers, ForestAdd(s) PROVE AtFirst(u)'
  <2>1. CASE u # s
    BY <1>3, <2>1, OtherRoot DEF AtFirst
  <2>2. CASE u = s
    <3>1. CASE Refuse(s) \/ TidTooLarge(s) \/ AddFails(s) \/ DeleteForest(s) \/ ReplyOK(s)
      <4>1. Return(s)
        BY <3>1 DEF Refuse, TidTooLarge, AddFails, DeleteForest, ReplyOK, Fail
      <4>2. QED
        BY <2>2, <4>1 DEF Return, AtFirst, StoreType
    <3>2. CASE ReadUnsetStats(s) \/ FollowWildRoot(s)
      BY <1>c, <3>2 DEF ReadUnsetStats, FollowWildRoot
    <3>3. CASE OpenKey(s) \/ NewTree(s) \/ OldTree(s)
      <4>1. i' = i /\ i[s] = 1
        BY <3>3 DEF OpenKey, NewTree, OldTree, At, command, AtFirst
      <4>2. QED
        BY <2>2, <4>1 DEF AtFirst
    <3>4. CASE AddNode(s)
      BY <2>2, <3>4 DEF AddNode, At, AtFirst, FlagType
    <3>5. QED
      BY <1>3, <3>1, <3>2, <3>3, <3>4 DEF ForestAdd
  <2>3. QED
    BY <2>1, <2>2
<1>4. ASSUME NEW s \in Servers, RunMeetsNull(s) PROVE AtFirst(u)'
  BY <1>4, <1>c DEF RunMeetsNull
<1>5. CASE UNCHANGED vars
  BY <1>5 DEF vars, command, AtFirst
<1>6. QED
  BY <1>1, <1>2, <1>3, <1>4, <1>5 DEF Next

(* Whatever malloc left in the root of the tree that an ADD has appended,  *)
(* for all commands: an ADD that begins with the root does not follow it.  *)
THEOREM AddsSafely == Spec => AddIsSafe
<1>1. Init => WildInv
  BY TypeInit DEF Init, WildInv, FlagType, AtFirst
<1>2. WildInv /\ [Next]_vars =>
        [\A s \in Servers : At(s, "add") /\ ~up'[s] => Nodes(s)[1][1] # Root]_vars
  <2> SUFFICES ASSUME WildInv, Next, NEW u \in Servers, At(u, "add"), ~up'[u]
               PROVE  Nodes(u)[1][1] # Root
    OBVIOUS
  <2> USE DEF WildInv
  <2>1. up[u] /\ at[u] = "add"
    BY DEF At
  <2>2. ~AddCommand /\ ~Replicate
    BY <2>1 DEF AddCommand, Replicate, Start
  <2>3. ASSUME NEW s \in Servers, RunMeetsNull(s) PROVE FALSE
    BY <2>1, <2>3 DEF RunMeetsNull, Crash, FlagType
  <2>4. PICK s \in Servers : ForestAdd(s)
    BY <2>2, <2>3 DEF Next
  <2>5. s = u
    BY <2>1, <2>4, OtherRoot
  <2>6. FollowWildRoot(u)
    BY <2>1, <2>4, <2>5 DEF ForestAdd, Refuse, ReadUnsetStats, OpenKey, TidTooLarge, NewTree,
                            OldTree, AddNode, AddFails, DeleteForest, ReplyOK, Fail, At
  <2>7. i[u] = 1
    BY <2>6 DEF FollowWildRoot, AtFirst
  <2>8. QED
    BY <2>6, <2>7 DEF FollowWildRoot, Path
<1>3. QED
  BY <1>1, <1>2, WildStep, PTL DEF Spec, AddIsSafe
------------------------------------------------------------------------------
(* What a command makes of a forest, as a function of the forest.  Two     *)
(* servers that give it the same forest differ in whether they crash only. *)

(* No node argument is one that the handler rejects. *)
Accepted(c) == \A n \in 1 .. Len(c.nodes) : c.nodes[n][2] # "bad"

(* The forest the loop starts from: with the tree, if it is new *)
Base(c, f) == IF c.tid = Len(f) THEN Append(f, NullTree) ELSE f

(* Round j of the loop makes g of the forest f. *)
Grows(c, j, f, g) ==
  LET node == c.nodes[j]
      tree == f[c.tid + 1]
      kind == IF node[2] \in Splitters THEN node[2] ELSE "leaf"
  IN /\ CanAdd(tree, node[1])
     /\ g = [f EXCEPT ![c.tid + 1] = TreeAdd(tree, node[1], kind)]

(* The forests ts[0], ts[1], ... that the first n rounds go through *)
Rounds(ts, c, f, n) ==
  /\ ts[0] = Base(c, f)
  /\ \A j \in 1 .. n : Grows(c, j, ts[j - 1], ts[j])

(* After n rounds the forest f has become g. *)
Reaches(c, f, n, g) == \E ts : Rounds(ts, c, f, n) /\ g = ts[n]

(* The command c succeeds on the value a of its key, and leaves b there. *)
Succeeds(c, a, b) ==
  /\ a[1] # "other"
  /\ Accepted(c)
  /\ c.tid <= Len(a[2])
  /\ \E g : /\ Reaches(c, a[2], Len(c.nodes), g)
            /\ CheckTree(g[c.tid + 1])
            /\ b = <<"forest", g>>

(* No round at all *)
LEMMA NoRound ==
  ASSUME NEW c, NEW f
  PROVE  Reaches(c, f, 0, Base(c, f))
<1> DEFINE ts == [j \in {0} |-> Base(c, f)]
<1>1. Rounds(ts, c, f, 0) /\ Base(c, f) = ts[0]
  BY DEF Rounds
<1>2. QED
  BY <1>1 DEF Reaches

(* One round more *)
LEMMA NextRound ==
  ASSUME NEW c, NEW f, NEW n \in Nat, NEW g, NEW h,
         Reaches(c, f, n, g), Grows(c, n + 1, g, h)
  PROVE  Reaches(c, f, n + 1, h)
<1>1. PICK ts : Rounds(ts, c, f, n) /\ g = ts[n]
  BY DEF Reaches
<1> DEFINE us == [j \in 0 .. n + 1 |-> IF j = n + 1 THEN h ELSE ts[j]]
<1>2. us[0] = ts[0] /\ us[n] = g /\ us[n + 1] = h
  BY <1>1
<1>3. ASSUME NEW j \in 1 .. n + 1 PROVE Grows(c, j, us[j - 1], us[j])
  <2>1. CASE j = n + 1
    BY <1>2, <2>1
  <2>2. CASE j \in 1 .. n
    <3>1. us[j - 1] = ts[j - 1] /\ us[j] = ts[j]
      BY <2>2
    <3>2. QED
      BY <1>1, <2>2, <3>1 DEF Rounds
  <2>3. QED
    BY <2>1, <2>2
<1> HIDE DEF us
<1>4. Rounds(us, c, f, n + 1)
  BY <1>1, <1>2, <1>3 DEF Rounds
<1>5. QED
  BY <1>2, <1>4 DEF Reaches

(* The rounds are determined by the forest they start from. *)
LEMMA SameRounds ==
  ASSUME NEW c, NEW f, NEW m \in Nat, NEW n \in Nat, m <= n, NEW ts, NEW us,
         Rounds(ts, c, f, n), Rounds(us, c, f, m)
  PROVE  ts[m] = us[m]
<1> DEFINE S == {j \in Nat : j <= m => ts[j] = us[j]}
<1>1. 0 \in S
  BY DEF Rounds
<1>2. ASSUME NEW j \in Nat, j \in S PROVE j + 1 \in S
  <2>1. SUFFICES ASSUME j + 1 <= m PROVE ts[j + 1] = us[j + 1]
    OBVIOUS
  <2>2. j + 1 \in 1 .. m /\ j + 1 \in 1 .. n /\ (j + 1) - 1 = j
    BY <2>1
  <2>3. ts[j] = us[j]
    BY <1>2, <2>1
  <2>4. Grows(c, j + 1, ts[j], ts[j + 1]) /\ Grows(c, j + 1, us[j], us[j + 1])
    BY <2>2 DEF Rounds
  <2>5. QED
    BY <2>3, <2>4 DEF Grows
<1> HIDE DEF S
<1>3. Nat \subseteq S
  BY <1>1, <1>2, Induction
<1>4. QED
  BY <1>3 DEF S

(* A command that succeeds on a value gets past every round. *)
LEMMA SuccessGoesOn ==
  ASSUME NEW c, NEW a, NEW b, NEW n \in Nat, NEW g, Len(c.nodes) \in Nat,
         Succeeds(c, a, b), Reaches(c, a[2], n, g)
  PROVE  /\ n < Len(c.nodes) => CanAdd(g[c.tid + 1], c.nodes[n + 1][1])
         /\ n = Len(c.nodes) => b = <<"forest", g>> /\ CheckTree(g[c.tid + 1])
<1>1. PICK h : /\ Reaches(c, a[2], Len(c.nodes), h)
               /\ CheckTree(h[c.tid + 1])
               /\ b = <<"forest", h>>
  BY DEF Succeeds
<1>2. PICK ts : Rounds(ts, c, a[2], Len(c.nodes)) /\ h = ts[Len(c.nodes)]
  BY <1>1 DEF Reaches
<1>3. PICK us : Rounds(us, c, a[2], n) /\ g = us[n]
  BY DEF Reaches
<1>4. n <= Len(c.nodes) => ts[n] = g
  BY <1>2, <1>3, SameRounds
<1>5. ASSUME n < Len(c.nodes) PROVE CanAdd(g[c.tid + 1], c.nodes[n + 1][1])
  <2>1. n + 1 \in 1 .. Len(c.nodes) /\ (n + 1) - 1 = n
    BY <1>5
  <2>2. Grows(c, n + 1, ts[n], ts[n + 1])
    BY <1>2, <2>1 DEF Rounds
  <2>3. QED
    BY <1>4, <1>5, <2>2 DEF Grows
<1>6. QED
  BY <1>1, <1>2, <1>4, <1>5
------------------------------------------------------------------------------
(* RedisModule_KeyType and the trees of a key *)
Value(s, k) == <<type[s][k], forest[s][k]>>

(* How far the handler of a server has come with its command, told from    *)
(* the value that the key had when it began *)
Progress(s) ==
  /\ at[s] = "args" => Value(s, Key(s)) = was[s] /\ i[s] = 1
  /\ at[s] \in {"tree", "add"} =>
       type[s][Key(s)] = "forest" /\ was[s][1] # "other" /\ Accepted(call[s])
  /\ at[s] = "tree" => Trees(s) = was[s][2] /\ i[s] = 1
  /\ at[s] = "add" =>
       /\ call[s].tid <= Len(was[s][2])
       /\ i[s] <= Len(Nodes(s)) + 1
       /\ Reaches(call[s], was[s][2], i[s] - 1, Trees(s))

(* A server is not affected by a step of the other one. *)
LEMMA OtherProgress ==
  ASSUME NEW s \in Servers, Progress(s),
         UNCHANGED <<type[s], forest[s], at[s], call[s], i[s], was[s]>>
  PROVE  Progress(s)'
BY DEF Progress, Value, Trees, Key, Nodes

(* A step of one server leaves the loop of the other alone.                *)
LEMMA OtherLoop ==
  ASSUME StoreType, NEW s \in Servers, ForestAdd(s), NEW u \in Servers, u # s
  PROVE  UNCHANGED i[u]
BY DEF StoreType, keys, command, history, ForestAdd, Refuse, ReadUnsetStats, OpenKey,
       TidTooLarge, NewTree, OldTree, AddNode, FollowWildRoot, AddFails, DeleteForest,
       ReplyOK, Crash, Fail, Return

(* The steps of ForestAdd that neither crash nor return *)
Works(s) == OpenKey(s) \/ NewTree(s) \/ OldTree(s) \/ AddNode(s)

(* Each of them goes one step further. *)
LEMMA WorksProgress ==
  ASSUME StoreType, NEW s \in Servers, Progress(s), Works(s)
  PROVE  Progress(s)'
<1> USE DEF keys, command, history
<1>k. Key(s) \in Keys /\ Trees(s) \in Seq(TreeSet) /\ call[s].tid \in Nat
  BY CallType
<1>n. Len(Nodes(s)) \in Nat
  BY StoreAssumption DEF StoreType, Calls, Nodes
<1>i. i[s] \in Nat \ {0}
  BY DEF StoreType
<1>1. CASE OpenKey(s)
  <2>1. /\ at[s] = "args" /\ at'[s] = "tree"
        /\ type'[s][Key(s)] = "forest" /\ type[s][Key(s)] # "other"
        /\ Accepted(call[s])
        /\ forest' = forest /\ call' = call /\ i' = i /\ was' = was
    BY <1>1, <1>k DEF OpenKey, At, Goto, StoreType, Accepted, Nodes
  <2>2. Value(s, Key(s)) = was[s] /\ i[s] = 1
    BY <2>1 DEF Progress
  <2>3. was[s][1] # "other" /\ was[s][2] = Trees(s)
    BY <2>1, <2>2 DEF Value, Trees
  <2>4. QED
    BY <2>1, <2>2, <2>3 DEF Progress, Key, Trees
<1>2. CASE NewTree(s)
  <2>1. /\ at[s] = "tree" /\ at'[s] = "add"
        /\ type' = type /\ call' = call /\ i' = i /\ was' = was
        /\ call[s].tid = Len(Trees(s))
        /\ forest'[s][Key(s)] = Append(Trees(s), NullTree)
    BY <1>2, <1>k DEF NewTree, At, Goto, StoreType, Trees
  <2>2. Trees(s) = was[s][2] /\ i[s] = 1
    BY <2>1 DEF Progress
  <2>3. Reaches(call[s], was[s][2], 0, Append(Trees(s), NullTree))
    BY <2>1, <2>2, NoRound DEF Base
  <2>4. QED
    BY <1>k, <1>n, <2>1, <2>2, <2>3 DEF Progress, Key, Trees, Nodes
<1>3. CASE OldTree(s)
  <2>1. /\ at[s] = "tree" /\ at'[s] = "add"
        /\ type' = type /\ forest' = forest /\ call' = call /\ i' = i /\ was' = was
        /\ call[s].tid < Len(Trees(s))
    BY <1>3, <1>k DEF OldTree, At, Goto, StoreType
  <2>2. Trees(s) = was[s][2] /\ i[s] = 1
    BY <2>1 DEF Progress
  <2>3. call[s].tid # Len(Trees(s))
    BY <1>k, <2>1
  <2>4. Reaches(call[s], was[s][2], 0, Trees(s))
    BY <2>2, <2>3, NoRound DEF Base
  <2>5. QED
    BY <1>k, <1>n, <2>1, <2>2, <2>4 DEF Progress, Key, Trees, Nodes
<1>4. CASE AddNode(s)
  <2>1. /\ at[s] = "add" /\ at' = at
        /\ type' = type /\ call' = call /\ was' = was
        /\ i'[s] = i[s] + 1 /\ i[s] <= Len(Nodes(s))
        /\ CanAdd(Tree(s), Path(s))
        /\ forest'[s][Key(s)] =
             [Trees(s) EXCEPT ![call[s].tid + 1] = TreeAdd(Tree(s), Path(s), Kind(s))]
    BY <1>4, <1>k DEF AddNode, At, StoreType, Trees, Tree
  <2>2. Reaches(call[s], was[s][2], i[s] - 1, Trees(s))
    BY <2>1 DEF Progress
  <2>3. Grows(call[s], i[s], Trees(s), forest'[s][Key(s)])
    BY <2>1 DEF Grows, Tree, Path, Kind, Nodes
  <2>4. Reaches(call[s], was[s][2], i[s], forest'[s][Key(s)])
    <3>1. i[s] - 1 \in Nat /\ (i[s] - 1) + 1 = i[s]
      BY <1>i
    <3>2. QED
      BY <2>2, <2>3, <3>1, NextRound
  <2>5. i'[s] - 1 = i[s] /\ i'[s] <= Len(Nodes(s)) + 1
    BY <1>i, <1>n, <2>1
  <2>6. QED
    BY <2>1, <2>4, <2>5 DEF Progress, Key, Trees, Nodes
<1>5. QED
  BY <1>1, <1>2, <1>3, <1>4 DEF Works

ProgressInv == StoreType /\ FlagType /\ \A s \in Servers : Progress(s)

(* Each step keeps the progress of both handlers.                          *)
LEMMA ProgressStep == ProgressInv /\ [Next]_vars => ProgressInv'
<1> SUFFICES ASSUME ProgressInv, [Next]_vars, NEW u \in Servers PROVE Progress(u)'
  BY TypeStep, FlagStep DEF ProgressInv
<1>0. StoreType /\ \A s \in Servers : Progress(s)
  BY DEF ProgressInv
<1> USE DEF keys, command, history
<1>c. ASSUME NEW s \in Servers, Crash(s) PROVE Progress(u)'
  BY <1>0, <1>c, OtherProgress DEF Crash
<1>1. ASSUME NEW s \in Servers, NEW c \in Calls, Start(s, c) PROVE Progress(u)'
  <2>1. CASE u # s
    <3>1. UNCHANGED <<type[u], forest[u], at[u], call[u], i[u], was[u]>>
      BY <1>0, <1>1, <2>1 DEF Start, StoreType
    <3>2. QED
      BY <1>0, <3>1, OtherProgress
  <2>2. CASE u = s
    <3>1. /\ at'[s] = "args" /\ call'[s] = c /\ i'[s] = 1
          /\ type' = type /\ forest' = forest
          /\ was'[s] = <<type[s][c.key], forest[s][c.key]>>
      BY <1>0, <1>1 DEF Start, StoreType
    <3>2. QED
      BY <2>2, <3>1 DEF Progress, Value, Key
  <2>3. QED
    BY <2>1, <2>2
<1>2. CASE AddCommand
  BY <1>1, <1>2 DEF AddCommand, Servers
<1>3. CASE Replicate
  <2>1. Head(stream) \in Calls
    BY <1>0, <1>3 DEF Replicate, StoreType
  <2>2. QED
    BY <1>1, <1>3, <2>1 DEF Replicate, Servers
<1>4. ASSUME NEW s \in Servers, ForestAdd(s) PROVE Progress(u)'
  <2>u. CASE u # s
    BY <1>0, <1>4, <2>u, OneServerMoves, OtherTypes, OtherLoop, OtherProgress
  <2> SUFFICES ASSUME u = s PROVE Progress(s)'
    BY <2>u
  <2>1. CASE Works(s)
    BY <1>0, <2>1, WorksProgress
  <2>2. CASE ReadUnsetStats(s) \/ FollowWildRoot(s)
    BY <1>c, <2>2 DEF ReadUnsetStats, FollowWildRoot
  <2>3. CASE Refuse(s) \/ TidTooLarge(s) \/ AddFails(s) \/ DeleteForest(s) \/ ReplyOK(s)
    <3>1. at'[s] = "idle"
      BY <1>0, <2>3 DEF Refuse, TidTooLarge, AddFails, DeleteForest, ReplyOK, Fail,
                        Return, Goto, StoreType
    <3>2. QED
      BY <3>1 DEF Progress
  <2>4. QED
    BY <1>4, <2>1, <2>2, <2>3 DEF ForestAdd, Works
<1>5. ASSUME NEW s \in Servers, RunMeetsNull(s) PROVE Progress(u)'
  BY <1>5, <1>c DEF RunMeetsNull
<1>6. CASE UNCHANGED vars
  BY <1>0, <1>6, OtherProgress DEF vars
<1>7. QED
  BY <1>2, <1>3, <1>4, <1>5, <1>6 DEF Next
------------------------------------------------------------------------------
(* A command of the stream makes b of the value a of the key k.  It leaves *)
(* the other keys alone.                                                   *)
Link(k, c, a, b) == IF c.key = k THEN Succeeds(c, a, b) ELSE b = a

(* The commands of the stream q turn the value a of the key k into b. *)
Links(h, k, q, a, b) ==
  /\ h[0] = a /\ h[Len(q)] = b
  /\ \A j \in 1 .. Len(q) : Link(k, q[j], h[j - 1], h[j])

Chain(k, q, a, b) == \E h : Links(h, k, q, a, b)

(* No command *)
LEMMA ChainEmpty ==
  ASSUME NEW k, NEW a, NEW b
  PROVE  Chain(k, <<>>, a, b) <=> a = b
<1>1. Chain(k, <<>>, a, b) => a = b
  BY DEF Chain, Links
<1>2. ASSUME a = b PROVE Chain(k, <<>>, a, b)
  <2> DEFINE h == [j \in {0} |-> a]
  <2>1. h[0] = a
    OBVIOUS
  <2>2. Links(h, k, <<>>, a, b)
    BY <1>2, <2>1 DEF Links
  <2>3. QED
    BY <2>2 DEF Chain
<1>3. QED
  BY <1>1, <1>2

(* One command more at the end *)
LEMMA ChainAppend ==
  ASSUME NEW q \in Seq(Calls), NEW c \in Calls, NEW k, NEW a, NEW b, NEW d,
         Chain(k, q, a, b), Link(k, c, b, d)
  PROVE  Chain(k, Append(q, c), a, d)
<1> DEFINE n == Len(q)
           r == Append(q, c)
<1>1. PICK h : Links(h, k, q, a, b)
  BY DEF Chain
<1> DEFINE g == [j \in 0 .. n + 1 |-> IF j = n + 1 THEN d ELSE h[j]]
<1>2. n \in Nat /\ Len(r) = n + 1 /\ r[n + 1] = c /\ \A j \in 1 .. n : r[j] = q[j]
  OBVIOUS
<1>3. g[0] = a /\ g[n] = b /\ g[n + 1] = d /\ \A j \in 0 .. n : g[j] = h[j]
  BY <1>1, <1>2 DEF Links
<1> HIDE DEF g, r
<1>4. ASSUME NEW j \in 1 .. n + 1 PROVE Link(k, r[j], g[j - 1], g[j])
  <2>1. CASE j = n + 1
    <3>1. j - 1 = n
      BY <1>2, <2>1
    <3>2. QED
      BY <1>2, <1>3, <2>1, <3>1
  <2>2. CASE j \in 1 .. n
    <3>1. j - 1 \in 0 .. n /\ j \in 0 .. n
      BY <1>2, <2>2
    <3>2. g[j - 1] = h[j - 1] /\ g[j] = h[j] /\ r[j] = q[j]
      BY <1>2, <1>3, <2>2, <3>1
    <3>3. QED
      BY <1>1, <2>2, <3>2 DEF Links
  <2>3. QED
    BY <1>2, <2>1, <2>2
<1>5. Links(g, k, r, a, d)
  BY <1>2, <1>3, <1>4 DEF Links
<1>6. QED
  BY <1>5 DEF Chain, r

(* The first command taken off *)
LEMMA ChainHead ==
  ASSUME NEW q \in Seq(Calls), q # <<>>, NEW k, NEW a, NEW b, Chain(k, q, a, b)
  PROVE  \E d : Link(k, Head(q), a, d) /\ Chain(k, Tail(q), d, b)
<1> DEFINE n == Len(q)
           r == Tail(q)
<1>1. PICK h : Links(h, k, q, a, b)
  BY DEF Chain
<1> DEFINE g == [j \in 0 .. n - 1 |-> h[j + 1]]
<1>2. /\ n \in Nat \ {0} /\ Len(r) = n - 1 /\ Head(q) = q[1]
      /\ \A j \in 1 .. n - 1 : r[j] = q[j + 1]
  OBVIOUS
<1>3. \A j \in 0 .. n - 1 : g[j] = h[j + 1]
  OBVIOUS
<1> HIDE DEF g, r
<1>4. g[0] = h[1] /\ g[n - 1] = b
  <2>1. 0 \in 0 .. n - 1 /\ n - 1 \in 0 .. n - 1 /\ 0 + 1 = 1 /\ (n - 1) + 1 = n
    BY <1>2
  <2>2. g[0] = h[0 + 1] /\ g[n - 1] = h[(n - 1) + 1]
    BY <1>3, <2>1
  <2>3. QED
    BY <1>1, <2>1, <2>2 DEF Links
<1>5. Link(k, Head(q), a, h[1])
  BY <1>1, <1>2 DEF Links
<1>6. ASSUME NEW j \in 1 .. n - 1 PROVE Link(k, r[j], g[j - 1], g[j])
  <2>1. /\ j + 1 \in 1 .. n /\ (j + 1) - 1 = j /\ (j - 1) + 1 = j
        /\ j - 1 \in 0 .. n - 1 /\ j \in 0 .. n - 1
    BY <1>2
  <2>2. Link(k, q[j + 1], h[(j + 1) - 1], h[j + 1])
    BY <1>1, <2>1 DEF Links
  <2>3. g[j - 1] = h[(j - 1) + 1] /\ g[j] = h[j + 1] /\ r[j] = q[j + 1]
    BY <1>2, <1>3, <2>1
  <2>4. QED
    BY <2>1, <2>2, <2>3
<1>7. Links(g, k, r, h[1], b)
  BY <1>2, <1>4, <1>6 DEF Links
<1>8. QED
  BY <1>5, <1>7 DEF Chain, r
------------------------------------------------------------------------------
(* The value of a key once the commands before the running one are done *)
Settled(s, k) == IF at[s] # "idle" /\ Key(s) = k THEN was[s] ELSE Value(s, k)

(* The replica has the value a of key k, or will when its command is done. *)
Due(k, a) ==
  IF at["replica"] = "idle" THEN a = Value("replica", k)
  ELSE Link(k, call["replica"], Settled("replica", k), a)

(* The replica is behind the master by the commands of the stream and by   *)
(* the one it is executing, each of which will succeed.                    *)
Agrees(k) == \E a : Due(k, a) /\ Chain(k, stream, a, Settled("master", k))

AgreeInv ==
  /\ ProgressInv
  /\ up["master"] /\ up["replica"] => \A k \in Keys \ silent : Agrees(k)

(* The servers start with the same keys, and no command on its way.        *)
LEMMA AgreeInit == Init => AgreeInv
<1> SUFFICES ASSUME Init PROVE AgreeInv
  OBVIOUS
<1>1. ProgressInv
  BY TypeInit DEF Init, FlagType, ProgressInv, Progress
<1>2. ASSUME NEW k \in Keys PROVE Agrees(k)
  <2>1. Due(k, Value("replica", k)) /\ Settled("master", k) = Value("master", k)
    BY DEF Init, Due, Settled, Servers
  <2>2. Value("replica", k) = Value("master", k)
    BY DEF Init, Value, Servers
  <2>3. Chain(k, stream, Value("replica", k), Settled("master", k))
    BY <2>1, <2>2, ChainEmpty DEF Init
  <2>4. QED
    BY <2>1, <2>3 DEF Agrees
<1>3. QED
  BY <1>1, <1>2 DEF AgreeInv

(* A step that leaves the settled values and the calls alone keeps the     *)
(* agreement, and so does one of the master that sends nothing.            *)
LEMMA AgreesSame ==
  ASSUME NEW k, Agrees(k), stream' = stream,
         Settled("master", k)' = Settled("master", k),
         \A a : Due(k, a) => Due(k, a)'
  PROVE  Agrees(k)'
BY DEF Agrees

(* The replica is to reach the same value as long as its command and the   *)
(* value it began with stay.                                               *)
LEMMA DueSame ==
  ASSUME NEW k, at["replica"] = "idle" <=> at'["replica"] = "idle",
         UNCHANGED <<call["replica"], Settled("replica", k)>>
  PROVE  \A a : Due(k, a) => Due(k, a)'
BY DEF Due, Settled

(* A server that has no part in a step has the values it had. *)
LEMMA OtherSettled ==
  ASSUME NEW s \in Servers, NEW k,
         UNCHANGED <<type[s], forest[s], at[s], call[s], was[s]>>
  PROVE  Settled(s, k)' = Settled(s, k)
BY DEF Settled, Value, Key

(* While a command works, the settled values do not change.                *)
LEMMA WorksSettled ==
  ASSUME StoreType, NEW s \in Servers, NEW k \in Keys, Works(s)
  PROVE  /\ Settled(s, k)' = Settled(s, k)
         /\ at[s] # "idle" /\ at'[s] # "idle"
         /\ UNCHANGED <<call[s], stream, silent>>
<1> USE DEF keys, command, history
<1>k. Key(s) \in Keys
  BY CallType
<1>1. /\ at[s] # "idle" /\ at'[s] # "idle"
      /\ UNCHANGED <<call[s], was[s], stream, silent>>
  BY DEF StoreType, Works, OpenKey, NewTree, OldTree, AddNode, At, Goto
<1>2. k # Key(s) => type'[s][k] = type[s][k] /\ forest'[s][k] = forest[s][k]
  BY <1>k DEF StoreType, Works, OpenKey, NewTree, OldTree, AddNode
<1>3. QED
  BY <1>1, <1>2 DEF Settled, Value, Key

(* A command that fails leaves each key settled as it was, but its own if  *)
(* it has changed it, which on the master makes the key silent.            *)
LEMMA FailSettled ==
  ASSUME StoreType, NEW s \in Servers, NEW k \in Keys, at[s] # "idle", Fail(s),
         \A j \in Keys : j # Key(s) =>
            type'[s][j] = type[s][j] /\ forest'[s][j] = forest[s][j]
  PROVE  /\ k # Key(s) \/ Value(s, k)' = was[s] => Settled(s, k)' = Settled(s, k)
         /\ s = "master" /\ k \notin silent' => k # Key(s) \/ Value(s, k)' = was[s]
         /\ silent \subseteq silent' /\ at'[s] = "idle" /\ stream' = stream
<1>1. at'[s] = "idle" /\ stream' = stream
  BY DEF Fail, Return, Goto, StoreType
<1>2. silent' = IF s = "master" /\ <<type'[s][Key(s)], forest'[s][Key(s)]>> # was[s]
                THEN silent \cup {Key(s)} ELSE silent
  BY DEF Fail
<1>3. s = "master" /\ k \notin silent' => k # Key(s) \/ Value(s, k)' = was[s]
  BY <1>2 DEF Value
<1>4. Settled(s, k)' = Value(s, k)'
  BY <1>1 DEF Settled
<1>5. k = Key(s) => Settled(s, k) = was[s]
  BY DEF Settled
<1>6. k # Key(s) => Settled(s, k) = Value(s, k) /\ Value(s, k)' = Value(s, k)
  BY DEF Settled, Value
<1>7. QED
  BY <1>1, <1>2, <1>3, <1>4, <1>5, <1>6

(* A command that will succeed does not fail: what it meets is determined  *)
(* by the value that its key had.                                          *)
LEMMA SuccessDoesNotFail ==
  ASSUME StoreType, NEW s \in Servers, Progress(s), NEW a,
         Succeeds(call[s], was[s], a)
  PROVE  ~Refuse(s) /\ ~TidTooLarge(s) /\ ~AddFails(s) /\ ~DeleteForest(s)
<1>k. Key(s) \in Keys /\ Trees(s) \in Seq(TreeSet) /\ call[s].tid \in Nat
  BY CallType
<1>n. Len(Nodes(s)) \in Nat /\ i[s] \in Nat \ {0}
  BY StoreAssumption DEF StoreType, Calls, Nodes
<1>a. was[s][1] # "other" /\ Accepted(call[s]) /\ call[s].tid <= Len(was[s][2])
  BY DEF Succeeds
<1>1. ASSUME Refuse(s) PROVE FALSE
  <2>1. at[s] = "args"
    BY <1>1 DEF Refuse, At
  <2>2. type[s][Key(s)] = was[s][1]
    BY <2>1 DEF Progress, Value
  <2>3. QED
    BY <1>1, <1>a, <2>2 DEF Refuse, Accepted, Nodes
<1>2. ASSUME TidTooLarge(s) PROVE FALSE
  <2>1. at[s] = "tree" /\ call[s].tid > Len(Trees(s))
    BY <1>2 DEF TidTooLarge, At
  <2>2. Trees(s) = was[s][2]
    BY <2>1 DEF Progress
  <2>3. QED
    BY <1>a, <1>k, <2>1, <2>2
<1> DEFINE n == i[s] - 1
<1>3. ASSUME at[s] = "add"
      PROVE  /\ i[s] <= Len(Nodes(s)) => CanAdd(Tree(s), Path(s))
             /\ i[s] > Len(Nodes(s)) => CheckTree(Tree(s))
  <2>1. /\ Reaches(call[s], was[s][2], n, Trees(s))
        /\ i[s] <= Len(Nodes(s)) + 1
    BY <1>3 DEF Progress
  <2>2. n \in Nat /\ n + 1 = i[s]
    BY <1>n
  <2>3. Len(call[s].nodes) \in Nat /\ call[s].nodes = Nodes(s)
    BY <1>n DEF Nodes
  <2> HIDE DEF n
  <2>4. /\ n < Len(Nodes(s)) => CanAdd(Trees(s)[call[s].tid + 1], Nodes(s)[n + 1][1])
        /\ n = Len(Nodes(s)) => CheckTree(Trees(s)[call[s].tid + 1])
    BY <2>1, <2>2, <2>3, SuccessGoesOn
  <2>5. /\ i[s] <= Len(Nodes(s)) => n < Len(Nodes(s))
        /\ i[s] > Len(Nodes(s)) => n = Len(Nodes(s))
    BY <1>n, <2>1, <2>2
  <2>6. QED
    BY <2>2, <2>4, <2>5 DEF Tree, Path
<1>4. ~AddFails(s) /\ ~DeleteForest(s)
  BY <1>3 DEF AddFails, DeleteForest, Added, At
<1>5. QED
  BY <1>1, <1>2, <1>4

(* When it replies OK, it has made of the key what it was to make of it.   *)
LEMMA OKSucceeds ==
  ASSUME StoreType, NEW s \in Servers, Progress(s), ReplyOK(s)
  PROVE  /\ Succeeds(call[s], was[s], Value(s, Key(s)))
         /\ \A a : Succeeds(call[s], was[s], a) => a = Value(s, Key(s))
<1>n. Len(Nodes(s)) \in Nat /\ i[s] \in Nat \ {0}
  BY StoreAssumption DEF StoreType, Calls, Nodes
<1>1. at[s] = "add" /\ i[s] > Len(Nodes(s)) /\ CheckTree(Tree(s))
  BY DEF ReplyOK, Added, At
<1>2. /\ type[s][Key(s)] = "forest" /\ was[s][1] # "other" /\ Accepted(call[s])
      /\ call[s].tid <= Len(was[s][2])
      /\ i[s] <= Len(Nodes(s)) + 1
      /\ Reaches(call[s], was[s][2], i[s] - 1, Trees(s))
  BY <1>1 DEF Progress
<1>3. i[s] - 1 = Len(call[s].nodes) /\ Len(call[s].nodes) \in Nat
  BY <1>n, <1>1, <1>2 DEF Nodes
<1>4. Reaches(call[s], was[s][2], Len(call[s].nodes), Trees(s))
  BY <1>2, <1>3
<1>5. Value(s, Key(s)) = <<"forest", Trees(s)>>
  BY <1>2 DEF Value, Trees
<1>6. Succeeds(call[s], was[s], Value(s, Key(s)))
  BY <1>1, <1>2, <1>4, <1>5 DEF Succeeds, Tree
<1>7. ASSUME NEW a, Succeeds(call[s], was[s], a) PROVE a = Value(s, Key(s))
  <2> DEFINE n == Len(call[s].nodes)
  <2>1. n \in Nat /\ Reaches(call[s], was[s][2], n, Trees(s))
    BY <1>3, <1>4
  <2> HIDE DEF n
  <2>2. PICK h : Reaches(call[s], was[s][2], Len(call[s].nodes), h) /\ a = <<"forest", h>>
    BY <1>7 DEF Succeeds
  <2>3. PICK ts : Rounds(ts, call[s], was[s][2], n) /\ h = ts[n]
    BY <2>2 DEF Reaches, n
  <2>4. PICK us : Rounds(us, call[s], was[s][2], n) /\ Trees(s) = us[n]
    BY <2>1 DEF Reaches
  <2>5. ts[n] = us[n]
    BY <2>1, <2>3, <2>4, SameRounds
  <2>6. QED
    BY <1>5, <2>2, <2>3, <2>4, <2>5
<1>8. QED
  BY <1>6, <1>7

(* A step of the master *)
LEMMA MasterAgrees ==
  ASSUME ProgressInv, ForestAdd("master"), up'["master"], NEW k \in Keys,
         k \notin silent', k \notin silent => Agrees(k)
  PROVE  Agrees(k)'
<1> DEFINE s == "master"
<1> USE DEF keys, command, history
<1>0. StoreType /\ s \in Servers /\ "replica" \in Servers /\ Progress(s)
  BY DEF ProgressInv, Servers
<1>k. Key(s) \in Keys /\ call[s] \in Calls /\ stream \in Seq(Calls)
  BY <1>0, CallType DEF StoreType
<1>o. UNCHANGED <<type["replica"], forest["replica"], at["replica"], call["replica"],
                  was["replica"]>>
  BY <1>0, OneServerMoves, OtherTypes
<1>d. \A a : Due(k, a) => Due(k, a)'
  BY <1>0, <1>o, OtherSettled, DueSame
<1>1. CASE Works(s)
  BY <1>0, <1>1, <1>d, WorksSettled, AgreesSame
<1>2. ASSUME Fail(s), at[s] # "idle",
             \A j \in Keys : j # Key(s) =>
               type'[s][j] = type[s][j] /\ forest'[s][j] = forest[s][j]
      PROVE  Agrees(k)'
  BY <1>0, <1>2, <1>d, FailSettled, AgreesSame
<1>3. CASE Refuse(s) \/ TidTooLarge(s) \/ AddFails(s)
  BY <1>2, <1>3 DEF Refuse, TidTooLarge, AddFails, At
<1>4. CASE DeleteForest(s)
  BY <1>0, <1>k, <1>2, <1>4 DEF DeleteForest, Added, At, StoreType
<1>5. CASE ReplyOK(s)
  <2>1. /\ type' = type /\ forest' = forest /\ silent' = silent
        /\ stream' = Append(stream, call[s])
        /\ at[s] # "idle" /\ at'[s] = "idle"
    BY <1>0, <1>5 DEF ReplyOK, Added, At, Return, Goto, StoreType
  <2>2. Settled(s, k)' = Value(s, k)
    BY <2>1 DEF Settled, Value
  <2>3. Link(k, call[s], Settled(s, k), Value(s, k))
    <3>1. CASE Key(s) = k
      BY <1>0, <1>5, <2>1, <3>1, OKSucceeds DEF Link, Settled, Key
    <3>2. CASE Key(s) # k
      BY <3>2 DEF Link, Settled, Key
    <3>3. QED
      BY <3>1, <3>2
  <2>4. PICK a : Due(k, a) /\ Chain(k, stream, a, Settled(s, k))
    BY <2>1 DEF Agrees
  <2>5. Chain(k, stream', a, Settled(s, k)')
    BY <1>k, <2>1, <2>2, <2>3, <2>4, ChainAppend
  <2>6. Due(k, a)'
    BY <1>d, <2>4
  <2>7. QED
    BY <2>5, <2>6 DEF Agrees
<1>6. CASE ReadUnsetStats(s) \/ FollowWildRoot(s)
  BY <1>0, <1>6 DEF ReadUnsetStats, FollowWildRoot, Crash, ProgressInv, FlagType
<1>7. QED
  BY <1>1, <1>3, <1>4, <1>5, <1>6 DEF ForestAdd, Works

(* A step of the replica *)
LEMMA ReplicaAgreesStep ==
  ASSUME ProgressInv, ForestAdd("replica"), up'["replica"], NEW k \in Keys,
         k \notin silent', k \notin silent => Agrees(k)
  PROVE  Agrees(k)'
<1> DEFINE s == "replica"
<1> USE DEF keys, command, history
<1>0. StoreType /\ s \in Servers /\ "master" \in Servers /\ Progress(s)
  BY DEF ProgressInv, Servers
<1>k. Key(s) \in Keys
  BY <1>0, CallType
<1>o. Settled("master", k)' = Settled("master", k)
  BY <1>0, OneServerMoves, OtherTypes, OtherSettled
<1>1. CASE Works(s)
  BY <1>0, <1>1, <1>o, WorksSettled, DueSame, AgreesSame
<1>2. CASE ReadUnsetStats(s) \/ FollowWildRoot(s)
  BY <1>0, <1>2 DEF ReadUnsetStats, FollowWildRoot, Crash, ProgressInv, FlagType
<1>3. CASE Refuse(s) \/ TidTooLarge(s) \/ AddFails(s) \/ DeleteForest(s)
  <2>1. /\ Fail(s) /\ at[s] # "idle" /\ silent' = silent
        /\ \A j \in Keys : j # Key(s) =>
             type'[s][j] = type[s][j] /\ forest'[s][j] = forest[s][j]
    BY <1>0, <1>k, <1>3 DEF Refuse, TidTooLarge, AddFails, DeleteForest, Added, At,
                            Fail, StoreType
  <2>2. PICK a : Due(k, a) /\ Chain(k, stream, a, Settled("master", k))
    BY <2>1 DEF Agrees
  <2>3. Key(s) # k
    <3>1. Key(s) = k => Succeeds(call[s], was[s], a)
      BY <2>1, <2>2 DEF Due, Link, Settled, Key
    <3>2. QED
      BY <1>0, <1>3, <3>1, SuccessDoesNotFail
  <2>4. a = Value(s, k)
    BY <2>1, <2>2, <2>3 DEF Due, Link, Settled, Key
  <2>5. Value(s, k)' = Value(s, k)
    BY <2>1, <2>3 DEF Value
  <2>6. at'[s] = "idle" /\ stream' = stream
    BY <1>0, <2>1 DEF Fail, Return, Goto, StoreType
  <2>7. Due(k, a)'
    BY <2>4, <2>5, <2>6 DEF Due
  <2>8. QED
    BY <1>o, <2>2, <2>6, <2>7 DEF Agrees
<1>4. CASE ReplyOK(s)
  <2>1. /\ type' = type /\ forest' = forest /\ silent' = silent /\ stream' = stream
        /\ at[s] # "idle" /\ at'[s] = "idle"
    BY <1>0, <1>4 DEF ReplyOK, Added, At, Return, Goto, StoreType
  <2>2. PICK a : Due(k, a) /\ Chain(k, stream, a, Settled("master", k))
    BY <2>1 DEF Agrees
  <2>3. Link(k, call[s], Settled(s, k), a)
    BY <2>1, <2>2 DEF Due
  <2>4. a = Value(s, k)
    <3>1. CASE Key(s) = k
      BY <1>0, <1>4, <2>1, <2>3, <3>1, OKSucceeds DEF Link, Settled, Key
    <3>2. CASE Key(s) # k
      BY <2>3, <3>2 DEF Link, Settled, Key
    <3>3. QED
      BY <3>1, <3>2
  <2>5. Due(k, a)'
    BY <2>1, <2>4 DEF Due, Value
  <2>6. QED
    BY <1>o, <2>1, <2>2, <2>5 DEF Agrees
<1>5. QED
  BY <1>1, <1>2, <1>3, <1>4 DEF ForestAdd, Works

(* Each step leaves the replica behind by the commands on their way.       *)
LEMMA AgreeStep == AgreeInv /\ [Next]_vars => AgreeInv'
<1> SUFFICES ASSUME AgreeInv, [Next]_vars, up'["master"], up'["replica"],
                    NEW k \in Keys, k \notin silent'
             PROVE  Agrees(k)'
  BY ProgressStep DEF AgreeInv
<1> USE DEF keys, command, history
<1>0. StoreType /\ ProgressInv
  BY DEF AgreeInv, ProgressInv
<1>s. "master" \in Servers /\ "replica" \in Servers
  BY DEF Servers
<1>c. ASSUME NEW s \in Servers, Crash(s) PROVE FALSE
  BY <1>0, <1>c DEF Crash, ProgressInv, FlagType, Servers
<1>1. CASE AddCommand
  <2>1. PICK c \in Calls : Start("master", c)
    BY <1>1 DEF AddCommand
  <2>2. /\ UNCHANGED <<type, forest, stream, up, silent>>
        /\ at["master"] = "idle" /\ call'["master"] = c
        /\ was'["master"] = Value("master", c.key)
        /\ UNCHANGED <<at["replica"], call["replica"], was["replica"]>>
    BY <1>0, <1>1, <1>s, <2>1 DEF AddCommand, Start, StoreType, Value
  <2>3. Agrees(k)
    BY <2>2 DEF AgreeInv
  <2>4. Settled("master", k)' = Settled("master", k)
    BY <2>2 DEF Settled, Value, Key
  <2>5. \A a : Due(k, a) => Due(k, a)'
    BY <1>s, <2>2, OtherSettled, DueSame
  <2>6. QED
    BY <2>2, <2>3, <2>4, <2>5, AgreesSame
<1>2. CASE Replicate
  <2>1. Start("replica", Head(stream)) /\ stream # <<>> /\ stream' = Tail(stream)
    BY <1>2 DEF Replicate
  <2>2. /\ UNCHANGED <<type, forest, up, silent>>
        /\ at["replica"] = "idle" /\ at'["replica"] # "idle"
        /\ call'["replica"] = Head(stream)
        /\ was'["replica"] = Value("replica", Head(stream).key)
        /\ UNCHANGED <<at["master"], call["master"], was["master"]>>
    BY <1>0, <1>s, <2>1 DEF Start, StoreType, Value
  <2>3. PICK a : Due(k, a) /\ Chain(k, stream, a, Settled("master", k))
    BY <2>2 DEF AgreeInv, Agrees
  <2>4. a = Value("replica", k)
    BY <2>2, <2>3 DEF Due
  <2>5. PICK d : Link(k, Head(stream), a, d) /\ Chain(k, Tail(stream), d, Settled("master", k))
    BY <1>0, <2>1, <2>3, ChainHead DEF StoreType
  <2>6. Settled("replica", k)' = a
    BY <2>2, <2>4 DEF Settled, Value, Key
  <2>7. Due(k, d)'
    BY <2>2, <2>5, <2>6 DEF Due
  <2>8. Settled("master", k)' = Settled("master", k)
    BY <1>s, <2>2, OtherSettled
  <2>9. QED
    BY <2>1, <2>5, <2>7, <2>8 DEF Agrees
<1>3. ASSUME NEW s \in Servers, ForestAdd(s) PROVE Agrees(k)'
  <2>1. up = up'
    BY <1>3, <1>c DEF ForestAdd, Refuse, ReadUnsetStats, OpenKey, TidTooLarge, NewTree,
                      OldTree, AddNode, FollowWildRoot, AddFails, DeleteForest, ReplyOK,
                      Fail
  <2>2. k \notin silent => Agrees(k)
    BY <2>1 DEF AgreeInv
  <2>3. QED
    BY <1>0, <1>3, <2>2, MasterAgrees, ReplicaAgreesStep DEF Servers
<1>4. ASSUME NEW s \in Servers, RunMeetsNull(s) PROVE FALSE
  BY <1>4, <1>c DEF RunMeetsNull
<1>5. CASE UNCHANGED vars
  <2>1. UNCHANGED <<type, forest, at, call, stream, up, was, silent>>
    BY <1>5 DEF vars
  <2>2. Agrees(k)
    BY <2>1 DEF AgreeInv
  <2>3. QED
    BY <2>1, <2>2 DEF Agrees, Due, Settled, Value, Key
<1>6. QED
  BY <1>1, <1>2, <1>3, <1>4, <1>5 DEF Next

(* For all keys, tree ids, commands and lengths of the stream: a replica   *)
(* that has caught up holds, type and trees, what the master holds in each *)
(* key that the master has not changed without telling it, as long as      *)
(* neither has crashed.  The invariant says why: each command that is on   *)
(* its way will succeed there as it succeeded here.                        *)
THEOREM ReplicaFollows == Spec => []ReplicaAgrees
<1>1. AgreeInv => ReplicaAgrees
  <2> SUFFICES ASSUME AgreeInv, stream = <<>>, \A s \in Servers : up[s] /\ at[s] = "idle",
                      NEW k \in Keys \ silent
               PROVE  Value("master", k) = Value("replica", k)
    BY DEF ReplicaAgrees, Value
  <2>1. up["master"] /\ up["replica"] /\ at["master"] = "idle" /\ at["replica"] = "idle"
    BY DEF Servers
  <2>2. PICK a : Due(k, a) /\ Chain(k, stream, a, Settled("master", k))
    BY <2>1 DEF AgreeInv, Agrees
  <2>3. a = Value("replica", k) /\ Settled("master", k) = Value("master", k)
    BY <2>1, <2>2 DEF Due, Settled
  <2>4. QED
    BY <2>2, <2>3, ChainEmpty
<1>2. QED
  BY <1>1, AgreeInit, AgreeStep, PTL DEF Spec
==============================================================================
