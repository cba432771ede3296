----------------------------- MODULE ForestStore -----------------------------
(***************************************************************************)
(* ML.FOREST.ADD and ML.FOREST.RUN on a Redis server and on its replica.   *)
(* A command runs alone on a server's main thread; its handler is cut into *)
(* the steps where it can fail, because a step that fails leaves what the  *)
(* steps before it did.  A command that succeeds is sent to the replica,   *)
(* which gives it to the same handler (RedisModule_ReplicateVerbatim).     *)
(***************************************************************************)
EXTENDS ForestTree

CONSTANTS
  Keys,         \* the keys of the database
  OtherKeys,    \* those that hold a value of another type
  Tids,         \* the tree ids clients use
  Commands,     \* the <path, node> lists clients send
  MaxStream     \* bound: commands on their way to the replica

Servers == {"master", "replica"}

(* A node argument: a LEAF may bring its STATS or not, and "bad" is a path *)
(* or a node type that the handler rejects.                                *)
NodeArgs == Kinds \cup {"stats", "bad"}

ASSUME StoreAssumption ==
  /\ OtherKeys \subseteq Keys
  /\ Tids \subseteq Nat
  /\ Commands \subseteq Seq(Paths \X NodeArgs) \ {<<>>}
  /\ MaxStream \in Nat
  /\ Keys # {} /\ Tids # {} /\ Commands # {}

Calls == [key : Keys, tid : Tids, nodes : Commands]

(* What the locals of a handler hold when it is not running does not       *)
(* matter.                                                                 *)
NoCall == CHOOSE c \in Calls : TRUE
NoValue == <<"empty", <<>>>>

VARIABLES
  type,       \* per server: RedisModule_KeyType of each key
  forest,     \* per server: the trees of each key that is a forest
  at,         \* per server: where its handler is
  call,       \* per server: the command it is executing
  i,          \* per server: the loop over the command's nodes
  wild,       \* per server: does t->root hold what malloc left there?
  up,         \* per server: FALSE once a wild or a NULL pointer was followed
  stream,     \* the replication stream
  was,        \* history: type and forest of the key when the command began
  torn,       \* history, per server: keys left half changed by a command
  silent      \* history: keys the master changed without replicating it

keys    == <<type, forest>>
command == <<call, i, wild>>
history == <<was, torn, silent>>
vars    == <<keys, at, command, up, stream, history>>

------------------------------------------------------------------------------
Init ==
  /\ type = [s \in Servers |-> [k \in Keys |-> IF k \in OtherKeys THEN "other" ELSE "empty"]]
  /\ forest = [s \in Servers |-> [k \in Keys |-> <<>>]]
  /\ at = [s \in Servers |-> "idle"]
  /\ call = [s \in Servers |-> NoCall]
  /\ i = [s \in Servers |-> 1]
  /\ wild = [s \in Servers |-> FALSE]
  /\ up = [s \in Servers |-> TRUE]
  /\ stream = <<>>
  /\ was = [s \in Servers |-> NoValue]
  /\ torn = [s \in Servers |-> {}]
  /\ silent = {}

Crash(s) ==
  /\ up' = [up EXCEPT ![s] = FALSE]
  /\ UNCHANGED <<keys, at, command, stream, history>>

(* A server starts a command: the master a client's, the replica the next  *)
(* one of the stream.                                                      *)
Start(s, c) ==
  /\ up[s] /\ at[s] = "idle"
  /\ at' = [at EXCEPT ![s] = "args"]
  /\ call' = [call EXCEPT ![s] = c]
  /\ i' = [i EXCEPT ![s] = 1]
  /\ was' = [was EXCEPT ![s] = <<type[s][c.key], forest[s][c.key]>>]
  /\ UNCHANGED <<keys, wild, up, torn, silent>>

AddCommand ==
  /\ Len(stream) < MaxStream
  /\ \E c \in Calls : Start("master", c)
  /\ UNCHANGED stream

Replicate ==
  /\ stream # <<>>
  /\ Start("replica", Head(stream))
  /\ stream' = Tail(stream)

------------------------------------------------------------------------------
(* ForestAddCommand on server s.  At(s, here) names its variables key,     *)
(* tid and t.                                                              *)

At(s, here) == up[s] /\ at[s] = here

Key(s)   == call[s].key
Nodes(s) == call[s].nodes
Trees(s) == forest[s][Key(s)]
Tree(s)  == Trees(s)[call[s].tid + 1]
Path(s)  == Nodes(s)[i[s]][1]
Kind(s)  == IF Nodes(s)[i[s]][2] \in Splitters THEN Nodes(s)[i[s]][2] ELSE "leaf"

Goto(s, there) == at' = [at EXCEPT ![s] = there]

Return(s) ==
  /\ Goto(s, "idle")
  /\ call' = [call EXCEPT ![s] = NoCall]
  /\ i' = [i EXCEPT ![s] = 1]
  /\ wild' = [wild EXCEPT ![s] = FALSE]
  /\ was' = [was EXCEPT ![s] = NoValue]

(* The handler returns, and what it has changed is not replicated. *)
Fail(s) ==
  /\ Return(s)
  /\ silent' = IF s = "master" /\ <<type'[s][Key(s)], forest'[s][Key(s)]>> # was[s]
               THEN silent \cup {Key(s)} ELSE silent
  /\ UNCHANGED <<up, stream>>

(* A key of another type, or an argument that does not parse *)
Refuse(s) ==
  /\ At(s, "args")
  /\ \/ type[s][Key(s)] = "other"
     \/ \E n \in 1 .. Len(Nodes(s)) : Nodes(s)[n][2] = "bad"
  /\ UNCHANGED <<keys, torn>>
  /\ Fail(s)

(* A plain LEAF at the end of the line has no next argument to look for    *)
(* STATS in: hasStats is what an earlier LEAF left in it, or was never set *)
(* and is followed all the same.                                           *)
ReadUnsetStats(s) ==
  /\ At(s, "args")
  /\ type[s][Key(s)] # "other"
  /\ \A n \in 1 .. Len(Nodes(s)) :
       Nodes(s)[n][2] \in (IF n = Len(Nodes(s)) THEN {"leaf"} ELSE Splitters)
  /\ Crash(s)

(* The forest is created before the tree id is looked at. *)
OpenKey(s) ==
  /\ At(s, "args")
  /\ type[s][Key(s)] # "other"
  /\ \A n \in 1 .. Len(Nodes(s)) : Nodes(s)[n][2] # "bad"
  /\ type' = [type EXCEPT ![s][Key(s)] = "forest"]
  /\ Goto(s, "tree")
  /\ UNCHANGED <<forest, command, up, stream, history>>

TidTooLarge(s) ==
  /\ At(s, "tree")
  /\ call[s].tid > Len(Trees(s))
  /\ UNCHANGED <<keys, torn>>
  /\ Fail(s)

(* The next id appends a Forest_Tree, whose root nobody sets. *)
NewTree(s) ==
  /\ At(s, "tree")
  /\ call[s].tid = Len(Trees(s))
  /\ forest' = [forest EXCEPT ![s][Key(s)] = Append(@, NullTree)]
  /\ \E garbage \in BOOLEAN : wild' = [wild EXCEPT ![s] = garbage]
  /\ Goto(s, "add")
  /\ UNCHANGED <<type, call, i, up, stream, history>>

OldTree(s) ==
  /\ At(s, "tree")
  /\ call[s].tid < Len(Trees(s))
  /\ Goto(s, "add")
  /\ UNCHANGED <<keys, command, up, stream, history>>

(* Mutant of AddNode: the first node does not set t->root. *)
AddNodeElsewhere(s) ==
  /\ At(s, "add") /\ i[s] <= Len(Nodes(s))
  /\ CanAdd(Tree(s), Path(s))
  /\ forest' = [forest EXCEPT ![s][Key(s)][call[s].tid + 1] =
                  TreeAdd(@, Path(s), Kind(s))]
  /\ i' = [i EXCEPT ![s] = @ + 1]
  /\ UNCHANGED <<type, at, call, wild, up, stream, history>>

(* One round of the loop; a node at the root also gives t->root a value.   *)
AddNode(s) ==
  /\ At(s, "add") /\ i[s] <= Len(Nodes(s))
  /\ CanAdd(Tree(s), Path(s))
  /\ forest' = [forest EXCEPT ![s][Key(s)][call[s].tid + 1] =
                  TreeAdd(@, Path(s), Kind(s))]
  /\ wild' = [wild EXCEPT ![s] = FALSE]
  /\ i' = [i EXCEPT ![s] = @ + 1]
  /\ UNCHANGED <<type, at, call, up, stream, history>>

FollowWildRoot(s) ==
  /\ At(s, "add") /\ i[s] <= Len(Nodes(s))
  /\ wild[s] /\ Path(s) # Root
  /\ Crash(s)

(* Forest_TreeAdd fails: the handler returns at once, without a reply, and *)
(* what it has added so far stays.                                         *)
AddFails(s) ==
  /\ At(s, "add") /\ i[s] <= Len(Nodes(s))
  /\ ~wild[s] /\ ~CanAdd(Tree(s), Path(s))
  /\ torn' = IF <<type[s][Key(s)], Trees(s)>> # was[s]
             THEN [torn EXCEPT ![s] = @ \cup {Key(s)}] ELSE torn
  /\ UNCHANGED keys
  /\ Fail(s)

Added(s) == At(s, "add") /\ i[s] > Len(Nodes(s))

(* Mutant of DeleteForest: an error is replied, and the tree stays. *)
DeleteNothing(s) ==
  /\ Added(s)
  /\ ~CheckTree(Tree(s))
  /\ UNCHANGED <<keys, torn>>
  /\ Fail(s)

(* An incomplete tree costs the whole forest. *)
DeleteForest(s) ==
  /\ Added(s)
  /\ ~CheckTree(Tree(s))
  /\ type' = [type EXCEPT ![s][Key(s)] = "empty"]
  /\ forest' = [forest EXCEPT ![s][Key(s)] = <<>>]
  /\ torn' = [torn EXCEPT ![s] = @ \ {Key(s)}]
  /\ Fail(s)

(* Mutant of ReplyOK: the command is not replicated. *)
ReplyOKAlone(s) ==
  /\ Added(s)
  /\ CheckTree(Tree(s))
  /\ Return(s)
  /\ UNCHANGED <<keys, up, stream, torn, silent>>

ReplyOK(s) ==
  /\ Added(s)
  /\ CheckTree(Tree(s))
  /\ Return(s)
  /\ stream' = IF s = "master" THEN Append(stream, call[s]) ELSE stream
  /\ UNCHANGED <<keys, up, torn, silent>>

(* ML.FOREST.RUN: each tree is followed to one of its ends, and the leaf   *)
(* there is used without a look at whether there is one.                   *)
RunMeetsNull(s) ==
  /\ up[s] /\ at[s] = "idle"
  /\ \E k \in Keys : \E n \in 1 .. Len(forest[s][k]) :
       ~(Ends(forest[s][k][n]) \subseteq DOMAIN forest[s][k][n])
  /\ Crash(s)

ForestAdd(s) ==
  \/ Refuse(s) \/ ReadUnsetStats(s) \/ OpenKey(s)
  \/ TidTooLarge(s) \/ NewTree(s) \/ OldTree(s)
  \/ AddNode(s) \/ FollowWildRoot(s) \/ AddFails(s)
  \/ DeleteForest(s) \/ ReplyOK(s)

Next ==
  \/ AddCommand \/ Replicate
  \/ \E s \in Servers : ForestAdd(s) \/ RunMeetsNull(s)

Spec == Init /\ [][Next]_vars

------------------------------------------------------------------------------
(* Properties *)

TypeOK ==
  /\ type \in [Servers -> [Keys -> {"empty", "forest", "other"}]]
  /\ at \in [Servers -> {"idle", "args", "tree", "add"}]
  /\ call \in [Servers -> Calls]
  /\ i \in [Servers -> Nat \ {0}]
  /\ wild \in [Servers -> BOOLEAN]
  /\ up \in [Servers -> BOOLEAN]
  /\ stream \in Seq(Calls)
  /\ torn \in [Servers -> SUBSET Keys]
  /\ silent \in SUBSET Keys
  /\ \A s \in Servers, k \in Keys :
       /\ forest[s][k] # <<>> => type[s][k] = "forest"
       /\ \A n \in 1 .. Len(forest[s][k]) : IsTree(forest[s][k][n])

(* The forests that ML.FOREST.RUN may be asked to walk *)
Usable(s, k) ==
  \/ at[s] # "idle" /\ Key(s) = k
  \/ \A n \in 1 .. Len(forest[s][k]) : CheckTree(forest[s][k][n])

(* Between commands, the trees of every key are complete, unless a command *)
(* has been abandoned half way on that key: whatever the client adds, in   *)
(* pieces, over leaves, or in place of a subtree that was there.           *)
CompleteUnlessTorn ==
  \A s \in Servers : \A k \in Keys \ torn[s] : Usable(s, k)

(* ML.FOREST.RUN is safe on every key that no ADD has left half changed.   *)
RunIsSafe ==
  [][\A s \in Servers : RunMeetsNull(s) => torn[s] # {}]_vars

(* ML.FOREST.ADD may find anything in the root of a tree it has appended,  *)
(* but an ADD that begins with the root follows only pointers that it has  *)
(* set, whatever its other nodes are and whichever of them fails           *)
(* (redis-ml.c:171, :209).                                                  *)
AddIsSafe ==
  [][\A s \in Servers : At(s, "add") /\ ~up'[s] => Nodes(s)[1][1] # Root]_vars

(* Once the stream is empty the replica has the master's value of each key *)
(* the master has not changed in a command that failed.                    *)
ReplicaAgrees ==
  stream = <<>> /\ (\A s \in Servers : up[s] /\ at[s] = "idle") =>
    \A k \in Keys \ silent :
      type["master"][k] = type["replica"][k] /\ forest["master"][k] = forest["replica"][k]
==============================================================================
