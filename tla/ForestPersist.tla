---------------------------- MODULE ForestPersist ----------------------------
(***************************************************************************)
(* ForestStore with the RDB callbacks of forest-type.c.  A server saves    *)
(* its keys and loads them again (a restart, DEBUG RELOAD), or a replica   *)
(* that lost its connection, or crashed, loads what the master saves for   *)
(* it (full synchronisation).  Both happen between commands.               *)
(***************************************************************************)
EXTENDS ForestStore, ForestCodec

------------------------------------------------------------------------------
(* ForestTypeRdbSave, then ForestTypeRdbLoad, of a list of trees *)
SaveAndLoad(trees) ==
  LET loads == [n \in 1 .. Len(trees) |-> Deserialize(Serialize(trees[n]))]
  IN {g \in [1 .. Len(trees) -> UNION Range(loads)] :
        \A n \in 1 .. Len(trees) : g[n] \in loads[n]}

(* Forest_Tree is allocated and its root not set: a file that does not     *)
(* begin with the root leaves a wild pointer there.                        *)
RootUnset(t) ==
  LET buf == Serialize(t) IN ~(buf # <<>> /\ Head(buf).plen = 0)

SomeRootUnset(s) ==
  \E k \in Keys : \E n \in 1 .. Len(forest[s][k]) : RootUnset(forest[s][k][n])

(* Server s has loaded the keys of server from. *)
Load(s, from) ==
  /\ type' = [type EXCEPT ![s] = type[from]]
  /\ LET loads == [k \in Keys |-> SaveAndLoad(forest[from][k])]
     IN \E f \in [Keys -> UNION Range(loads)] :
          /\ \A k \in Keys : f[k] \in loads[k]
          /\ forest' = [forest EXCEPT ![s] = f]

(* History.  A tree that is too deep may come back incomplete; a tree that *)
(* is not saved as it is may come back different from the other server's.  *)
TooDeep(k, s) ==
  \E n \in 1 .. Len(forest[s][k]) :
    \E p \in Reached(forest[s][k][n]) : Len(p) > PathBits

Altered(s) ==
  {k \in Keys : \E n \in 1 .. Len(forest[s][k]) :
     LET t == forest[s][k][n]
     IN ~(CheckTree(t) /\ Fits(t) /\ DOMAIN t = Reached(t))}

Lossy(s) == {k \in Keys : TooDeep(k, s)}

Reload(s) ==
  /\ up[s] /\ at[s] = "idle"
  /\ UNCHANGED <<at, command, up, stream, was>>
  /\ torn' = [torn EXCEPT ![s] = @ \cup Lossy(s)]
  /\ silent' = silent \cup Altered(s)
  /\ Load(s, s)

(* The wild root is followed while loading, or when it is used. *)
ReloadWild(s) ==
  /\ up[s] /\ at[s] = "idle"
  /\ SomeRootUnset(s)
  /\ Crash(s)

FullSync ==
  /\ up["master"] /\ at["master"] = "idle"
  /\ up["replica"] => at["replica"] = "idle"
  /\ up' = [up EXCEPT !["replica"] = TRUE]
  /\ Return("replica")
  /\ stream' = <<>>
  /\ torn' = [torn EXCEPT !["replica"] = torn["master"] \cup Lossy("master")]
  /\ silent' = Altered("master")
  /\ Load("replica", "master")

PersistNext ==
  \/ Next
  \/ \E s \in Servers : Reload(s) \/ ReloadWild(s)
  \/ FullSync

PersistSpec == Init /\ [][PersistNext]_vars

------------------------------------------------------------------------------
(* Properties *)

CameBack(s, from) ==
  \A k \in Keys : \A n \in 1 .. Len(forest[from][k]) :
    LET t == forest[from][k][n]
    IN CheckTree(t) /\ Fits(t) => forest'[s][k][n] = Visible(t)

(* Saving and loading gives back every complete tree that fits the format, *)
(* as far as a walk can see it, on the same server or on a replica.        *)
TreesComeBack ==
  [][/\ \A s \in Servers : Reload(s) => CameBack(s, s)
     /\ FullSync => CameBack("replica", "master")]_vars
==============================================================================
