------------------------------- MODULE JobPool -------------------------------
(***************************************************************************)
(* What the thread pool of util/thpool.h promises to the thread that uses  *)
(* it.  Jobs are started in the order they were added, each is run exactly *)
(* once, thpool_wait returns only when nothing is queued and nothing runs, *)
(* and thpool_destroy returns only when nothing runs.  Mutexes, condition  *)
(* variables and worker threads do not appear: ThreadPool.tla implements   *)
(* this module, and ForestClassify.tla is written against it.              *)
(***************************************************************************)
EXTENDS Integers, Sequences

CONSTANT Jobs   \* job records that may be handed to the pool

VARIABLES
  queue,    \* jobs added and not yet started, in order
  running,  \* jobs some worker is executing
  client    \* "idle", "waiting" (inside thpool_wait) or "gone" (destroyed)

poolVars == <<queue, running, client>>

Queued == {queue[i] : i \in 1 .. Len(queue)}

PoolInit ==
  /\ queue = <<>>
  /\ running = {}
  /\ client = "idle"

(* thpool_add_work: the record is fresh, so it is in use nowhere. *)
Submit(j) ==
  /\ client = "idle"
  /\ j \notin Queued \cup running
  /\ queue' = Append(queue, j)
  /\ UNCHANGED <<running, client>>

Start(j) ==
  /\ queue # <<>>
  /\ Head(queue) = j
  /\ j \notin running
  /\ queue' = Tail(queue)
  /\ running' = running \cup {j}
  /\ UNCHANGED client

Finish(j) ==
  /\ j \in running
  /\ running' = running \ {j}
  /\ UNCHANGED <<queue, client>>

BeginWait ==
  /\ client = "idle"
  /\ client' = "waiting"
  /\ UNCHANGED <<queue, running>>

EndWait ==
  /\ client = "waiting"
  /\ queue = <<>>
  /\ running = {}
  /\ client' = "idle"
  /\ UNCHANGED <<queue, running>>

(* Jobs still queued when the pool is destroyed are dropped. *)
Destroy ==
  /\ client = "idle"
  /\ running = {}
  /\ queue' = <<>>
  /\ client' = "gone"
  /\ UNCHANGED running

PoolNext ==
  \/ \E j \in Jobs : Submit(j) \/ Start(j) \/ Finish(j)
  \/ BeginWait \/ EndWait \/ Destroy

PoolSpec == PoolInit /\ [][PoolNext]_poolVars
==============================================================================
