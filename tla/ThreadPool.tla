------------------------------ MODULE ThreadPool ------------------------------
(***************************************************************************)
(* The pthread pool of util/thpool.c: one client thread (the Redis main    *)
(* thread) that calls the API, and the workers that run thread_do.         *)
(*                                                                         *)
(* Every mutex is held from one step to the next, so a worker can be       *)
(* interrupted by SIGUSR1 (thpool_pause) while it owns one.  A condition   *)
(* variable is the set of threads blocked on it; a signal takes one thread *)
(* out of the set, and that thread must then re-acquire the mutex.  The    *)
(* linked list front/rear/len of the job queue is a sequence.              *)
(***************************************************************************)
EXTENDS Integers, Sequences, FiniteSets

CONSTANTS
  Workers,          \* the threads of the pool, num_threads of them
  Client,           \* the thread that calls the API
  Jobs,             \* job records the client may add
  NoJob,            \* the NULL job pointer
  Nobody,           \* owner of a free mutex
  ClientOps,        \* the API calls this client makes after thpool_init
  SpuriousWakeups   \* may pthread_cond_wait return without a signal?

Threads == Workers \cup {Client}
Mutexes == {"thcount", "rw", "bsem"}

ASSUME PoolAssumption ==
  /\ IsFiniteSet(Workers)
  /\ Client \notin Workers
  /\ Nobody \notin Threads
  /\ NoJob \notin Jobs
  /\ ClientOps \subseteq {"add", "wait", "pause", "resume", "destroy"}
  /\ SpuriousWakeups \in BOOLEAN

VARIABLES
  pc,                   \* where each thread is
  owner,                \* thcount_lock, jobqueue rwmutex, has_jobs->mutex
  bsem_v, bsem_cond,    \* has_jobs->v, threads blocked on has_jobs->cond
  queue,                \* the job queue
  job_p,                \* the job a thread holds: job_p / newjob
  num_threads_alive,
  num_threads_working,
  threads_all_idle,     \* threads blocked on threads_all_idle
  threads_keepalive,
  threads_on_hold,
  sigpending,           \* workers with SIGUSR1 pending
  held                  \* workers inside the signal handler thread_hold

sem     == <<bsem_v, bsem_cond>>
jobs    == <<queue, job_p>>
counts  == <<num_threads_alive, num_threads_working, threads_all_idle>>
signals == <<threads_keepalive, threads_on_hold, sigpending, held>>
vars    == <<pc, owner, sem, jobs, counts, signals>>

------------------------------------------------------------------------------
(* Program counters.  X_lock is a thread about to lock, X_cs one inside.   *)

WorkingPC == {"pull_lock", "pull_cs", "repost_lock", "repost_cs", "run",
              "dec_lock", "dec_cs"}
WorkerPC == WorkingPC \cup
  {"unborn", "start", "start_cs", "loop", "bsem_wait", "bsem_cs",
   "bsem_blocked", "check", "inc_lock", "inc_cs",
   "exit_lock", "exit_cs", "exit_unlock", "dead"}
WaitPC == {"wait_lock", "wait_cs", "wait_blocked", "wait_unlock"}
ClientPC == WaitPC \cup
  {"spawn", "spin", "idle", "push_lock", "push_cs", "post_lock", "post_cs",
   "destroy", "bcast_lock", "bcast_cs", "gone"}

(* The places where a thread owns each mutex. *)
Holding(m) ==
  CASE m = "thcount" -> {"start_cs", "inc_cs", "dec_cs", "exit_cs",
                         "exit_unlock", "wait_cs", "wait_unlock"}
    [] m = "rw"      -> {"pull_cs", "repost_lock", "repost_cs",
                         "push_cs", "post_lock", "post_cs"}
    [] m = "bsem"    -> {"bsem_cs", "repost_cs", "post_cs", "bcast_cs"}

(* A thread inside the signal handler makes no step of its own. *)
Step(t, from, to) ==
  /\ t \notin held
  /\ pc[t] = from
  /\ pc' = [pc EXCEPT ![t] = to]

(* Mutant of Lock: the mutex is taken from its owner. *)
LockTaken(t, m, from, to) ==
  /\ Step(t, from, to)
  /\ owner' = [owner EXCEPT ![m] = t]
  /\ UNCHANGED <<sem, jobs, counts, signals>>

Lock(t, m, from, to) ==
  /\ Step(t, from, to)
  /\ owner[m] = Nobody
  /\ owner' = [owner EXCEPT ![m] = t]
  /\ UNCHANGED <<sem, jobs, counts, signals>>

Unlock(m) == owner' = [owner EXCEPT ![m] = Nobody]

(* Mutants of Post: the semaphore counts; nobody is woken. *)
PostCounts ==
  /\ bsem_v' = bsem_v + 1
  /\ IF bsem_cond = {} THEN UNCHANGED bsem_cond
     ELSE \E t \in bsem_cond : bsem_cond' = bsem_cond \ {t}

PostSilently == bsem_v' = 1 /\ UNCHANGED bsem_cond

(* bsem_post, inside its mutex *)
Post ==
  /\ bsem_v' = 1
  /\ IF bsem_cond = {} THEN UNCHANGED bsem_cond
     ELSE \E t \in bsem_cond : bsem_cond' = bsem_cond \ {t}

------------------------------------------------------------------------------
(* thread_do *)

Boot(w) == Lock(w, "thcount", "start", "start_cs")

BecomeAlive(w) ==
  /\ Step(w, "start_cs", "loop")
  /\ num_threads_alive' = num_threads_alive + 1
  /\ Unlock("thcount")
  /\ UNCHANGED <<sem, jobs, num_threads_working, threads_all_idle, signals>>

(* while (threads_keepalive) *)
TestLoop(w) ==
  /\ Step(w, "loop", IF threads_keepalive THEN "bsem_wait" ELSE "exit_lock")
  /\ UNCHANGED <<owner, sem, jobs, counts, signals>>

BsemLock(w) == Lock(w, "bsem", "bsem_wait", "bsem_cs")

(* The semaphore is binary: one worker consumes the token ... *)
BsemTake(w) ==
  /\ bsem_v = 1
  /\ Step(w, "bsem_cs", "check")
  /\ bsem_v' = 0
  /\ Unlock("bsem")
  /\ UNCHANGED <<bsem_cond, jobs, counts, signals>>

(* ... and the others block in pthread_cond_wait, giving up the mutex. *)
BsemBlock(w) ==
  /\ bsem_v # 1
  /\ Step(w, "bsem_cs", "bsem_blocked")
  /\ bsem_cond' = bsem_cond \cup {w}
  /\ Unlock("bsem")
  /\ UNCHANGED <<bsem_v, jobs, counts, signals>>

BsemWake(w) ==
  /\ w \notin bsem_cond
  /\ Lock(w, "bsem", "bsem_blocked", "bsem_cs")

(* if (threads_keepalive) *)
TestAgain(w) ==
  /\ Step(w, "check", IF threads_keepalive THEN "inc_lock" ELSE "loop")
  /\ UNCHANGED <<owner, sem, jobs, counts, signals>>

IncLock(w) == Lock(w, "thcount", "inc_lock", "inc_cs")

IncWorking(w) ==
  /\ Step(w, "inc_cs", "pull_lock")
  /\ num_threads_working' = num_threads_working + 1
  /\ Unlock("thcount")
  /\ UNCHANGED <<sem, jobs, num_threads_alive, threads_all_idle, signals>>

PullLock(w) == Lock(w, "rw", "pull_lock", "pull_cs")

(* jobqueue_pull: nothing there, the last job, or one of several; in the   *)
(* last case the semaphore is posted again before rwmutex is released.     *)
(* Mutants: an empty pull goes straight back to the loop; a pull that      *)
(* leaves jobs does not post again; a pull leaves the job in the queue.    *)
PullNoneContinues(w) ==
  /\ queue = <<>>
  /\ Step(w, "pull_cs", "loop")
  /\ Unlock("rw")
  /\ UNCHANGED <<sem, jobs, counts, signals>>

PullOneSilently(w) ==
  /\ Len(queue) > 1
  /\ Step(w, "pull_cs", "run")
  /\ job_p' = [job_p EXCEPT ![w] = Head(queue)]
  /\ queue' = Tail(queue)
  /\ Unlock("rw")
  /\ UNCHANGED <<sem, counts, signals>>

PullOneKeeps(w) ==
  /\ Len(queue) > 1
  /\ Step(w, "pull_cs", "repost_lock")
  /\ job_p' = [job_p EXCEPT ![w] = Head(queue)]
  /\ UNCHANGED <<owner, sem, queue, counts, signals>>

PullNone(w) ==
  /\ queue = <<>>
  /\ Step(w, "pull_cs", "dec_lock")
  /\ Unlock("rw")
  /\ UNCHANGED <<sem, jobs, counts, signals>>

PullLast(w) ==
  /\ Len(queue) = 1
  /\ Step(w, "pull_cs", "run")
  /\ job_p' = [job_p EXCEPT ![w] = Head(queue)]
  /\ queue' = <<>>
  /\ Unlock("rw")
  /\ UNCHANGED <<sem, counts, signals>>

PullOne(w) ==
  /\ Len(queue) > 1
  /\ Step(w, "pull_cs", "repost_lock")
  /\ job_p' = [job_p EXCEPT ![w] = Head(queue)]
  /\ queue' = Tail(queue)
  /\ UNCHANGED <<owner, sem, counts, signals>>

RepostLock(w) == Lock(w, "bsem", "repost_lock", "repost_cs")

(* Mutant of Repost: rwmutex stays locked. *)
RepostKeepsLock(w) ==
  /\ Step(w, "repost_cs", "run")
  /\ Post
  /\ Unlock("bsem")
  /\ UNCHANGED <<jobs, counts, signals>>

Repost(w) ==
  /\ Step(w, "repost_cs", "run")
  /\ Post
  /\ owner' = [owner EXCEPT !["bsem"] = Nobody, !["rw"] = Nobody]
  /\ UNCHANGED <<jobs, counts, signals>>

(* The job's function returns and its record is freed. *)
FinishJob(w) ==
  /\ Step(w, "run", "dec_lock")
  /\ job_p' = [job_p EXCEPT ![w] = NoJob]
  /\ UNCHANGED <<owner, sem, queue, counts, signals>>

DecLock(w) == Lock(w, "thcount", "dec_lock", "dec_cs")

(* Mutant of DecWorking: the signal is forgotten. *)
DecWorkingSilently(w) ==
  /\ Step(w, "dec_cs", "loop")
  /\ num_threads_working' = num_threads_working - 1
  /\ Unlock("thcount")
  /\ UNCHANGED <<sem, jobs, num_threads_alive, threads_all_idle, signals>>

(* Only the client ever waits on threads_all_idle: the signal empties it. *)
DecWorking(w) ==
  /\ Step(w, "dec_cs", "loop")
  /\ num_threads_working' = num_threads_working - 1
  /\ threads_all_idle' = IF num_threads_working = 1 THEN {} ELSE threads_all_idle
  /\ Unlock("thcount")
  /\ UNCHANGED <<sem, jobs, num_threads_alive, signals>>

ExitLock(w) == Lock(w, "thcount", "exit_lock", "exit_cs")

(* num_threads_alive is read without the mutex, so the unlock is a step. *)
Exit(w) ==
  /\ Step(w, "exit_cs", "exit_unlock")
  /\ num_threads_alive' = num_threads_alive - 1
  /\ UNCHANGED <<owner, sem, jobs, num_threads_working, threads_all_idle, signals>>

ExitUnlock(w) ==
  /\ Step(w, "exit_unlock", "dead")
  /\ Unlock("thcount")
  /\ UNCHANGED <<sem, jobs, counts, signals>>

(* thread_hold, entered when SIGUSR1 is delivered wherever the worker is.  *)
HandlerEnter(w) ==
  /\ w \in sigpending \ held
  /\ sigpending' = sigpending \ {w}
  /\ held' = held \cup {w}
  /\ threads_on_hold' = TRUE
  /\ UNCHANGED <<pc, owner, sem, jobs, counts, threads_keepalive>>

HandlerExit(w) ==
  /\ w \in held
  /\ ~threads_on_hold
  /\ held' = held \ {w}
  /\ UNCHANGED <<pc, owner, sem, jobs, counts,
                 threads_keepalive, threads_on_hold, sigpending>>

WorkerStep(w) ==
  \/ Boot(w) \/ BecomeAlive(w) \/ TestLoop(w)
  \/ BsemLock(w) \/ BsemTake(w) \/ BsemBlock(w) \/ BsemWake(w)
  \/ TestAgain(w) \/ IncLock(w) \/ IncWorking(w)
  \/ PullLock(w) \/ PullNone(w) \/ PullLast(w) \/ PullOne(w)
  \/ RepostLock(w) \/ Repost(w) \/ FinishJob(w)
  \/ DecLock(w) \/ DecWorking(w)
  \/ ExitLock(w) \/ Exit(w) \/ ExitUnlock(w)
  \/ HandlerExit(w)

------------------------------------------------------------------------------
(* The API, called by the client one function at a time *)

Call(op, to) == op \in ClientOps /\ Step(Client, "idle", to)

(* thpool_init: the workers are created, then the client spins until all   *)
(* of them have counted themselves.                                        *)
Spawn ==
  /\ pc[Client] = "spawn"
  /\ \E w \in Workers :
       /\ pc[w] = "unborn"
       /\ pc' = [pc EXCEPT ![w] = "start"]
  /\ UNCHANGED <<owner, sem, jobs, counts, signals>>

Spawned ==
  /\ \A w \in Workers : pc[w] # "unborn"
  /\ Step(Client, "spawn", "spin")
  /\ UNCHANGED <<owner, sem, jobs, counts, signals>>

InitDone ==
  /\ num_threads_alive = Cardinality(Workers)
  /\ Step(Client, "spin", "idle")
  /\ UNCHANGED <<owner, sem, jobs, counts, signals>>

(* thpool_add_work: malloc gives a record that nothing else uses. *)
AddWork(j) ==
  /\ \A i \in 1 .. Len(queue) : queue[i] # j
  /\ \A t \in Threads : job_p[t] # j
  /\ Call("add", "push_lock")
  /\ job_p' = [job_p EXCEPT ![Client] = j]
  /\ UNCHANGED <<owner, sem, queue, counts, signals>>

PushLock == Lock(Client, "rw", "push_lock", "push_cs")

(* Mutant of Push: the job is linked in at the front. *)
PushFront ==
  /\ Step(Client, "push_cs", "post_lock")
  /\ queue' = <<job_p[Client]>> \o queue
  /\ job_p' = [job_p EXCEPT ![Client] = NoJob]
  /\ UNCHANGED <<owner, sem, counts, signals>>

Push ==
  /\ Step(Client, "push_cs", "post_lock")
  /\ queue' = Append(queue, job_p[Client])
  /\ job_p' = [job_p EXCEPT ![Client] = NoJob]
  /\ UNCHANGED <<owner, sem, counts, signals>>

PostLock == Lock(Client, "bsem", "post_lock", "post_cs")

PushPost ==
  /\ Step(Client, "post_cs", "idle")
  /\ Post
  /\ owner' = [owner EXCEPT !["bsem"] = Nobody, !["rw"] = Nobody]
  /\ UNCHANGED <<jobs, counts, signals>>

(* thpool_wait: len is read under thcount_lock, not under rwmutex. *)
Wait ==
  /\ Call("wait", "wait_lock")
  /\ UNCHANGED <<owner, sem, jobs, counts, signals>>

WaitLock == Lock(Client, "thcount", "wait_lock", "wait_cs")

WaitBlock ==
  /\ queue # <<>> \/ num_threads_working # 0
  /\ Step(Client, "wait_cs", "wait_blocked")
  /\ threads_all_idle' = threads_all_idle \cup {Client}
  /\ Unlock("thcount")
  /\ UNCHANGED <<sem, jobs, num_threads_alive, num_threads_working, signals>>

WaitWake ==
  /\ Client \notin threads_all_idle
  /\ Lock(Client, "thcount", "wait_blocked", "wait_cs")

(* Mutant of WaitOver: an empty queue is enough. *)
WaitOverQueueOnly ==
  /\ queue = <<>>
  /\ Step(Client, "wait_cs", "wait_unlock")
  /\ UNCHANGED <<owner, sem, jobs, counts, signals>>

WaitOver ==
  /\ queue = <<>> /\ num_threads_working = 0
  /\ Step(Client, "wait_cs", "wait_unlock")
  /\ UNCHANGED <<owner, sem, jobs, counts, signals>>

WaitReturn ==
  /\ Step(Client, "wait_unlock", "idle")
  /\ Unlock("thcount")
  /\ UNCHANGED <<sem, jobs, counts, signals>>

(* thpool_pause: pthread_kill only makes the signal pending. *)
Pause ==
  /\ Call("pause", "idle")
  /\ sigpending' = Workers
  /\ UNCHANGED <<owner, sem, jobs, counts,
                 threads_keepalive, threads_on_hold, held>>

Resume ==
  /\ Call("resume", "idle")
  /\ threads_on_hold' = FALSE
  /\ UNCHANGED <<owner, sem, jobs, counts, threads_keepalive, sigpending, held>>

(* thpool_destroy *)
Destroy ==
  /\ Call("destroy", "destroy")
  /\ threads_keepalive' = FALSE
  /\ UNCHANGED <<owner, sem, jobs, counts, threads_on_hold, sigpending, held>>

DestroyPoll ==
  /\ num_threads_alive # 0
  /\ Step(Client, "destroy", "bcast_lock")
  /\ UNCHANGED <<owner, sem, jobs, counts, signals>>

BcastLock == Lock(Client, "bsem", "bcast_lock", "bcast_cs")

(* Mutant of Broadcast: everybody is woken but there is no token. *)
BroadcastEmpty ==
  /\ Step(Client, "bcast_cs", "destroy")
  /\ bsem_cond' = {}
  /\ Unlock("bsem")
  /\ UNCHANGED <<bsem_v, jobs, counts, signals>>

Broadcast ==
  /\ Step(Client, "bcast_cs", "destroy")
  /\ bsem_v' = 1
  /\ bsem_cond' = {}
  /\ Unlock("bsem")
  /\ UNCHANGED <<jobs, counts, signals>>

(* Mutant of Free: what is awaited is that no job runs. *)
FreeIdle ==
  /\ num_threads_working = 0
  /\ Step(Client, "destroy", "gone")
  /\ queue' = <<>>
  /\ bsem_v' = 0
  /\ UNCHANGED <<owner, bsem_cond, job_p, counts, signals>>

(* jobqueue_destroy and the frees: what is still queued is dropped. *)
Free ==
  /\ num_threads_alive = 0
  /\ Step(Client, "destroy", "gone")
  /\ queue' = <<>>
  /\ bsem_v' = 0
  /\ UNCHANGED <<owner, bsem_cond, job_p, counts, signals>>

(* What the client decides to do, and what it does without being asked. *)
ClientCall ==
  \/ \E j \in Jobs : AddWork(j)
  \/ Wait \/ Pause \/ Resume \/ Destroy

ClientStep ==
  \/ Spawn \/ Spawned \/ InitDone
  \/ PushLock \/ Push \/ PostLock \/ PushPost
  \/ WaitLock \/ WaitBlock \/ WaitWake \/ WaitOver \/ WaitReturn
  \/ DestroyPoll \/ BcastLock \/ Broadcast \/ Free

(* pthread_cond_wait may return although nobody signalled. *)
SpuriousWakeup(t) ==
  /\ SpuriousWakeups
  /\ t \in bsem_cond \cup threads_all_idle
  /\ bsem_cond' = bsem_cond \ {t}
  /\ threads_all_idle' = threads_all_idle \ {t}
  /\ UNCHANGED <<pc, owner, bsem_v, jobs,
                 num_threads_alive, num_threads_working, signals>>

------------------------------------------------------------------------------
Init ==
  /\ pc = [t \in Threads |-> IF t = Client THEN "spawn" ELSE "unborn"]
  /\ owner = [m \in Mutexes |-> Nobody]
  /\ bsem_v = 0 /\ bsem_cond = {}
  /\ queue = <<>>
  /\ job_p = [t \in Threads |-> NoJob]
  /\ num_threads_alive = 0
  /\ num_threads_working = 0
  /\ threads_all_idle = {}
  /\ threads_keepalive = TRUE
  /\ threads_on_hold = FALSE
  /\ sigpending = {} /\ held = {}

Next ==
  \/ \E w \in Workers : WorkerStep(w) \/ HandlerEnter(w)
  \/ ClientCall \/ ClientStep
  \/ \E t \in Threads : SpuriousWakeup(t)

Spec == Init /\ [][Next]_vars

(* Every thread that can run is scheduled, and a signal is delivered.  What *)
(* the client calls, and spurious wakeups, are not forced.                 *)
Fairness ==
  /\ \A w \in Workers : WF_vars(WorkerStep(w)) /\ WF_vars(HandlerEnter(w))
  /\ WF_vars(ClientStep)

FairSpec == Spec /\ Fairness

(* Once threads_keepalive is cleared: the poll of thpool_destroy sleeps    *)
(* for a second between two broadcasts (line 224), long enough for a       *)
(* worker to get the semaphore's mutex.                                    *)
PollFairness ==
  \A w \in Workers :
    /\ SF_vars(~threads_keepalive /\ BsemLock(w))
    /\ SF_vars(~threads_keepalive /\ BsemWake(w))
    /\ SF_vars(~threads_keepalive /\ RepostLock(w))

DestroySpec == FairSpec /\ PollFairness

------------------------------------------------------------------------------
(* Properties *)

TypeOK ==
  /\ pc \in [Threads -> WorkerPC \cup ClientPC]
  /\ \A w \in Workers : pc[w] \in WorkerPC
  /\ pc[Client] \in ClientPC
  /\ owner \in [Mutexes -> Threads \cup {Nobody}]
  /\ bsem_v \in {0, 1}
  /\ bsem_cond \subseteq Workers
  /\ queue \in Seq(Jobs)
  /\ job_p \in [Threads -> Jobs \cup {NoJob}]
  /\ num_threads_alive \in Int
  /\ num_threads_working \in Int
  /\ threads_all_idle \subseteq {Client}
  /\ threads_keepalive \in BOOLEAN
  /\ threads_on_hold \in BOOLEAN
  /\ sigpending \subseteq Workers
  /\ held \subseteq Workers

(* Each mutex is owned by exactly the thread whose program counter is in   *)
(* one of its critical sections, through every early exit, signal handler  *)
(* and re-acquisition after pthread_cond_wait.                             *)
MutexInv ==
  \A m \in Mutexes, t \in Threads : owner[m] = t <=> pc[t] \in Holding(m)

Busy  == {w \in Workers : pc[w] \in WorkingPC}
Alive == {w \in Workers : pc[w] \notin
            {"unborn", "start", "start_cs", "exit_unlock", "dead"}}

(* The two counters the client reads never drift from the workers they     *)
(* count, although every update is a separate critical section.            *)
CountInv ==
  /\ num_threads_working = Cardinality(Busy)
  /\ num_threads_alive = Cardinality(Alive)

(* A worker has a job only between the pull and the free, and the client   *)
(* only between the malloc and the push.                                   *)
JobInv ==
  /\ \A w \in Workers :
       job_p[w] # NoJob <=> pc[w] \in {"repost_lock", "repost_cs", "run"}
  /\ job_p[Client] # NoJob <=> pc[Client] \in {"push_lock", "push_cs"}

(* When thpool_wait returns, every job added before has finished: nothing  *)
(* is queued and no worker still holds one.  The two halves of the test    *)
(* in thpool_wait are read at different times from the workers' updates.   *)
WaitJoins ==
  pc[Client] = "wait_unlock" =>
    queue = <<>> /\ \A w \in Workers : job_p[w] = NoJob

(* A queued job always has somebody on the way to it: a thread about to    *)
(* post the semaphore, a worker that has taken the token, or the token     *)
(* itself together with a worker that is not asleep.  The semaphore counts *)
(* to one however many jobs are queued.                                    *)
JobIsServed ==
  queue # <<>> /\ threads_keepalive =>
    \/ pc[Client] \in {"post_lock", "post_cs"}
    \/ \E w \in Workers :
         pc[w] \in {"check", "inc_lock", "inc_cs", "pull_lock", "pull_cs",
                   "repost_lock", "repost_cs"}
    \/ bsem_v = 1 /\ bsem_cond # Workers

(* The client sleeps in thpool_wait only while a worker is still going to  *)
(* bring num_threads_working to zero, or a job will make one do so.        *)
WaiterIsSignalled ==
  Client \in threads_all_idle => queue # <<>> \/ num_threads_working > 0

(* A job is in one place: queued once, or held by one thread. *)
JobsDistinct ==
  /\ \A i, k \in 1 .. Len(queue) : queue[i] = queue[k] => i = k
  /\ \A t \in Threads, i \in 1 .. Len(queue) : job_p[t] # queue[i]
  /\ \A t, u \in Threads : job_p[t] = job_p[u] /\ job_p[t] # NoJob => t = u

Running == {job_p[w] : w \in Workers} \ {NoJob}

ClientState ==
  IF pc[Client] \in WaitPC THEN "waiting"
  ELSE IF pc[Client] = "gone" THEN "gone" ELSE "idle"

Pool == INSTANCE JobPool WITH running <- Running, client <- ClientState

(* The pool does what JobPool promises: FIFO start, each job run once,     *)
(* thpool_wait a barrier, nothing running when thpool_destroy returns.     *)
ImplementsJobPool == Pool!PoolSpec

(* Every job that has been queued is eventually taken off the queue and    *)
(* finished, for a client that does not pause the pool, unless the client  *)
(* destroys it.                                                            *)
JobsFinish ==
  \A j \in Jobs :
    j \in Pool!Queued ~>
      \/ j \notin Pool!Queued /\ \A t \in Threads : job_p[t] # j
      \/ ~threads_keepalive

(* thpool_wait returns. *)
WaitReturns == pc[Client] \in WaitPC ~> pc[Client] = "idle"

(* thpool_add_work returns. *)
AddReturns == pc[Client] = "push_lock" ~> pc[Client] = "idle"

(* thpool_destroy returns: every worker, asleep or running a job, sees     *)
(* threads_keepalive and leaves.                                           *)
DestroyReturns == pc[Client] = "destroy" ~> pc[Client] = "gone"

(* thpool_destroy polls num_threads_alive without the mutex, and frees the *)
(* pool when it reads zero: of every worker at most the unlock is left,    *)
(* wherever the workers were when threads_keepalive was cleared, and       *)
(* whatever signals stop them (thpool.c:222, :368-369).                    *)
FreedAtLastUnlock ==
  pc[Client] = "gone" => \A w \in Workers : pc[w] \in {"exit_unlock", "dead"}
==============================================================================
