# Verification of redis-ml

TLA+ models of the redis-ml module (`src/`), model-checked with TLC, with
theorems checked by TLAPS. Source references are relative to the repository's
`src/` directory.

## The system

| Component | State it keeps | Operations | Hard behaviour |
|---|---|---|---|
| Thread pool, `util/thpool.c` | job queue, binary semaphore, two thread counters, three mutexes, two condition variables, two static flags | `thpool_init`, `add_work`, `wait`, `pause`, `resume`, `destroy`; worker loop `thread_do`; signal handler `thread_hold` | threads, condition variables, asynchronous signals, shutdown by polling |
| Forest classification, `forest.c:430-494` | the global `ta`, a stack frame shared with the tasks | `Forest_Classify`, `classifierTask` | tasks run concurrently on the pool, rounding of the task ranges, cast in the comparator |
| Forest store, `redis-ml.c:32-228`, `forest.c:87-105`, `:330-349` | one forest (a list of trees) per key | `ML.FOREST.ADD`, `ML.FOREST.RUN`, `PRINT` | commands that fail after some of their steps, verbatim replication of the others |
| Forest serialisation, `forest.c:107-318`, `forest-type.c` | none | RDB save and load, AOF rewrite, free | paths packed into bits |
| Feature vectors, `feature-vec.c` | none | parse a sample, look up an attribute | none beyond data |
| Regression, `reg.c`, `regression-type.c`, `redis-ml.c:236-334` | intercept and coefficients per key | `ML.LINREG.SET/PREDICT`, `ML.LOGREG.SET/PREDICT` | argument counts |
| K-means, `kmeans.c`, `kmeans-type.c`, `redis-ml.c:610-684` | centers per key | `ML.KMEANS.SET/PREDICT` | argument counts |
| Matrices, `matrix.c`, `matrix-type.c`, `redis-ml.c:342-575` | dimensions and values per key | `ML.MATRIX.SET/GET/ADD/MULTIPLY/SCALE` | dimensions, the same key twice |
| Periodic timer, `rmutil/periodic.c` | a thread, a lock, a condition variable, an interval | `RMUtil_NewPeriodicTimer`, `SetInterval`, `Terminate` | timed wait against a signal sent without the lock |
| Heap, priority queue, vector, `rmutil/` | arrays | push, pop, top, get, put, resize | none concurrent |
| Argument parsing, strings, allocation, logging | none | conversions | none |

How they interact. `RedisModule_OnLoad` creates one pool of
`FOREST_NUM_THREADS` workers and registers the commands. Every command runs on
the main thread of Redis, one at a time; the keys are shared by all of them.
`ML.FOREST.RUN` in classification mode is the only command that uses the pool:
the main thread fills the global `ta`, adds one job per worker and blocks in
`thpool_wait`; the jobs read the forest and write to regions of an array in the
caller's stack frame. Commands that change a key call
`RedisModule_ReplicateVerbatim` when they succeed, and a replica executes them
with the same handlers.

What makes each component correct:

- Pool: no job is lost, repeated, reordered or stranded; `thpool_wait` is a
  barrier and returns; the mutexes and counters survive signals and early
  exits; `thpool_destroy` returns and leaves nobody behind.
- Classification: the answer is the majority of all trees however the tasks
  interleave, and no task outlives its call.
- Store: a tree that can be run is complete; a command changes what it says it
  changes; replica and master agree.
- Serialisation: what is saved is what is loaded.
- Regression, k-means, matrices: a prediction uses as many numbers as were set;
  a result has the dimensions of its operands and the operands are not changed.
- Timer: it stops when asked to, and only then.

## Modules

| Module | What it is |
|---|---|
| `JobPool` | abstract pool: what `thpool.h` promises to the caller |
| `ThreadPool` | the pool, step by step |
| `ThreadPoolProofs` | its inductive invariant and the safety theorems |
| `ThreadPoolRefinement` | proof that `ThreadPool` implements `JobPool` |
| `ForestClassify` | `Forest_Classify` and its tasks, on top of `JobPool` |
| `ForestClassifyProofs` | the task ranges, the barrier at the end of a call, the votes and the answer |
| `MCForestClassify` | forests for TLC |
| `ForestTree` | trees as functions from paths to nodes; `Forest_TreeAdd`, `Forest_CheckTree` |
| `ForestStore` | `ML.FOREST.ADD` and `RUN` on a master and a replica |
| `ForestStoreProofs` | complete trees, safe runs and adds, well-formed trees, agreement of the replica |
| `ForestCodec` | what `Forest_TreeSerialize` writes of a tree, what `Forest_TreeDeSerialize` makes of it |
| `ForestPersist` | `ForestStore` with reloads and full synchronisations |
| `MCForestPersist` | commands for TLC, in sessions: few on two trees, or deep ones on one |
| `ForestNode` | the constructors of nodes, `Forest_NewNumericalNode`, `NewCategoricalNode`, `NewLeaf` |
| `Sample` | the data item of `ML.FOREST.RUN`, its walk down a tree, the regression of a forest |
| `Numbers` | what `matrix.c`, `reg.c` and `kmeans.c` compute, with memory nobody wrote |
| `KeySpace` | the commands on matrices, regressions, k-means models and samples; replica, RDB files |
| `KeySpaceProofs` | its types and every property of the run `keyspace` |
| `MCKeySpace` | commands and forests for TLC |
| `FoldTheorems` | induction; recursive functions and sums over finite sets exist, and what they are |
| `PeriodicTimer` | the loop of a timer and the program that calls it |
| `PeriodicTimerProofs` | its types, the time of a callback, the use of a freed timer |
| `MCPeriodicTimer` | intervals for TLC |
| `PriorityBag` | abstract priority queue: a bag that gives back a greatest element |
| `Heap` | `vector.c` and `heap.c` as operators |
| `PriorityQueue` | a priority queue, its vector and the program that uses both |
| `PriorityQueueProofs` | heap order, and that the queue implements `PriorityBag` |
| `MCPriorityQueue` | elements for TLC |

`ForestClassify` is written against `JobPool`, which `ThreadPool` is proved to
implement: what is checked there holds with the real pool underneath.
`ForestStore` and `ForestCodec` use `ForestTree`; `ForestPersist` puts the two
together. `KeySpace` uses `Numbers` for what the models and matrices compute and
`Sample` for what `ML.FOREST.RUN` makes of its data item; its forests do not
change, because `ForestStore` has the commands that change them, and both have
the same stream and replica. `PriorityQueue` uses `Heap` and implements
`PriorityBag`.

Definitions whose comment calls them a mutant are not part of a
specification. Each is an operation with one plausible mistake; replacing the
operation by it breaks the property that `PROJECT.json` names, which shows
that the property depends on that code.

### ThreadPool

Variables carry the names of the C fields. `pc[t]` is where a thread is: a
name ending in `_lock` is a thread about to lock a mutex, one ending in `_cs`
a thread inside the critical section. Locking, the critical section with its
unlock, and every read of a flag outside a mutex are separate steps. A mutex
that one critical section takes inside another (`rwmutex`, then the
semaphore's) gives two nested program counters.

| Code | Actions |
|---|---|
| `thread_do` start, `:330` | `Boot`, `BecomeAlive` |
| `while (threads_keepalive)`, `if (threads_keepalive)` | `TestLoop`, `TestAgain` |
| `bsem_wait` | `BsemLock`, `BsemTake`, `BsemBlock`, `BsemWake` |
| `num_threads_working++`, `--` and signal | `IncLock`, `IncWorking`, `DecLock`, `DecWorking` |
| `jobqueue_pull` | `PullLock`, then `PullNone`, `PullLast`, or `PullOne` with `RepostLock`, `Repost` |
| the job | `FinishJob` |
| `thread_do` end, `:367` | `ExitLock`, `Exit`, `ExitUnlock` |
| `thread_hold` | `HandlerEnter`, `HandlerExit`; no other step of that worker between them |
| `thpool_init` | `Spawn`, `Spawned`, `InitDone` |
| `thpool_add_work`, `jobqueue_push` | `AddWork`, `PushLock`, `Push`, `PostLock`, `PushPost` |
| `thpool_wait` | `Wait`, `WaitLock`, `WaitBlock`, `WaitWake`, `WaitOver`, `WaitReturn` |
| `thpool_pause`, `thpool_resume` | `Pause`, `Resume` |
| `thpool_destroy` | `Destroy`, `DestroyPoll`, `BcastLock`, `Broadcast`, `Free` |
| `pthread_cond_wait` returning unasked | `SpuriousWakeup` |

A condition variable is the set of threads blocked on it. A signal removes one
of them, chosen freely; a thread that is no longer in the set must lock the
mutex again and test its condition again, as in the code's loops. There is one
client thread, because Redis calls the pool from its main thread only.

Abstracted: what a job does (it ends, `FinishJob`), failing allocations, the
one-second first phase of `thpool_destroy` (it does what the second phase
does), a second pool.

### ForestClassify

`Classify(f)` is the entry of `Forest_Classify` with a forest in which the
leaf that each tree gives for the sample is already known: `f[i]` is its
normalised stats, in units of `1/Unit`. `AddTask`, `WaitTasks` and `Reduce` are
the loop of `thpool_add_work`, the call of `thpool_wait` and what follows it.
`StartTask`, `VisitTree` and `EndTask` are `classifierTask`, one tree per step,
so that the tasks interleave. `First` is the head after `qsort`: the C
comparator is not an order, so the answer depends on the algorithm, and `First`
follows glibc's merge sort. The leaves of `MCForestClassify` are made by the
constructors of `ForestNode`, with `STATS` and without. Regression mode, which
runs on the main thread alone, is `Regression` in `Sample`.

`AnswerIsMajority` has two cases. When every total is a whole number of votes
the answer is an exact majority. With `STATS` totals have fractions, which the
comparator's cast to `int` drops: classes that differ by less than one vote
compare as equal, and a class may lose that much in each round of the merge
sort. The property bounds the loss: in each round less than one vote, that is at
most `Unit - 1` units.

### ForestTree and ForestStore

A tree is a function from paths (sequences of `"l"` and `"r"`) to the kind of
node there: a leaf, or a splitter on a number, on categories, or on the single
category 0 (the serialisation makes one of the other). A path outside its domain
is a NULL pointer. What is compared with what, and the votes, do not matter to
the properties. `CanAdd` and `TreeAdd` are the two outcomes of
`Forest_TreeAdd`, which walks through leaves too and overwrites what it finds
at the end of the path; `CheckTree` is `Forest_CheckTree`; `Ends` are the
places where `Forest_TreeClassify` can stop, a leaf or a NULL.

The ADD handler is cut where it can fail: `Start`, `Refuse` (type, path, node
type), `ReadUnsetStats`, `OpenKey` (the forest is created here), `TidTooLarge`,
`NewTree` or `OldTree`, `AddNode` for each node, `AddFails`,
`FollowWildRoot`, `DeleteForest`, `ReplyOK`. Two reads of memory that nobody
set are choices: the root of a new `Forest_Tree` is NULL or wild, and
`hasStats` after a trailing plain LEAF is harmless or followed; following it
ends the server's steps (`up`). Server `"replica"` takes its commands from
`stream`, in order, and gives them to the same actions.

`torn` and `silent` are history variables: keys that an abandoned command left
half changed, and keys that the master changed without replicating it. They do
not influence any step.

### ForestCodec and ForestPersist

`Serialize` follows the recursion of `Forest_TreeSerialize`: the buffer grows
by a record per node, in preorder, stops at a leaf, and is dropped at a NULL,
whose return value 0 the caller takes for the length so far. `Char` is the char
in which a node's path is shifted together: it keeps the last `PathBits` letters
(8 in the code). `Deserialize` gives the set of trees that reading a buffer may
build: a letter that the char did not hold is read from memory nobody wrote, so
it can be either; a node whose parent is missing is not added, as in the code,
which ignores the result of `Forest_TreeAdd`. `Decoded` is what becomes of a
splitter: its categories are an array of doubles that is copied as if it were a
string, which for numbers with few binary digits is the empty one, and the empty
string is read as category 0.

`ForestPersist` adds three actions to `ForestStore`, between commands: `Reload`
(a server saves its keys and loads them, as in a restart after a shutdown or
`DEBUG RELOAD`), `ReloadWild` (the root of an allocated tree that no record
sets is followed) and `FullSync` (a replica, running or crashed, loads what the
master saves for it; the stream starts anew). The history variables take note
of what the format cannot hold: `torn` of keys with trees deeper than
`PathBits`, `silent` of keys with trees that are too deep, incomplete, split on
categories or have nodes below a leaf. The last are lost without being missed by
a walk, but a later command that walks through them fails on the server that
has lost them only. Without that note `ReplicaAgrees` is violated.

### Numbers, Sample and KeySpace

A handler on matrices, regressions or k-means models runs to its end on the main
thread. It is an operator from a database and a command to a database and a
reply: `LinRegSet`, `KmeansSet`, `MatrixSet`, `MatrixMultiply`, `MatrixAdd`,
`MatrixScale`, with the tests in the order of the code. An action per command
(`LinRegSetCommand`, ...) executes it on the master and sends it to the replica
when it succeeded; `Replicate` gives it to the same operator. Commands that only
read are no steps: their replies (`MatrixGet`, `LinRegPredictCommand`,
`LogRegPredictCommand`, `KmeansPredictCommand`, `ForestRun`) are operators that
the properties apply in every state. `Reload` and `FullSync` use the RDB
callbacks of each type, modelled as what they write and read in sequence.

- Numbers are integers. `Junk` is a number read from memory that nobody wrote;
  what is computed from it is `Junk`. `Bad` is an argument that does not parse:
  `RMUtil_ParseArgs` then leaves its target alone and no handler looks at its
  result. `Realloc` keeps what fits of an old array, so that old numbers come
  back where new ones are missing.
- `ML.LINREG.SET` stores `argc - 2` coefficients, one more than there are: the
  last is what `realloc` left. `ML.LOGREG.SET` is registered
  with the handler of `ML.LINREG.SET` (`redis-ml.c:720`), so a logistic model is a
  linear one; its prediction is a function of the linear prediction.
- The dimensions of `ML.MATRIX.SET` are any integers. They are stored before they
  are looked at, so a refused `ML.MATRIX.SET m -2 -2` leaves four cells to be
  counted and the array, or none, that was there before. `Backed` says of a matrix
  that the cells its loops count are there.
- A loop that leaves its array is the outcome `Stray` of a handler, and
  `GoesAstray` of a command that reads: surplus arguments, which are all written,
  cells that are counted and not there, operands that a product in place has made
  too small. Nothing is known of a server from then on: `CommandCrash` ends its
  steps (`up`). `SaveCrash` is the same for a file of such a matrix; a replica
  comes back by `FullSync`.
- `ML.MATRIX.MULTIPLY` and `ADD` resize the target before they read the operands,
  which may be the same record. A sum in place is exact. A product in place reads
  operands of dimensions that were not compared, and cells it has written: its
  values are `Junk` if it stays in its arrays. `DgemmRefuses` are the parameters
  that `cblas_dgemm` refuses, such as the leading dimension 0 of an inner dimension
  of zero: some implementations then end the process (`DgemmMayExit`), others leave
  the target as `realloc` left it, and the reply is OK.
- `k` and `dimensions` of `ML.KMEANS.SET` are `int`s filled through pointers to
  `long long` (`redis-ml.c:621`). In the frame layout that the Makefile's `-O2`
  gives, the second write covers what the first one spilled, and both survive;
  unoptimised code may lay them out so that `k` becomes 0, and refuse every
  command. The model takes the optimised layout.
- `Text` is a text and the number that `atof` reads from it. An attribute whose
  number is from 1 to `MaxFields - 1` selects a cell of an array, others are kept in
  a list by their text and searched from its start. Of values and of categories
  only the number is kept, so that `male` and `female` are the same. An empty data
  item is not given.
- Clients give dimensions that parse, whose product is below the overflow, and do
  not delete keys.

History: `asked` has the arguments of each key's last `ML.LINREG.SET`; `silent`
the keys on which master and replica may differ, after a refused
`ML.MATRIX.SET` that changed its key all the same (`redis-ml.c:368`), a file that
did not hold the array of a matrix without cells, or an operation on such a key.

What the properties do not say, because it is not so, is one run's subject:
`SomethingAsDocumented` joins three claims of `commands.md` by "or", so that the
state that refutes it refutes each of them, `PredictsWhatWasSet`, `ProductsAreSet`
and `CategoriesAreStrings`.

### PeriodicTimer

| Code | Actions |
|---|---|
| `clock_gettime`, `periodic.c:34` | `ReadClock` |
| the read of `tm->interval`, `:35` | `ReadSec`, `ReadNsec` |
| `pthread_cond_timedwait` | `TimedOut`, `Refused` (a time that is not normalised), `SpuriousWakeup`, or a `Terminate` that meets it |
| the callback | `Callback` |
| end of the loop | `OnTerm`, `Free` |
| `RMUtilTimer_SetInterval` | `SetInterval`, then a `Store` of each field in either order |
| `RMUtilTimer_Terminate` | `Terminate` |
| the passing of time | `Tick` |

Only the loop locks `tm->lock`, so it never waits for it and the lock needs no
variable: the interval is copied, and the signal sent, without it. A call from
the callback is a step of the program at `pc = "callback"`. The program stops a
timer once and does not use it afterwards. `asked` are the intervals that the loop
may have read parts of since it read the clock, and `armed` those that were set by
then: `CallbackAtInterval` is about the first, and holds; `NewIntervalAfterTrigger`,
which is what the header promises, is about the second, and does not. The clock's seconds start again from 0
at each reading, since only differences matter.

### Heap, PriorityQueue and PriorityBag

`Heap` has the vector with the cells behind its last element, which keep what
was there, and the sifting as the moving of a hole. `PriorityQueue` has one
action per function; after `VectorPut` or `VectorPush` the vector is no heap until
`MakeHeap`. Putting an element beyond the end makes the cells in between part of
the vector. A program does not resize below the number of elements, and heaps
start at cell 0, as in every call of `heap.c`. The refinement maps the vector to
the bag of its elements.

## Runs

Every property that a run checks is stated above its definition.

| Run | Instance | Shows |
|---|---|---|
| `pool` | 2 workers, 3 jobs, the whole API, spurious wakeups | mutexes, counters, jobs and the semaphore stay consistent (eight invariants), the pool is freed no earlier than before the last worker's last unlock, and `ThreadPool` implements `JobPool`, when workers are stopped by signals and the pool is destroyed at any moment |
| `pool_live` | 2 workers, 2 jobs, add, wait, destroy | every job is finished, every call returns |
| `classify` | 2 threads, 3 classes, all forests of up to 4 trees, and of up to 3 with `STATS` | all trees vote once, the answer is a majority or less than a vote per round from one, the call returns |
| `persist` | two sessions of commands, of five node lists on two trees and two keys, and of six node lists on one tree of three levels with paths of two letters; master and replica, reloads and full synchronisations in both | well-formed and complete trees, safe runs and adds, agreement of the two servers; what fits the format comes back |
| `keyspace` | 5 keys, of which 2 hold forests, up to 4 commands of 30 that write, failed ones included, replica, reloads, full synchronisations, crashes | lengths fit arrays and handlers stay in them but for the cases named; servers and files agree; refused commands change nothing but in one case; sums, products, nearest centres and walks of samples against their definitions |
| `timer` | 3 intervals, one of them refused now and then, spurious wakeups | callbacks come at the sum of the clock and of an interval, carries included; the timer ticks until it is told to stop; it is freed under the program only after a spurious wakeup or a negative interval |
| `queue` | 3 elements, several times each, up to 6 of them, two capacities | heap order, and nothing lost, made up or popped out of order |

Runs that show a difference between the code and what the repository says of
it:

| Run | Violated | What happens |
|---|---|---|
| `pool_paused_add` | `AddReturns` | a worker paused inside a critical section blocks `thpool_add_work` |
| `classify_lost_tree` | `EveryTreeVotes` | with three threads or more the last trees are not visited |
| `keyspace_documented` | `SomethingAsDocumented` | one model and two matrices: a linear prediction adds a coefficient that was never set times a feature that was never given; a product stored in an operand is not the product; a splitter for one text takes another |
| `timer_lost` | `TerminateStops` | a stop that arrives while the loop is not waiting is lost |
| `timer_interval` | `NewIntervalAfterTrigger` | an interval that is set after the clock has been read moves the next trigger, whole or by one of its fields |

Behaviour that the models contain and that may surprise a reader of the code,
although the repository promises nothing else: `thpool_destroy` frees the pool
while the last worker may still have to unlock a mutex in it
(`FreedAtLastUnlock` says that this is all it may still do); a
`ML.FOREST.ADD` that leaves its tree incomplete deletes the whole forest
(`DeleteForest`); one that fails half way leaves NULL children in its tree
(`torn`); fractions of a vote are cut off (`AnswerIsMajority`); a negative
interval ends a timer now and then (`Refused`); a refused `ML.MATRIX.SET` changes
its key (`ErrorsChangeNothing`), and two negative dimensions in it make the
handlers that read it leave its array (`HandlersStayInBounds`).

### Bounds, and why they are enough

- Two workers and two or three jobs: the pool's cases are an empty queue, one
  job and several (`jobqueue_pull`), a worker asleep and one awake, the token
  taken by the one or the other; signals and shutdown act on the workers
  independently. The theorems hold for any number.
- Jobs may be added again when they are done: `Jobs` bounds how many exist at
  one time, not how many are ever added.
- Classification: up to four trees on two threads contain an exact quotient,
  one rounded up by the +1 and an empty range; halves (`Unit = 2`) are the
  coarsest fractions. The properties are proved for forests of any length and
  any number of classes, those that three threads do not break for any number of
  threads. The violation run has three threads, the fewest for which the
  quotient is rounded down too far.
- Store and persistence: a session bounds what clients send, not how often. With
  few commands two trees and two keys are built, torn, deleted and refused in any
  order; with deep ones a tree grows to depth three by grafts and below leaves.
  `PathBits = 2` and trees of depth three stand for the code's 8 and deeper trees.
  `MaxStream` bounds how far the replica falls behind: a client's command waits
  until the stream has room; the master still executes a command while an earlier
  one is being replicated. A server saves and loads in one step: a file older than
  the last command is not modelled.
- Keyspace: `MaxCommands = 4` commands that change the master are enough to set a
  long model, a short one and a longer one on the same key, or two matrices and
  two operations on them; the matrices are square, oblong, empty, negative, and given
  too few and too many values; three keys allow every way of naming one twice.
  `MaxFields = 3` gives two numbered attributes, the others are names.
- Timer: with `Nano = 2` every carry and every refused sum occurs; `MaxSec` lets
  each wait end (`TimerAssumption`). Three of the properties are proved for any
  resolution and any intervals.
- Queue: six elements make three levels, with and without a right child; the
  capacities make the vector grow from nothing and by doubling.
- `CHECK_DEADLOCK FALSE` where the system may stop: after `thpool_destroy`,
  while paused, when a server has followed a wild pointer or left an array, when a timer has been
  freed; in `keyspace` and `queue` when the bounds are reached.

### Fairness

`Fairness` of `ThreadPool` is weak fairness of each worker's steps, of the
delivery of a signal and of the steps that the client makes inside an API call:
the operating system schedules every thread that can run. What the client calls
next is its own choice, and spurious wakeups are not forced.
`DestroySpec` adds, from the moment `threads_keepalive` is cleared, strong
fairness of a worker's locking of the semaphore's mutex. `thpool_destroy` takes
that mutex again and again, so weak fairness would let it win for ever; in the
code it sleeps for a second between two rounds (`thpool.c:224`). Before that
weak fairness is enough, for `JobsFinish`, `WaitReturns` and `AddReturns` too.
`FairSpec` of `ForestClassify` is weak fairness of the main
thread inside a call and of each task; that a job which has been added is
started and that a wait returns is what `pool_live` shows of the pool.
`FairSpec` of `PeriodicTimer` is weak fairness of the loop's steps, of the clock
and of a copy that `SetInterval` has begun: the thread is scheduled, time passes.
The program need not call anything and no spurious wakeup is forced.
`ForestStore`, `ForestPersist`, `KeySpace` and `PriorityQueue` are checked for
safety only: nothing in them waits.

## What is proved

All theorems hold for arbitrary constants, under the assumptions named in the
modules: `PoolAssumption` (finitely many workers, distinct from the client),
`ClassifyAssumption` (positive numbers of threads, classes and units),
`StoreAssumption` (commands are non-empty lists of paths and node arguments),
`KeySpaceAssumption` (commands have the arguments that their handler reads, each
an integer or one that does not parse; dimensions are integers),
`ForestAssumption` (data items are sequences of pairs of texts, from each of which
an integer is read; the trees of the forests that `KeySpace` starts with are complete, which
`ForestStore` shows of all forests but those that an abandoned command has torn),
`TimerAssumption` (intervals have at most a second's worth of nanoseconds, which
may be negative), `HeapAssumption` (elements compare by an integer key, so that
`cmp` is an order; one is all zeros) and `QueueAssumption` (capacities are
natural numbers).

`FoldTheorems`. The library's induction rules take a predicate as a parameter,
which the provers cannot instantiate. Its theorem `WFMin`, that a well-founded
relation has minimal elements in every non-empty set, has none: applied to the
counterexamples it gives `Induction` and `StrongInduction` over a set of numbers.
A recursive function in TLA+ is a choice among the functions that satisfy an
equation, and nothing can be said of it before one is known to exist. `FoldExists`
and `SumExists` show that for the functions behind the folds of the community
modules, by induction; `FoldType`, `FoldGoes` and the lemmas on `Total` say what
they compute. `RecursionExists` shows it for a function that calls itself once, for
an argument of smaller rank.

`ThreadPoolProofs`. The inductive invariant has four parts: the types; program
counter against mutex owner; program counter against `job_p` and the two
counters; and where a job can be. None of the properties is inductive alone.
`WaitJoins`, for example, needs `num_threads_working` to be the number of
workers between `IncWorking` and `DecWorking`, which needs the counter to be
changed by one thread at a time, which is `MutexInv`. `JobIsServed` needs that
a worker which is asleep is in `bsem_cond`, and that a worker which has seen
`threads_keepalive` false is there only after `thpool_destroy`; it assumes that
there is a worker at all. `FreedAtLastUnlock` needs that every worker has counted itself
before `thpool_init` returns, so that the poll's zero misses none.
Theorems: `TypeCorrect`, `MutualExclusion`, `CountsAgree`, `JobsHeld`,
`JobsStayDistinct`, `WaitIsBarrier`, `WaiterNotForgotten`, `JobsServed`,
`FreedLate`.

`ThreadPoolRefinement`. With `running` the jobs that workers hold and `client`
read off the client's program counter, each step of the pool is a step of
`JobPool` or leaves its variables alone: `ThreadPoolImplementsJobPool`.

`ForestClassifyProofs`. `TasksJoined`: the pool is empty between calls, because
only a call in progress submits and it returns through `EndWait`.
`TasksDisjoint` and `FewThreadsCover` are about the ranges: no two tasks share
a tree for any number of threads; with one or two threads every tree has a
task. With three that is false, and `classify_lost_tree` shows it.
`SumInv` says that the regions add up, class by class, to the votes of the trees
visited so far, which are those below `next[t]` of each range; it needs `TaskInv`
(a task is queued or running or done once, and its range is that of this
call). It gives `NoTreeTwice` for any number of threads. A call returns when no
task is left, so with ranges that cover the forest the sum is that of all trees:
`EveryTreeCounts`. `MajorityAnswers` adds an induction over the windows of the
merge sort: each comparison loses at most what the cast cuts off. Both assume one
or two threads, because they are false with three; the module's default is one
(`redis-ml.c:698`).

`ForestStoreProofs`. The inductive invariant says of each server: while a
command runs, its key is as it was when the command began, or all of its trees
but the one being added to are complete; other keys are complete unless torn.
It gives `CompleteTrees`, and with the lemma that a checked tree has a leaf at
every end, `RunsSafely`. `TypeCorrect`: `Forest_TreeAdd` keeps every node's
parent, because it takes away whole subtrees and adds only below a node that is
there; a key whose command has come to its tree is a forest. `ReplicaFollows`:
`Succeeds(c, a, b)` says that the command `c` makes the value `b` of the value `a`
of its key, round by round; the rounds are determined by `a` (`SameRounds`). The
invariant `AgreeInv` says of each key that is not silent that the commands of the
stream, one after the other, succeed on the value that the replica has, or will
have when its command is done, and lead to the value that the master has, or had
when its command began. `ProgressInv` says how far a handler has come. So the
replica cannot fail where the master did not, and it ends with what the master
has. `AddsSafely`: a root that nobody set is there only while the command that
appended its tree is at its first node (`WildInv`).

`KeySpaceProofs`. `TypesHold`: each key holds a value of its type with arrays of
the recorded lengths, where those are positive; one lemma per handler says that it
is refused or stores such a value, which also gives `LengthsCorrect` and
`ErrorsHarmless`. `HandlersInBounds`: a matrix that is not `Backed` has two negative
dimensions (`NotBacked`), a product whose operands are too small has been resized
(`ProductAstray`), and a model has as many coefficients as numbers were asked for
(`CoefficientsStay`). `ArithmeticExact` reduces a cell to its row and column (`DivMod`, `RowOf`).
`CoefficientsStay` needs that the history `asked` follows the stored arguments
through `realloc`. `FilesKeep` is about the RDB callbacks of each type.
`ReplicaFollows`: the invariant `ReplicaInv` gives, for every command of the
stream, a database the master had and the keys that may differ by then; a command
whose operand may differ makes its target differ, and these keys end up in
`silent`. `PredictsNearest` follows the fold over the centers with `FoldGoes`.
`RunsFollowSample`: the walk exists because the tree is finite and each turn goes
one deeper (`WalkExists`). The longest path that it comes through is a leaf,
because below a splitter there is another (`WalkEnds`), and by induction over the
path of any leaf whose branches the item satisfies, the walk ends there
(`OnlyLeaf`). What a splitter compares is what the item gives: `LastOf` and
`FirstOf` say so after each pair (`VecHolds`, `ValueRead`). A leaf may have nodes
below it, put there by an `ADD` that walked through it; `Reached` leaves them out.

`PeriodicTimerProofs`. The lemma `AddIsSum` says that `timespecAdd` keeps the
value of the sum, and `SumIsValid` that its result is normalised unless the
interval's nanoseconds are negative. `TimerTypeCorrect` is the type invariant.
`EndInv` ties the end of the loop to its reason: it has ended because of a
signal, a spurious wakeup or a refused time, and was refused a time only for
negative nanoseconds; after a signal the program calls nothing. It gives
`TimerOutlivesItsUse`. `CallbackInv` says which intervals each field of `seen`
and of a half-written `interval` may come from; with `AddIsSum` it gives
`CallbackOnTime`.

`PriorityQueueProofs`. Sifting up or down is the moving of a hole: its index is
the rank, so `RecursionExists` gives the function, and strong induction over the
rank what it does. `LiftedHeap` and `SunkHeap` are the induction hypotheses: besides
the order on the hole's side of the vector they must say that no other cell has
got a smaller (when sifting down, a greater) element than before, or the order
between the hole and the other child would be lost. `HeapifyOrders` follows
the fold of `__make_heap` with `FoldGoes`: after each step the cells from that one on are
in order. `HeapInv`, a vector of well-typed cells that is a heap when the program
has kept it one, is inductive, and with `FirstIsGreatest` gives `QueueInOrder`.
For `QueueIsBag`, the refinement of `PriorityBag`, elements are counted: a move of
the hole keeps every count (`HoleMoves`), and each function of the vector adds or
takes one (`PushAdds`, `PopRemoves`, `PutChanges`).

Model-checked only: liveness (`JobsFinish`, `WaitReturns`, `AddReturns`,
`DestroyReturns`, `CallReturns`, `TicksUntilTold`), which the prover does not
do, and `ForestPersist`, because `ForestCodec` is made of RECURSIVE operators, for
which the prover has no backend.

## What is not modelled, and what comes next

In this order:

1. `ForestPersist`: a file that is older than the last commands. The AOF rewrite
   of a forest writes nothing (`forest-type.c:38`), those of regressions and
   k-means are empty, and that of a matrix uses a format letter that the module
   API does not have: what Redis makes of it is outside of this repository.
2. Two pools that share the static flags of `thpool.c`; a pool of no workers; a
   history of pause and resume, for a signal delivered after `thpool_resume`.
3. `FOREST_NUM_THREADS` and the other `int`s that are filled through pointers to
   `long long`: their neighbours in memory depend on the build.

Left out for good: the freeing of forests, matrices and models when a key is
deleted (no handler keeps a reference across commands), RDB files of older
encodings, `ML.FOREST.TEST` and `ML.MATRIX.TEST`, the printing of forests and
matrices, `MatrixUpdateCommand` (registered under no name), `sds.c`, `strings.c`,
`alloc.c`, logging and argument conversion (no protocol, no shared state), the
code behind `FOREST_USE_FAST_TREE` (compiled out), the tree generator.
