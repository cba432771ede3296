---------------------------- MODULE ForestClassify ----------------------------
(***************************************************************************)
(* Forest_Classify of forest.c in CLASSIFICATION mode: the main thread     *)
(* fills the global ta, hands FOREST_NUM_THREADS tasks to the pool, waits, *)
(* adds up the private regions the tasks wrote and sorts the totals.  The  *)
(* pool is JobPool, which ThreadPool implements; task tid is job tid.      *)
(*                                                                         *)
(* What Forest_TreeClassify returns for tree i and this feature vector is  *)
(* the leaf f[i]: its normalised stats, in units of 1/Unit, per class.     *)
(***************************************************************************)
EXTENDS Integers, Sequences, FiniteSets, FiniteSetsExt

CONSTANTS
  NumThreads,   \* FOREST_NUM_THREADS
  MaxClasses,   \* FOREST_MAX_CLASSES
  Unit,         \* one whole vote: stats[j] / statsTotal = f[i][j] / Unit
  Forests       \* what the trees of a forest answer, one leaf per tree

Tids    == 0 .. NumThreads - 1
Classes == 0 .. MaxClasses - 1

ASSUME ClassifyAssumption ==
  /\ NumThreads \in Nat \ {0}
  /\ MaxClasses \in Nat \ {0}
  /\ Unit \in Nat \ {0}
  /\ Forests \subseteq Seq([Classes -> Nat])

VARIABLES
  queue, running, client,   \* Forest_thpool
  main,                     \* where the main thread is in Forest_Classify
  added,                    \* its loop variable
  rep,                      \* its result
  ta,                       \* the global taskArgs: f and skip
  res,                      \* threadResults, the region of each task
  next                      \* the loop variable of each task

pool == <<queue, running, client>>
vars == <<pool, main, added, rep, ta, res, next>>

Pool == INSTANCE JobPool WITH Jobs <- Tids

------------------------------------------------------------------------------
(* The trees that task tid visits, as a half-open interval *)

(* Mutant of Skip: rounded down. *)
SkipDown(len) == len \div NumThreads

Skip(len) == (len + 1) \div NumThreads

TStart(tid, skip) == tid * skip

TEnd(tid, skip, len) ==
  IF TStart(tid, skip) + skip > len THEN len ELSE TStart(tid, skip) + skip

(* Mutant of Cmp2D: ascending order. *)
Cmp2DUp(a, b) == IF a >= b THEN (a - b) \div Unit ELSE -((b - a) \div Unit)

(* cmp2D casts the difference of two totals to int, towards zero. *)
Cmp2D(a, b) == IF b >= a THEN (b - a) \div Unit ELSE -((a - b) \div Unit)

(* n classes from lo on *)
Windows == {w \in Classes \X (1 .. MaxClasses) : w[1] + w[2] <= MaxClasses}

LeftHalf(w)  == <<w[1], w[2] \div 2>>
RightHalf(w) == <<w[1] + w[2] \div 2, w[2] - w[2] \div 2>>

(* results[0][0] after qsort.  glibc sorts by merging halves and keeps the *)
(* left element unless the right one compares before it.                   *)
First(total) ==
  LET first[w \in Windows] ==
        IF w[2] = 1 THEN w[1]
        ELSE LET l == first[LeftHalf(w)]
                 r == first[RightHalf(w)]
             IN IF Cmp2D(total[l], total[r]) <= 0 THEN l ELSE r
  IN first[<<0, MaxClasses>>]

Totals == [c \in Classes |-> MapThenSumSet(LAMBDA t : res[t][c], Tids)]

------------------------------------------------------------------------------
Init ==
  /\ Pool!PoolInit
  /\ main = "idle"
  /\ added = 0
  /\ rep = 0
  /\ ta = [f |-> <<>>, skip |-> Skip(0)]
  /\ res = [t \in Tids |-> [c \in Classes |-> 0]]
  /\ next = [t \in Tids |-> 0]

(* Mutant of Classify: without the memset. *)
ClassifyUnset(f) ==
  /\ main = "idle"
  /\ main' = "adding"
  /\ added' = 0
  /\ ta' = [f |-> f, skip |-> Skip(Len(f))]
  /\ rep' = 0
  /\ UNCHANGED <<pool, res, next>>

(* Entry of Forest_Classify: memset, then ta for every task of this call. *)
Classify(f) ==
  /\ main = "idle"
  /\ main' = "adding"
  /\ added' = 0
  /\ ta' = [f |-> f, skip |-> Skip(Len(f))]
  /\ res' = [t \in Tids |-> [c \in Classes |-> 0]]
  /\ rep' = 0
  /\ UNCHANGED <<pool, next>>

AddTask ==
  /\ main = "adding" /\ added < NumThreads
  /\ Pool!Submit(added)
  /\ added' = added + 1
  /\ UNCHANGED <<main, rep, ta, res, next>>

WaitTasks ==
  /\ main = "adding" /\ added = NumThreads
  /\ Pool!BeginWait
  /\ main' = "waiting"
  /\ UNCHANGED <<added, rep, ta, res, next>>

(* classifierTask, on a worker *)
StartTask(t) ==
  /\ Pool!Start(t)
  /\ next' = [next EXCEPT ![t] = TStart(t, ta.skip)]
  /\ UNCHANGED <<main, added, rep, ta, res>>

(* One round of its loop: the task reads ta and adds into its own region. *)
VisitTree(t) ==
  /\ t \in running
  /\ next[t] < TEnd(t, ta.skip, Len(ta.f))
  /\ res' = [res EXCEPT ![t] =
               [c \in Classes |-> @[c] + ta.f[next[t] + 1][c]]]
  /\ next' = [next EXCEPT ![t] = @ + 1]
  /\ UNCHANGED <<pool, main, added, rep, ta>>

(* Mutant of EndTask: the loop waits for an index it never reaches. *)
EndTaskBeyond(t) ==
  /\ next[t] > TEnd(t, ta.skip, Len(ta.f))
  /\ Pool!Finish(t)
  /\ UNCHANGED <<main, added, rep, ta, res, next>>

EndTask(t) ==
  /\ next[t] >= TEnd(t, ta.skip, Len(ta.f))
  /\ Pool!Finish(t)
  /\ UNCHANGED <<main, added, rep, ta, res, next>>

(* Mutant of Reduce: without thpool_wait. *)
ReduceEarly ==
  /\ main = "waiting"
  /\ client' = "idle"
  /\ main' = "idle"
  /\ rep' = First(Totals)
  /\ UNCHANGED <<queue, running, added, ta, res, next>>

(* thpool_wait returns; the regions are added up, sorted and the head is   *)
(* the answer.                                                             *)
Reduce ==
  /\ main = "waiting"
  /\ Pool!EndWait
  /\ main' = "idle"
  /\ rep' = First(Totals)
  /\ UNCHANGED <<added, ta, res, next>>

Task(t) == StartTask(t) \/ VisitTree(t) \/ EndTask(t)

Next ==
  \/ \E f \in Forests : Classify(f)
  \/ AddTask \/ WaitTasks \/ Reduce
  \/ \E t \in Tids : Task(t)

Spec == Init /\ [][Next]_vars

(* The main thread goes on once called, and so does every task. *)
FairSpec ==
  /\ Spec
  /\ WF_vars(AddTask) /\ WF_vars(WaitTasks) /\ WF_vars(Reduce)
  /\ \A t \in Tids : WF_vars(Task(t))

------------------------------------------------------------------------------
(* Properties *)

(* What the trees say, added up one after the other *)
Votes(f) == [c \in Classes |-> MapThenSumSet(LAMBDA i : f[i][c], DOMAIN f)]

(* The stack frame of Forest_Classify, which the tasks write to, and the   *)
(* global ta, which the next call overwrites, are used by no task once the *)
(* call has returned.                                                      *)
NoTaskOutlivesCall == main = "idle" => queue = <<>> /\ running = {}

(* However the tasks interleave, the totals at the end of the call are the *)
(* sums over all trees of the forest.                                      *)
EveryTreeVotes == main = "idle" => Totals = Votes(ta.f)

(* No tree is counted twice, by one task or by two. *)
NoTreeVotesTwice == \A c \in Classes : Totals[c] <= Votes(ta.f)[c]

Whole(f) == \A i \in DOMAIN f, c \in Classes : f[i][c] % Unit = 0

(* How often a class is compared when n classes are sorted by merging *)
Rounds[n \in 1 .. MaxClasses] == IF n = 1 THEN 0 ELSE 1 + Rounds[n - n \div 2]

(* The answer is a class that no other class beats, when all votes are     *)
(* whole.  Fractions of a vote count as equal in a comparison, so with     *)
(* STATS a class may lose less than a vote each time it is compared        *)
(* (forest.c:427, :482).                                                   *)
AnswerIsMajority ==
  main = "idle" =>
    \A c \in Classes :
      LET behind == Votes(ta.f)[c] - Votes(ta.f)[rep]
      IN  IF Whole(ta.f) THEN behind <= 0
          ELSE behind <= (Unit - 1) * Rounds[MaxClasses]

(* A call of Forest_Classify returns. *)
CallReturns == main # "idle" ~> main = "idle"
==============================================================================
