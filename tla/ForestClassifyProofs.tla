------------------------- MODULE ForestClassifyProofs -------------------------
(***************************************************************************)
(* How Forest_Classify divides the trees among the tasks, for every number *)
(* of threads and trees, and the barrier at the end of a call; that each   *)
(* tree votes once, and all of them with one or two threads, however the   *)
(* tasks interleave; and how near to a majority the answer is.             *)
(***************************************************************************)
EXTENDS ForestClassify, FoldTheorems

(* Multiplication by a natural number is monotonic. *)
LEMMA TimesMonotonic ==
  ASSUME NEW a \in Nat, NEW b \in Nat, NEW k \in Nat, a <= b
  PROVE  a * k <= b * k
<1>1. PICK d \in Nat : b = a + d
  <2>1. b - a \in Nat /\ b = a + (b - a)
    OBVIOUS
  <2>2. QED
    BY <2>1
<1>2. b * k = a * k + d * k
  BY <1>1
<1>3. a * k \in Nat /\ d * k \in Nat
  BY <1>1
<1>4. QED
  BY <1>2, <1>3

(* classifierTask visits skip trees at most, and none beyond the forest.   *)
LEMMA TaskBounds ==
  ASSUME NEW tid \in Nat, NEW skip \in Nat, NEW len \in Nat
  PROVE  /\ TStart(tid, skip) \in Nat
         /\ TEnd(tid, skip, len) <= len
         /\ TEnd(tid, skip, len) <= (tid + 1) * skip
<1>1. tid * skip \in Nat /\ (tid + 1) * skip = tid * skip + skip
  OBVIOUS
<1>2. QED
  BY <1>1 DEF TStart, TEnd

(* No tree is visited by two tasks, whatever the number of threads, the    *)
(* value of ta.skip and the length of the forest.                          *)
THEOREM TasksDisjoint ==
  ASSUME NEW t \in Nat, NEW u \in Nat, t < u,
         NEW skip \in Nat, NEW len \in Nat
  PROVE  TEnd(t, skip, len) <= TStart(u, skip)
<1>1. (t + 1) * skip <= u * skip
  BY TimesMonotonic
<1>2. TEnd(t, skip, len) <= (t + 1) * skip
  BY TaskBounds
<1>3. /\ (t + 1) * skip \in Nat /\ u * skip \in Nat
      /\ TEnd(t, skip, len) \in Int
  BY TaskBounds DEF TStart, TEnd
<1>4. QED
  BY <1>1, <1>2, <1>3 DEF TStart

(* With one or two threads the tasks together visit every tree.  (With     *)
(* three they do not: run classify_lost_tree.)                                      *)
THEOREM FewThreadsCover ==
  ASSUME NumThreads \in {1, 2}, NEW len \in Nat, NEW i \in 0 .. len - 1
  PROVE  \E t \in Tids : /\ TStart(t, Skip(len)) <= i
                         /\ i < TEnd(t, Skip(len), len)
<1> DEFINE skip == Skip(len)
<1>1. CASE NumThreads = 1
  <2>1. skip = len + 1 /\ 0 \in Tids
    BY <1>1 DEF Skip, Tids
  <2>2. TStart(0, skip) = 0 /\ TEnd(0, skip, len) = len
    BY <2>1 DEF TStart, TEnd
  <2>3. QED
    BY <2>1, <2>2
<1>2. CASE NumThreads = 2
  <2>1. skip \in Nat /\ len <= skip + skip /\ 0 \in Tids /\ 1 \in Tids
    BY <1>2 DEF Skip, Tids
  <2>2. TStart(0, skip) = 0 /\ TStart(1, skip) = skip
    BY <2>1 DEF TStart
  <2>3. TEnd(1, skip, len) = len
    <3>1. CASE skip + skip > len
      BY <2>1, <2>2, <3>1 DEF TEnd
    <3>2. CASE skip + skip = len
      BY <2>1, <2>2, <3>2 DEF TEnd
    <3>3. QED
      BY <2>1, <3>1, <3>2
  <2>4. CASE i < skip
    <3>1. i < TEnd(0, skip, len)
      BY <2>1, <2>2, <2>4 DEF TEnd
    <3>2. QED
      BY <2>1, <2>2, <3>1
  <2>5. CASE skip <= i
    BY <2>1, <2>2, <2>3, <2>5
  <2>6. QED
    BY <2>1, <2>4, <2>5
<1>3. QED
  BY <1>1, <1>2

------------------------------------------------------------------------------
(* The pool is empty between calls, and the main thread is inside          *)
(* thpool_wait exactly when the pool says so.                              *)
CallInv ==
  /\ main \in {"idle", "adding", "waiting"}
  /\ client = IF main = "waiting" THEN "waiting" ELSE "idle"
  /\ NoTaskOutlivesCall

(* The pool is created empty. *)
LEMMA CallInit == Init => CallInv
BY DEF Init, CallInv, NoTaskOutlivesCall, Pool!PoolInit

(* Only a call in progress submits tasks, and it returns through EndWait.  *)
LEMMA CallStep == CallInv /\ [Next]_vars => CallInv'
<1> SUFFICES ASSUME CallInv, [Next]_vars
             PROVE  CallInv'
  OBVIOUS
<1> USE DEF CallInv, NoTaskOutlivesCall, vars, pool
<1>1. ASSUME NEW f \in Forests, Classify(f) PROVE CallInv'
  BY <1>1 DEF Classify
<1>2. CASE AddTask
  BY <1>2 DEF AddTask, Pool!Submit
<1>3. CASE WaitTasks
  BY <1>3 DEF WaitTasks, Pool!BeginWait
<1>4. CASE Reduce
  BY <1>4 DEF Reduce, Pool!EndWait
<1>5. ASSUME NEW t \in Tids, StartTask(t) PROVE CallInv'
  BY <1>5 DEF StartTask, Pool!Start
<1>6. ASSUME NEW t \in Tids, VisitTree(t) PROVE CallInv'
  BY <1>6 DEF VisitTree
<1>7. ASSUME NEW t \in Tids, EndTask(t) PROVE CallInv'
  BY <1>7 DEF EndTask, Pool!Finish
<1>8. CASE UNCHANGED vars
  BY <1>8
<1>9. QED
  BY <1>1, <1>2, <1>3, <1>4, <1>5, <1>6, <1>7, <1>8 DEF Next, Task

(* For every number of threads and every forest, no task is queued or      *)
(* running once Forest_Classify has returned.                              *)
THEOREM TasksJoined == Spec => []NoTaskOutlivesCall
<1>1. CallInv => NoTaskOutlivesCall
  BY DEF CallInv
<1>2. QED
  BY <1>1, CallInit, CallStep, PTL DEF Spec
------------------------------------------------------------------------------
(* Sums of a class over tasks or over trees *)

Column(r, c, S) == [x \in S |-> r[x][c]]

ColumnSum(r, c, S) == MapThenSumSet(LAMBDA x : r[x][c], S)

(* The sum of a class over the tasks, as Totals computes it.               *)
LEMMA ColumnTotal ==
  ASSUME NEW S, IsFiniteSet(S), NEW r, NEW c, \A x \in S : r[x][c] \in Int
  PROVE  ColumnSum(r, c, S) = Total(Column(r, c, S), S)
<1> DEFINE ff == Column(r, c, S)
           Eqn(h) == h = [s \in SUBSET S |->
                            IF s = {} THEN 0
                            ELSE r[CHOOSE y \in s : TRUE][c] + h[s \ {CHOOSE y \in s : TRUE}]]
           k == CHOOSE h : Eqn(h)
<1>1. \A s \in SUBSET S : s # {} => /\ (CHOOSE y \in s : TRUE) \in S
                                    /\ (CHOOSE y \in s : TRUE) \in s
  OBVIOUS
<1>2. \A x \in S : ff[x] = r[x][c]
  BY DEF Column
<1>3. ff \in [S -> Int]
  BY DEF Column
<1> HIDE DEF ff
<1>4. PICK g : Additive(g, ff, S)
  BY <1>3, SumExists DEF HasSum
<1>5. Eqn(g)
  <2>1. ASSUME NEW s \in SUBSET S
        PROVE  g[s] = IF s = {} THEN 0
                      ELSE r[CHOOSE y \in s : TRUE][c] + g[s \ {CHOOSE y \in s : TRUE}]
    BY <1>1, <1>2, <1>4 DEF Additive
  <2>2. g = [s \in SUBSET S |-> g[s]]
    BY <1>4 DEF Additive
  <2>3. QED
    BY <2>1, <2>2
<1>6. Eqn(k)
  BY <1>5
<1>7. ColumnSum(r, c, S) = k[S]
  BY DEF ColumnSum, MapThenSumSet, MapThenFoldSet
<1>8. Adds(k, ff, S)
  <2>1. \A s \in SUBSET S :
          (IF s = {} THEN 0
           ELSE r[CHOOSE y \in s : TRUE][c] + k[s \ {CHOOSE y \in s : TRUE}])
          = (IF s = {} THEN 0
             ELSE ff[CHOOSE y \in s : TRUE] + k[s \ {CHOOSE y \in s : TRUE}])
    <3> HIDE DEF k
    <3>1. QED
      BY <1>1, <1>2
  <2>2. QED
    <3> HIDE DEF k
    <3>1. QED
      BY <1>6, <2>1 DEF Adds
<1>9. QED
  <2> HIDE DEF k
  <2>1. k[S] = g[S]
    BY <1>4, <1>8, SumUnique
  <2>2. Total(ff, S) = g[S]
    BY <1>4, TotalIsSum
  <2>3. QED
    BY <1>7, <2>1, <2>2 DEF ff

------------------------------------------------------------------------------
(* Where the tasks of a call are *)

Leaves == [Classes -> Nat]

Queued == Pool!Queued

Members(q) == {q[a] : a \in 1 .. Len(q)}

Distinct(q) == \A a, b \in 1 .. Len(q) : q[a] = q[b] => a = b

(* Added and taken from the queue by a worker *)
Started(t) == t < added /\ t \notin Queued

TypesOK ==
  /\ main \in {"idle", "adding", "waiting"}
  /\ added \in 0 .. NumThreads
  /\ ta \in [f : Seq(Leaves), skip : Nat]
  /\ ta.skip = Skip(Len(ta.f))
  /\ res \in [Tids -> Leaves]
  /\ next \in [Tids -> Nat]

(* A task is queued once, and is not queued while it runs. *)
QueueInv ==
  /\ queue \in Seq(0 .. added - 1)
  /\ Distinct(queue)
  /\ running \subseteq 0 .. added - 1
  /\ running \cap Queued = {}

(* The loop of a task is inside its interval, and at the end of it once    *)
(* the task has returned.                                                  *)
LoopInv ==
  \A t \in Tids : Started(t) =>
    /\ TStart(t, ta.skip) <= next[t]
    /\ \/ next[t] <= TEnd(t, ta.skip, Len(ta.f))
       \/ next[t] = TStart(t, ta.skip)
    /\ t \notin running => next[t] >= TEnd(t, ta.skip, Len(ta.f))

(* A call that waits or has returned has added every task. *)
AddedInv ==
  /\ main = "waiting" => added = NumThreads
  /\ main = "idle" => added = NumThreads \/ ta.f = <<>>

TaskInv == TypesOK /\ QueueInv /\ LoopInv /\ AddedInv

(* The trees that the tasks have visited *)
Seen == {i \in 1 .. Len(ta.f) :
           \E t \in Tids : Started(t) /\ TStart(t, ta.skip) < i /\ i <= next[t]}

(* What the tasks wrote to their regions is what those trees answer. *)
SumsUp(r, c, f, trees) == ColumnSum(r, c, Tids) = Total(Column(f, c, 1 .. Len(f)), trees)

SumInv == \A c \in Classes : SumsUp(res, c, ta.f, Seen)

(* The size of a range is a number, 0 included.                            *)
LEMMA SkipType == \A len \in Nat : Skip(len) \in Nat
BY ClassifyAssumption DEF ClassifyAssumption, Skip

(* A range starts at a number and ends at the last tree, at most.          *)
LEMMA TaskStartType ==
  ASSUME NEW t \in Tids, NEW skip \in Nat, NEW len \in Nat
  PROVE  t \in Nat /\ TStart(t, skip) \in Nat /\ TEnd(t, skip, len) \in Nat
                   /\ TEnd(t, skip, len) <= len
<1>1. t \in Nat
  BY ClassifyAssumption DEF ClassifyAssumption, Tids
<1>2. TStart(t, skip) \in Nat /\ TEnd(t, skip, len) <= len
  BY <1>1, TaskBounds
<1>3. TEnd(t, skip, len) \in Nat
  BY <1>2 DEF TEnd
<1>4. QED
  BY <1>1, <1>2, <1>3

(* The members of a queue that grows at its end *)
LEMMA QueueAppend ==
  ASSUME NEW S, NEW q \in Seq(S), NEW j \in S, j \notin Members(q), Distinct(q)
  PROVE  /\ Append(q, j) \in Seq(S)
         /\ Distinct(Append(q, j))
         /\ Members(Append(q, j)) = Members(q) \cup {j}
<1> DEFINE r == Append(q, j)
<1>1. r \in Seq(S) /\ Len(r) = Len(q) + 1 /\ Len(q) \in Nat
  OBVIOUS
<1>2. \A a \in 1 .. Len(q) : r[a] = q[a]
  OBVIOUS
<1>3. r[Len(q) + 1] = j
  OBVIOUS
<1>4. \A a \in 1 .. Len(r) : a \in 1 .. Len(q) \/ a = Len(q) + 1
  BY <1>1
<1> HIDE DEF r
<1>5. Distinct(r)
  BY <1>2, <1>3, <1>4 DEF Distinct, Members
<1>6. Members(r) = Members(q) \cup {j}
  <2>1. 1 .. Len(q) \subseteq 1 .. Len(r) /\ Len(q) + 1 \in 1 .. Len(r)
    BY <1>1
  <2>2. QED
    BY <1>2, <1>3, <1>4, <2>1 DEF Members
<1>7. QED
  BY <1>1, <1>5, <1>6 DEF r

(* The members of a queue that shrinks at its head *)
LEMMA QueueTail ==
  ASSUME NEW S, NEW q \in Seq(S), q # <<>>, Distinct(q)
  PROVE  /\ Tail(q) \in Seq(S)
         /\ Distinct(Tail(q))
         /\ Head(q) \in Members(q)
         /\ Members(Tail(q)) = Members(q) \ {Head(q)}
<1> DEFINE r == Tail(q)
<1>1. r \in Seq(S) /\ Len(r) = Len(q) - 1 /\ Len(q) \in Nat /\ Len(q) > 0 /\ Head(q) = q[1]
  OBVIOUS
<1>2. \A a \in 1 .. Len(r) : r[a] = q[a + 1] /\ a + 1 \in 1 .. Len(q) /\ a + 1 # 1
  OBVIOUS
<1>3. \A a \in 1 .. Len(q) : a # 1 => a - 1 \in 1 .. Len(r) /\ r[a - 1] = q[a]
  BY <1>1
<1>4. 1 \in 1 .. Len(q)
  BY <1>1
<1> HIDE DEF r
<1>5. ASSUME NEW a \in 1 .. Len(r), NEW b \in 1 .. Len(r), r[a] = r[b] PROVE a = b
  <2>1. a + 1 = b + 1
    BY <1>2, <1>5 DEF Distinct
  <2>2. QED
    BY <2>1
<1>6. Members(r) = Members(q) \ {q[1]}
  <2>1. ASSUME NEW a \in 1 .. Len(r) PROVE r[a] \in {q[b] : b \in 1 .. Len(q)} \ {q[1]}
    <3>1. r[a] = q[a + 1] /\ a + 1 \in 1 .. Len(q) /\ a + 1 # 1
      BY <1>2
    <3>2. q[a + 1] # q[1]
      BY <1>4, <3>1 DEF Distinct
    <3>3. QED
      BY <3>1, <3>2
  <2>2. ASSUME NEW a \in 1 .. Len(q), q[a] # q[1] PROVE q[a] \in {r[b] : b \in 1 .. Len(r)}
    <3>1. a # 1
      BY <2>2
    <3>2. a - 1 \in 1 .. Len(r) /\ r[a - 1] = q[a]
      BY <1>3, <3>1
    <3>3. QED
      BY <3>2
  <2>3. QED
    BY <2>1, <2>2 DEF Members
<1>7. QED
  <2>1. Distinct(r)
    BY <1>5 DEF Distinct
  <2>2. Head(q) \in Members(q)
    BY <1>1, <1>4 DEF Members
  <2>3. QED
    BY <1>1, <1>6, <2>1, <2>2 DEF r

(* The tasks on the queue, without the sequence.                           *)
LEMMA QueuedMembers == Queued = Members(queue)
BY DEF Queued, Pool!Queued, Members

(* What a queue holds is of the type of its elements.                      *)
LEMMA MembersType ==
  ASSUME NEW S, NEW q \in Seq(S)
  PROVE  Members(q) \subseteq S
BY DEF Members

(* A queue of some tasks is a queue of tasks.                              *)
LEMMA SeqWidens ==
  ASSUME NEW S, NEW T, S \subseteq T, NEW q \in Seq(S)
  PROVE  q \in Seq(T)
<1>1. q = [a \in 1 .. Len(q) |-> q[a]] /\ Len(q) \in Nat
  OBVIOUS
<1>2. \A a \in 1 .. Len(q) : q[a] \in T
  OBVIOUS
<1>3. q \in [1 .. Len(q) -> T]
  BY <1>1, <1>2
<1>4. QED
  BY <1>1, <1>3

(* Regions that were just cleared add up to what no tree says.             *)
LEMMA NothingVoted ==
  ASSUME NEW c \in Classes, NEW f, NEW r, r = [t \in Tids |-> [d \in Classes |-> 0]]
  PROVE  SumsUp(r, c, f, {})
<1>1. IsFiniteSet(Tids) /\ IsFiniteSet({})
  <2>1. 0 \in Int /\ NumThreads - 1 \in Int
    BY ClassifyAssumption DEF ClassifyAssumption
  <2>2. QED
    BY <2>1, FS_Interval, FS_EmptySet DEF Tids
<1>2. \A t \in Tids : r[t][c] = 0
  OBVIOUS
<1>3. ColumnSum(r, c, Tids) = Total(Column(r, c, Tids), Tids)
  BY <1>1, <1>2, ColumnTotal
<1>4. \A t \in Tids : Column(r, c, Tids)[t] = 0
  BY <1>2 DEF Column
<1>5. Total(Column(r, c, Tids), Tids) = 0
  BY <1>1, <1>4, TotalZero
<1>6. Total(Column(f, c, 1 .. Len(f)), {}) = 0
  BY <1>1, TotalZero
<1>7. QED
  BY <1>3, <1>5, <1>6 DEF SumsUp

(* What the tasks have done before the first call: nothing.                *)
LEMMA TaskInit == Init => TaskInv /\ SumInv
<1> SUFFICES ASSUME Init PROVE TaskInv /\ SumInv
  OBVIOUS
<1>1. NumThreads \in Nat \ {0} /\ 0 \in 0 .. NumThreads
  BY ClassifyAssumption DEF ClassifyAssumption
<1>2. Skip(0) \in Nat
  BY SkipType
<1>3. /\ main = "idle" /\ added = 0 /\ queue = <<>> /\ running = {}
      /\ ta = [f |-> <<>>, skip |-> Skip(0)]
      /\ res = [t \in Tids |-> [c \in Classes |-> 0]]
      /\ next = [t \in Tids |-> 0]
  BY DEF Init, Pool!PoolInit
<1>4. TypesOK
  <2>1. res \in [Tids -> Leaves] /\ next \in [Tids -> Nat]
    BY <1>3 DEF Leaves
  <2>2. <<>> \in Seq(Leaves) /\ Len(<<>>) = 0
    OBVIOUS
  <2>3. QED
    BY <1>1, <1>2, <1>3, <2>1, <2>2 DEF TypesOK
<1>5. QueueInv
  <2>1. Queued = {}
    BY <1>3 DEF Queued, Pool!Queued
  <2>2. QED
    BY <1>3, <2>1 DEF QueueInv, Distinct
<1>6. \A t \in Tids : ~ Started(t)
  <2>1. \A t \in Tids : t \in Nat
    BY ClassifyAssumption DEF ClassifyAssumption, Tids
  <2>2. QED
    BY <1>3, <2>1 DEF Started
<1>7. LoopInv /\ AddedInv
  BY <1>3, <1>6 DEF LoopInv, AddedInv
<1>8. SumInv
  <2>1. SUFFICES ASSUME NEW c \in Classes
                 PROVE  SumsUp(res, c, ta.f, Seen)
    BY DEF SumInv
  <2>2. Seen = {}
    BY <1>6 DEF Seen
  <2>3. QED
    BY <1>3, <2>1, <2>2, NothingVoted
<1>9. QED
  BY <1>4, <1>5, <1>7, <1>8 DEF TaskInv

(* A step that starts or finishes no visit leaves the sums as they were.   *)
LEMMA SumKept ==
  ASSUME SumInv, UNCHANGED <<ta, res>>, Seen' = Seen
  PROVE  SumInv'
BY DEF SumInv

(* Task ids count from 0.                                                  *)
LEMMA TidIsNat == \A t \in Tids : t \in Nat /\ t < NumThreads
BY ClassifyAssumption DEF ClassifyAssumption, Tids

(* A new call: no task of it has started, and its regions are cleared.     *)
LEMMA ClassifyKeeps ==
  ASSUME TaskInv, NoTaskOutlivesCall, NEW f \in Forests, Classify(f)
  PROVE  TaskInv' /\ SumInv'
<1>1. /\ main = "idle" /\ main' = "adding" /\ added' = 0
      /\ ta' = [f |-> f, skip |-> Skip(Len(f))]
      /\ res' = [t \in Tids |-> [c \in Classes |-> 0]]
      /\ queue' = <<>> /\ running' = {} /\ next' = next
  BY DEF Classify, pool, NoTaskOutlivesCall
<1>2. f \in Seq(Leaves) /\ Len(f) \in Nat /\ Skip(Len(f)) \in Nat
  <2>1. f \in Seq(Leaves)
    BY ClassifyAssumption DEF ClassifyAssumption, Leaves
  <2>2. QED
    BY <2>1, SkipType
<1>3. TypesOK'
  <2>1. res' \in [Tids -> Leaves]
    BY <1>1 DEF Leaves
  <2>2. 0 \in 0 .. NumThreads
    BY ClassifyAssumption DEF ClassifyAssumption
  <2>3. QED
    BY <1>1, <1>2, <2>1, <2>2 DEF TypesOK, TaskInv
<1>4. \A t \in Tids : ~ Started(t)'
  BY <1>1, TidIsNat DEF Started
<1>5. QueueInv'
  <2>1. Queued' = {}
    BY <1>1 DEF Queued, Pool!Queued
  <2>2. QED
    BY <1>1, <2>1 DEF QueueInv, Distinct
<1>6. LoopInv' /\ AddedInv'
  BY <1>1, <1>4 DEF LoopInv, AddedInv
<1>7. SumInv'
  <2>1. SUFFICES ASSUME NEW c \in Classes
                 PROVE  SumsUp(res', c, ta'.f, Seen')
    BY DEF SumInv
  <2>2. Seen' = {}
    BY <1>4 DEF Seen
  <2>3. QED
    BY <1>1, <2>2, NothingVoted
<1>8. QED
  BY <1>3, <1>5, <1>6, <1>7 DEF TaskInv

(* The task that is added is queued, so it has not started. *)
LEMMA AddTaskKeeps ==
  ASSUME TaskInv, SumInv, AddTask
  PROVE  TaskInv' /\ SumInv'
<1>1. /\ main = "adding" /\ added < NumThreads /\ added' = added + 1
      /\ added \notin Queued /\ queue' = Append(queue, added)
      /\ running' = running /\ UNCHANGED <<main, ta, res, next>>
  BY DEF AddTask, Pool!Submit, Queued
<1>2. added \in Nat /\ NumThreads \in Nat
  BY ClassifyAssumption DEF ClassifyAssumption, TaskInv, TypesOK
<1>3. TypesOK'
  <2>1. added + 1 \in 0 .. NumThreads
    BY <1>1, <1>2
  <2>2. QED
    BY <1>1, <2>1 DEF TaskInv, TypesOK
<1>4. queue \in Seq(0 .. added) /\ added \in 0 .. added /\ Distinct(queue)
  <2>1. queue \in Seq(0 .. added - 1) /\ 0 .. added - 1 \subseteq 0 .. added
    BY <1>2 DEF TaskInv, QueueInv
  <2>2. QED
    BY <1>2, <2>1, SeqWidens DEF TaskInv, QueueInv
<1>5. queue' \in Seq(0 .. added) /\ Distinct(queue') /\ Queued' = Queued \cup {added}
  <2>1. /\ Append(queue, added) \in Seq(0 .. added)
        /\ Distinct(Append(queue, added))
        /\ Members(Append(queue, added)) = Members(queue) \cup {added}
    BY <1>1, <1>4, QueuedMembers, QueueAppend
  <2>2. Queued' = Members(queue')
    BY DEF Queued, Pool!Queued, Members
  <2>3. QED
    BY <1>1, <2>1, <2>2, QueuedMembers
<1>6. QueueInv'
  <2>1. added' - 1 = added
    BY <1>1, <1>2
  <2>2. running' \subseteq 0 .. added /\ added \notin running
    BY <1>1, <1>2 DEF TaskInv, QueueInv
  <2>3. running' \cap Queued' = {}
    BY <1>1, <1>5, <2>2 DEF TaskInv, QueueInv
  <2>4. QED
    BY <1>5, <2>1, <2>2, <2>3 DEF QueueInv
<1>7. \A t \in Tids : Started(t)' <=> Started(t)
  <2>1. SUFFICES ASSUME NEW t \in Tids PROVE Started(t)' <=> Started(t)
    OBVIOUS
  <2>2. t \in Nat
    BY TidIsNat
  <2>3. CASE t = added
    BY <1>1, <1>2, <1>5, <2>3 DEF Started
  <2>4. CASE t # added
    <3>1. t < added' <=> t < added
      BY <1>1, <1>2, <2>2, <2>4
    <3>2. t \in Queued' <=> t \in Queued
      BY <1>5, <2>4
    <3>3. QED
      BY <3>1, <3>2 DEF Started
  <2>5. QED
    BY <2>3, <2>4
<1>8. LoopInv' /\ AddedInv'
  BY <1>1, <1>7 DEF LoopInv, AddedInv, TaskInv
<1>9. Seen' = Seen
  BY <1>1, <1>7 DEF Seen
<1>10. QED
  BY <1>1, <1>3, <1>6, <1>8, <1>9, SumKept DEF TaskInv

(* The main thread waits once it has added every task. *)
LEMMA WaitTasksKeeps ==
  ASSUME TaskInv, SumInv, WaitTasks
  PROVE  TaskInv' /\ SumInv'
<1>1. /\ main' = "waiting" /\ added = NumThreads
      /\ UNCHANGED <<added, ta, res, next, queue, running>>
  BY DEF WaitTasks, Pool!BeginWait
<1>2. Queued' = Queued
  BY <1>1 DEF Queued, Pool!Queued
<1>3. \A t \in Tids : Started(t)' <=> Started(t)
  BY <1>1, <1>2 DEF Started
<1>4. TypesOK' /\ QueueInv' /\ AddedInv'
  BY <1>1, <1>2 DEF TaskInv, TypesOK, QueueInv, AddedInv
<1>5. LoopInv' /\ Seen' = Seen
  BY <1>1, <1>3 DEF TaskInv, LoopInv, Seen
<1>6. QED
  BY <1>1, <1>4, <1>5, SumKept DEF TaskInv

(* The call returns: the tasks are as they were when the wait ended. *)
LEMMA ReduceKeeps ==
  ASSUME TaskInv, SumInv, Reduce
  PROVE  TaskInv' /\ SumInv'
<1>1. /\ main = "waiting" /\ main' = "idle"
      /\ UNCHANGED <<added, ta, res, next, queue, running>>
  BY DEF Reduce, Pool!EndWait
<1>2. Queued' = Queued
  BY <1>1 DEF Queued, Pool!Queued
<1>3. \A t \in Tids : Started(t)' <=> Started(t)
  BY <1>1, <1>2 DEF Started
<1>4. TypesOK' /\ QueueInv' /\ AddedInv'
  BY <1>1, <1>2 DEF TaskInv, TypesOK, QueueInv, AddedInv
<1>5. LoopInv' /\ Seen' = Seen
  BY <1>1, <1>3 DEF TaskInv, LoopInv, Seen
<1>6. QED
  BY <1>1, <1>4, <1>5, SumKept DEF TaskInv

(* A task that starts is in front of the first tree of its interval. *)
LEMMA StartTaskKeeps ==
  ASSUME TaskInv, SumInv, NEW t \in Tids, StartTask(t)
  PROVE  TaskInv' /\ SumInv'
<1>1. /\ queue # <<>> /\ Head(queue) = t /\ t \notin running
      /\ queue' = Tail(queue) /\ running' = running \cup {t}
      /\ next' = [next EXCEPT ![t] = TStart(t, ta.skip)]
      /\ UNCHANGED <<main, added, ta, res>>
  BY DEF StartTask, Pool!Start
<1>2. /\ queue' \in Seq(0 .. added - 1) /\ Distinct(queue')
      /\ t \in Queued /\ Queued' = Queued \ {t}
  <2>1. queue \in Seq(0 .. added - 1) /\ Distinct(queue)
    BY DEF TaskInv, QueueInv
  <2>2. /\ Tail(queue) \in Seq(0 .. added - 1) /\ Distinct(Tail(queue))
        /\ Head(queue) \in Members(queue)
        /\ Members(Tail(queue)) = Members(queue) \ {Head(queue)}
    BY <1>1, <2>1, QueueTail
  <2>3. Queued' = Members(queue')
    BY DEF Queued, Pool!Queued, Members
  <2>4. QED
    BY <1>1, <2>2, <2>3, QueuedMembers
<1>3. t \in 0 .. added - 1
  <2>1. queue \in Seq(0 .. added - 1)
    BY DEF TaskInv, QueueInv
  <2>2. QED
    BY <1>2, <2>1, QueuedMembers, MembersType
<1>4. QueueInv'
  <2>1. running' \cap Queued' = {}
    BY <1>1, <1>2 DEF TaskInv, QueueInv
  <2>2. running' \subseteq 0 .. added - 1
    BY <1>1, <1>3 DEF TaskInv, QueueInv
  <2>3. QED
    BY <1>1, <1>2, <2>1, <2>2 DEF QueueInv
<1>5. ta.skip \in Nat /\ Len(ta.f) \in Nat /\ next \in [Tids -> Nat] /\ added \in Nat
  BY ClassifyAssumption DEF ClassifyAssumption, TaskInv, TypesOK
<1>6. TStart(t, ta.skip) \in Nat
  BY <1>5, TaskStartType
<1>7. TypesOK'
  BY <1>1, <1>5, <1>6 DEF TaskInv, TypesOK
<1>8. /\ ~ Started(t) /\ next'[t] = TStart(t, ta.skip)
      /\ \A u \in Tids \ {t} : next'[u] = next[u] /\ (Started(u)' <=> Started(u))
  BY <1>1, <1>2, <1>5 DEF Started
<1>9. LoopInv'
  <2>1. SUFFICES ASSUME NEW u \in Tids, Started(u)'
                 PROVE  /\ TStart(u, ta.skip) <= next'[u]
                        /\ \/ next'[u] <= TEnd(u, ta.skip, Len(ta.f))
                           \/ next'[u] = TStart(u, ta.skip)
                        /\ u \notin running' => next'[u] >= TEnd(u, ta.skip, Len(ta.f))
    BY <1>1 DEF LoopInv
  <2>2. CASE u = t
    BY <1>1, <1>6, <1>8, <2>2
  <2>3. CASE u # t
    BY <1>1, <1>8, <2>1, <2>3 DEF TaskInv, LoopInv
  <2>4. QED
    BY <2>2, <2>3
<1>10. Seen' = Seen
  <2>1. \A i \in 1 .. Len(ta.f) : ~ (TStart(t, ta.skip) < i /\ i <= next'[t])
    BY <1>5, <1>6, <1>8
  <2>2. ASSUME NEW i \in 1 .. Len(ta.f), NEW u \in Tids
        PROVE  (Started(u)' /\ TStart(u, ta.skip) < i /\ i <= next'[u])
               <=> (Started(u) /\ TStart(u, ta.skip) < i /\ i <= next[u])
    BY <1>8, <2>1
  <2>3. QED
    BY <1>1, <2>2 DEF Seen
<1>11. AddedInv'
  BY <1>1 DEF TaskInv, AddedInv
<1>12. QED
  BY <1>1, <1>4, <1>7, <1>9, <1>10, <1>11, SumKept DEF TaskInv

(* A task that runs was added and is not in the queue. *)
LEMMA RunningStarted ==
  ASSUME TaskInv, NEW t \in running
  PROVE  Started(t)
BY DEF TaskInv, TypesOK, QueueInv, Started

(* No task but t has tree i in its interval, if t has, and none has passed *)
(* it before t does.                                                       *)
LEMMA TreeIsFresh ==
  ASSUME TaskInv, NEW t \in Tids, t \in running,
         next[t] < TEnd(t, ta.skip, Len(ta.f))
  PROVE  next[t] + 1 \in 1 .. Len(ta.f) /\ next[t] + 1 \notin Seen
<1>1. ta.skip \in Nat /\ Len(ta.f) \in Nat /\ next \in [Tids -> Nat]
  BY DEF TaskInv, TypesOK
<1>2. \A u \in Tids : /\ u \in Nat /\ next[u] \in Nat /\ TStart(u, ta.skip) \in Nat
                      /\ TEnd(u, ta.skip, Len(ta.f)) \in Nat
                      /\ TEnd(u, ta.skip, Len(ta.f)) <= Len(ta.f)
  BY <1>1, TaskStartType
<1>3. next[t] + 1 \in 1 .. Len(ta.f)
  BY <1>1, <1>2
<1>4. TStart(t, ta.skip) <= next[t]
  BY RunningStarted DEF TaskInv, LoopInv
<1>5. ASSUME NEW u \in Tids, Started(u), TStart(u, ta.skip) < next[t] + 1, next[t] + 1 <= next[u]
      PROVE  FALSE
  <2>1. next[u] <= TEnd(u, ta.skip, Len(ta.f))
    <3>1. next[u] # TStart(u, ta.skip)
      BY <1>2, <1>5
    <3>2. QED
      BY <1>5, <3>1 DEF TaskInv, LoopInv
  <2>2. CASE u = t
    BY <1>2, <1>5, <2>2
  <2>3. CASE u < t
    <3>1. TEnd(u, ta.skip, Len(ta.f)) <= TStart(t, ta.skip)
      BY <1>1, <1>2, <2>3, TasksDisjoint
    <3>2. QED
      BY <1>2, <1>4, <1>5, <2>1, <3>1
  <2>4. CASE t < u
    <3>1. TEnd(t, ta.skip, Len(ta.f)) <= TStart(u, ta.skip)
      BY <1>1, <1>2, <2>4, TasksDisjoint
    <3>2. QED
      BY <1>2, <1>5, <3>1
  <2>5. QED
    BY <1>2, <2>2, <2>3, <2>4
<1>6. next[t] + 1 \notin Seen
  BY <1>5 DEF Seen
<1>7. QED
  BY <1>3, <1>6

(* One leaf more in one region is one tree more in the sums. *)
AddsLeaf(q, r, c, t, leaf) ==
  q[t][c] = r[t][c] + leaf[c] /\ \A u \in Tids \ {t} : q[u] = r[u]

(* When a task adds the leaf of one more tree to its region, the regions   *)
(* add up to the votes of the trees before and of this one.                *)
LEMMA VoteAdds ==
  ASSUME NEW r, NEW f, NEW c, NEW t, NEW i, NEW s, NEW q,
         r \in [Tids -> Leaves], f \in Seq(Leaves), c \in Classes, t \in Tids,
         s \in SUBSET (1 .. Len(f)), i \in 1 .. Len(f), i \notin s,
         SumsUp(r, c, f, s), q \in [Tids -> Leaves], AddsLeaf(q, r, c, t, f[i])
  PROVE  SumsUp(q, c, f, s \cup {i})
<1> DEFINE trees == 1 .. Len(f)
           col == Column(f, c, trees)
           old == Column(r, c, Tids)
           new == Column(q, c, Tids)
<1>1. IsFiniteSet(Tids) /\ IsFiniteSet(trees)
  <2>1. 0 \in Int /\ 1 \in Int /\ NumThreads - 1 \in Int /\ Len(f) \in Int
    BY ClassifyAssumption DEF ClassifyAssumption
  <2>2. QED
    BY <2>1, FS_Interval DEF Tids
<1>2. col \in [trees -> Int] /\ old \in [Tids -> Int] /\ new \in [Tids -> Int]
  <2>1. \A j \in trees : f[j][c] \in Nat
    BY DEF Leaves
  <2>2. \A u \in Tids : r[u][c] \in Nat /\ q[u][c] \in Nat
    BY DEF Leaves
  <2>3. QED
    BY <2>1, <2>2 DEF Column
<1>3. ColumnSum(r, c, Tids) = Total(old, Tids) /\ ColumnSum(q, c, Tids) = Total(new, Tids)
  <2>1. \A u \in Tids : r[u][c] \in Int /\ q[u][c] \in Int
    BY DEF Leaves
  <2>2. QED
    BY <1>1, <2>1, ColumnTotal
<1>4. new[t] = old[t] + col[i] /\ col[i] \in Int /\ \A u \in Tids \ {t} : new[u] = old[u]
  BY <1>2 DEF Column, AddsLeaf
<1> HIDE DEF old, new, col, trees
<1>5. Total(new, Tids) = Total(old, Tids) + col[i]
  <2>1. t \in Tids /\ col[i] \in Int
    BY <1>4
  <2>2. Raised(new, old, Tids, t, col[i])
    BY <1>4 DEF Raised
  <2>3. QED
    BY ONLY <1>1, <1>2, <2>1, <2>2, TotalUpdate
<1>6. Total(col, s \cup {i}) = col[i] + Total(col, s) /\ Total(col, s) \in Int
  <2>1. s \in SUBSET trees /\ i \in trees \ s
    BY DEF trees
  <2>2. Total(col, s \cup {i}) = col[i] + Total(col, s)
    BY ONLY <1>1, <1>2, <2>1, TotalWith
  <2>3. Total(col, s) \in Int
    BY <1>1, <1>2, <2>1, TotalType
  <2>4. QED
    BY <2>2, <2>3
<1>7. Total(old, Tids) = Total(col, s)
  BY <1>3 DEF col, old, trees, SumsUp
<1>8. Total(new, Tids) = Total(col, s \cup {i})
  BY <1>4, <1>5, <1>6, <1>7
<1>9. QED
  BY <1>3, <1>8 DEF new, col, trees, SumsUp

(* A visit adds the next tree of one task to what has been seen. *)
LEMMA VisitTreeKeeps ==
  ASSUME TaskInv, SumInv, NEW t \in Tids, VisitTree(t)
  PROVE  TaskInv' /\ SumInv'
<1> DEFINE i == next[t] + 1
<1>1. /\ t \in running /\ next[t] < TEnd(t, ta.skip, Len(ta.f))
      /\ res' = [res EXCEPT ![t] = [c \in Classes |-> @[c] + ta.f[i][c]]]
      /\ next' = [next EXCEPT ![t] = i]
      /\ UNCHANGED <<main, added, ta, queue, running>>
  BY DEF VisitTree, pool
<1>2. /\ ta.skip \in Nat /\ Len(ta.f) \in Nat /\ next \in [Tids -> Nat]
      /\ ta.f \in Seq(Leaves) /\ res \in [Tids -> Leaves]
  BY DEF TaskInv, TypesOK
<1>3. i \in 1 .. Len(ta.f) /\ i \notin Seen
  BY <1>1, TreeIsFresh
<1>4. ta.f[i] \in Leaves /\ res[t] \in Leaves
  BY <1>2, <1>3
<1>5. /\ res' \in [Tids -> Leaves]
      /\ \A c \in Classes : res'[t][c] = res[t][c] + ta.f[i][c]
      /\ \A u \in Tids \ {t} : res'[u] = res[u]
  <2>1. [c \in Classes |-> res[t][c] + ta.f[i][c]] \in Leaves
    <3>1. \A c \in Classes : res[t][c] \in Nat /\ ta.f[i][c] \in Nat
      BY <1>4 DEF Leaves
    <3>2. QED
      BY <3>1 DEF Leaves
  <2>2. res' = [res EXCEPT ![t] = [c \in Classes |-> res[t][c] + ta.f[i][c]]]
    BY <1>1
  <2> HIDE DEF i
  <2>3. QED
    BY <1>2, <2>1, <2>2
<1>6. next'[t] = i /\ \A u \in Tids \ {t} : next'[u] = next[u]
  BY <1>1, <1>2
<1>7. TypesOK'
  BY <1>1, <1>2, <1>5 DEF TaskInv, TypesOK
<1>8. Queued' = Queued
  BY <1>1 DEF Queued, Pool!Queued
<1>9. QueueInv' /\ AddedInv'
  BY <1>1, <1>8 DEF TaskInv, QueueInv, AddedInv
<1>10. Started(t) /\ \A u \in Tids : Started(u)' <=> Started(u)
  BY <1>1, <1>8, RunningStarted DEF Started
<1>11. TStart(t, ta.skip) \in Nat /\ TEnd(t, ta.skip, Len(ta.f)) \in Nat /\ next[t] \in Nat
  BY <1>2, TaskStartType
<1>12. TStart(t, ta.skip) <= next[t]
  BY <1>10 DEF TaskInv, LoopInv
<1>13. LoopInv'
  <2>1. SUFFICES ASSUME NEW u \in Tids, Started(u)'
                 PROVE  /\ TStart(u, ta.skip) <= next'[u]
                        /\ \/ next'[u] <= TEnd(u, ta.skip, Len(ta.f))
                           \/ next'[u] = TStart(u, ta.skip)
                        /\ u \notin running => next'[u] >= TEnd(u, ta.skip, Len(ta.f))
    BY <1>1 DEF LoopInv
  <2>2. CASE u = t
    BY <1>1, <1>6, <1>11, <1>12, <2>2
  <2>3. CASE u # t
    BY <1>6, <1>10, <2>1, <2>3 DEF TaskInv, LoopInv
  <2>4. QED
    BY <2>2, <2>3
<1>14. Seen' = Seen \cup {i}
  <2>1. ASSUME NEW j \in 1 .. Len(ta.f)
        PROVE  (\E u \in Tids : Started(u) /\ TStart(u, ta.skip) < j /\ j <= next'[u])
               <=> j = i \/ \E u \in Tids : Started(u) /\ TStart(u, ta.skip) < j /\ j <= next[u]
    <3>1. j <= next'[t] <=> j = i \/ j <= next[t]
      BY <1>6, <1>11
    <3>2. TStart(t, ta.skip) < i
      BY <1>11, <1>12
    <3> HIDE DEF i
    <3>3. QED
      BY <1>6, <1>10, <3>1, <3>2
  <2>2. Seen' = {j \in 1 .. Len(ta.f) :
                   \E u \in Tids : Started(u) /\ TStart(u, ta.skip) < j /\ j <= next'[u]}
    BY <1>1, <1>10 DEF Seen
  <2> HIDE DEF i
  <2>3. QED
    BY <1>3, <2>1, <2>2 DEF Seen
<1>15. SumInv'
  <2>1. SUFFICES ASSUME NEW c \in Classes
                 PROVE  SumsUp(res', c, ta.f, Seen \cup {i})
    BY <1>1, <1>14 DEF SumInv
  <2>2. SumsUp(res, c, ta.f, Seen) /\ Seen \in SUBSET (1 .. Len(ta.f))
    BY DEF SumInv, Seen
  <2>3. AddsLeaf(res', res, c, t, ta.f[i]) /\ t \in Tids /\ c \in Classes
    BY <1>5 DEF AddsLeaf
  <2> HIDE DEF i
  <2>4. QED
    BY ONLY <1>2, <1>3, <1>5, <2>2, <2>3, VoteAdds
<1>16. QED
  BY <1>7, <1>9, <1>13, <1>15 DEF TaskInv

(* A task that returns is at the end of its interval. *)
LEMMA EndTaskKeeps ==
  ASSUME TaskInv, SumInv, NEW t \in Tids, EndTask(t)
  PROVE  TaskInv' /\ SumInv'
<1>1. /\ next[t] >= TEnd(t, ta.skip, Len(ta.f))
      /\ running' = running \ {t} /\ UNCHANGED <<queue, main, added, ta, res, next>>
  BY DEF EndTask, Pool!Finish
<1>2. Queued' = Queued
  BY <1>1 DEF Queued, Pool!Queued
<1>3. \A u \in Tids : Started(u)' <=> Started(u)
  BY <1>1, <1>2 DEF Started
<1>4. TypesOK' /\ AddedInv'
  BY <1>1 DEF TaskInv, TypesOK, AddedInv
<1>5. QueueInv'
  BY <1>1, <1>2 DEF TaskInv, QueueInv
<1>6. LoopInv'
  BY <1>1, <1>3 DEF TaskInv, LoopInv
<1>7. Seen' = Seen
  BY <1>1, <1>3 DEF Seen
<1>8. QED
  BY <1>1, <1>4, <1>5, <1>6, <1>7, SumKept DEF TaskInv

(* Each step keeps the invariant of the tasks and that of their regions.   *)
LEMMA TaskStep ==
  ASSUME CallInv, TaskInv, SumInv, [Next]_vars
  PROVE  TaskInv' /\ SumInv'
<1>1. ASSUME NEW f \in Forests, Classify(f) PROVE TaskInv' /\ SumInv'
  BY <1>1, ClassifyKeeps DEF CallInv
<1>2. CASE AddTask
  BY <1>2, AddTaskKeeps
<1>3. CASE WaitTasks
  BY <1>3, WaitTasksKeeps
<1>4. CASE Reduce
  BY <1>4, ReduceKeeps
<1>5. ASSUME NEW t \in Tids, StartTask(t) PROVE TaskInv' /\ SumInv'
  BY <1>5, StartTaskKeeps
<1>6. ASSUME NEW t \in Tids, VisitTree(t) PROVE TaskInv' /\ SumInv'
  BY <1>6, VisitTreeKeeps
<1>7. ASSUME NEW t \in Tids, EndTask(t) PROVE TaskInv' /\ SumInv'
  BY <1>7, EndTaskKeeps
<1>8. CASE UNCHANGED vars
  <2>1. UNCHANGED <<queue, running, main, added, ta, res, next>>
    BY <1>8 DEF vars, pool
  <2>2. Queued' = Queued
    BY <2>1 DEF Queued, Pool!Queued
  <2>3. \A u \in Tids : Started(u)' <=> Started(u)
    BY <2>1, <2>2 DEF Started
  <2>4. TaskInv' /\ Seen' = Seen
    BY <2>1, <2>2, <2>3 DEF TaskInv, TypesOK, QueueInv, LoopInv, AddedInv, Seen
  <2>5. QED
    BY <2>1, <2>4, SumKept
<1>9. QED
  BY <1>1, <1>2, <1>3, <1>4, <1>5, <1>6, <1>7, <1>8 DEF Next, Task

(* The three invariants hold in every state.                               *)
LEMMA TaskInvariant == Spec => [](CallInv /\ TaskInv /\ SumInv)
<1>1. Init => CallInv /\ TaskInv /\ SumInv
  BY CallInit, TaskInit
<1>2. CallInv /\ TaskInv /\ SumInv /\ [Next]_vars => (CallInv /\ TaskInv /\ SumInv)'
  BY CallStep, TaskStep
<1>3. QED
  BY <1>1, <1>2, PTL DEF Spec

(* The two sums that the properties compare, as sums over trees *)
LEMMA SumsOfTrees ==
  ASSUME TaskInv, SumInv, NEW c \in Classes
  PROVE  /\ Totals[c] = Total(Column(ta.f, c, 1 .. Len(ta.f)), Seen)
         /\ Votes(ta.f)[c] = Total(Column(ta.f, c, 1 .. Len(ta.f)), 1 .. Len(ta.f))
         /\ Column(ta.f, c, 1 .. Len(ta.f)) \in [1 .. Len(ta.f) -> Nat]
         /\ IsFiniteSet(1 .. Len(ta.f)) /\ Seen \in SUBSET (1 .. Len(ta.f))
<1>1. ta.f \in Seq(Leaves)
  BY DEF TaskInv, TypesOK
<1>2. DOMAIN ta.f = 1 .. Len(ta.f) /\ Len(ta.f) \in Nat
      /\ \A j \in 1 .. Len(ta.f) : ta.f[j][c] \in Nat
  BY <1>1 DEF Leaves
<1>3. IsFiniteSet(1 .. Len(ta.f))
  BY <1>2, FS_Interval
<1>4. Column(ta.f, c, 1 .. Len(ta.f)) \in [1 .. Len(ta.f) -> Nat]
  BY <1>2 DEF Column
<1>5. Totals[c] = ColumnSum(res, c, Tids)
  BY DEF Totals, ColumnSum, MapThenSumSet, MapThenFoldSet
<1>6. Votes(ta.f)[c] = ColumnSum(ta.f, c, 1 .. Len(ta.f))
  BY <1>2 DEF Votes, ColumnSum, MapThenSumSet, MapThenFoldSet
<1>7. ColumnSum(ta.f, c, 1 .. Len(ta.f))
        = Total(Column(ta.f, c, 1 .. Len(ta.f)), 1 .. Len(ta.f))
  <2>1. \A j \in 1 .. Len(ta.f) : ta.f[j][c] \in Int
    BY <1>2
  <2>2. QED
    BY <1>3, <2>1, ColumnTotal
<1>8. ColumnSum(res, c, Tids) = Total(Column(ta.f, c, 1 .. Len(ta.f)), Seen)
  BY DEF SumInv, SumsUp
<1>9. Seen \in SUBSET (1 .. Len(ta.f))
  BY DEF Seen
<1>10. QED
  BY <1>3, <1>4, <1>5, <1>6, <1>7, <1>8, <1>9

(* At no point of a call, with any number of threads, do the regions hold  *)
(* more votes for a class than the trees of the forest have together.      *)
THEOREM NoTreeTwice == Spec => []NoTreeVotesTwice
<1>1. ASSUME TaskInv, SumInv PROVE NoTreeVotesTwice
  <2>1. SUFFICES ASSUME NEW c \in Classes PROVE Totals[c] <= Votes(ta.f)[c]
    BY DEF NoTreeVotesTwice
  <2> DEFINE trees == 1 .. Len(ta.f)
             col == Column(ta.f, c, trees)
  <2>2. /\ Totals[c] = Total(col, Seen) /\ Votes(ta.f)[c] = Total(col, trees)
        /\ col \in [trees -> Nat] /\ IsFiniteSet(trees) /\ Seen \in SUBSET trees
    BY <1>1, SumsOfTrees
  <2> HIDE DEF trees, col
  <2>3. Total(col, Seen) <= Total(col, trees)
    BY ONLY <2>2, TotalMonotonic
  <2>4. QED
    BY <2>2, <2>3
<1>2. QED
  BY <1>1, TaskInvariant, PTL

(* When one or two tasks have returned, they have seen all trees.          *)
LEMMA AllSeen ==
  ASSUME NumThreads \in {1, 2}, TaskInv, queue = <<>>, running = {},
         added = NumThreads \/ ta.f = <<>>
  PROVE  Seen = 1 .. Len(ta.f)
<1>1. CASE ta.f = <<>>
  BY <1>1 DEF Seen
<1>2. CASE added = NumThreads
  <2>1. ta.skip = Skip(Len(ta.f)) /\ ta.skip \in Nat /\ Len(ta.f) \in Nat
        /\ next \in [Tids -> Nat]
    BY DEF TaskInv, TypesOK
  <2>2. SUFFICES ASSUME NEW i \in 1 .. Len(ta.f) PROVE i \in Seen
    BY DEF Seen
  <2>3. i - 1 \in 0 .. Len(ta.f) - 1
    BY <2>1
  <2>4. PICK t \in Tids : /\ TStart(t, ta.skip) <= i - 1
                          /\ i - 1 < TEnd(t, ta.skip, Len(ta.f))
    BY <2>1, <2>3, FewThreadsCover
  <2>5. Started(t) /\ t \notin running
    <3>1. Queued = {}
      BY DEF Queued, Pool!Queued
    <3>2. QED
      BY <1>2, <3>1, TidIsNat DEF Started
  <2>6. next[t] >= TEnd(t, ta.skip, Len(ta.f))
    BY <2>5 DEF TaskInv, LoopInv
  <2>7. next[t] \in Nat /\ TStart(t, ta.skip) \in Nat /\ TEnd(t, ta.skip, Len(ta.f)) \in Nat
    BY <2>1, TaskStartType
  <2>8. TStart(t, ta.skip) < i /\ i <= next[t]
    BY <2>1, <2>4, <2>6, <2>7
  <2>9. QED
    BY <2>5, <2>8 DEF Seen
<1>3. QED
  BY <1>1, <1>2

(* With one or two threads, any forest and any interleaving of the tasks,  *)
(* the totals at the end of a call are the sums over all trees.            *)
THEOREM EveryTreeCounts ==
  ASSUME NumThreads \in {1, 2}
  PROVE  Spec => []EveryTreeVotes
<1>1. ASSUME CallInv, TaskInv, SumInv PROVE EveryTreeVotes
  <2>1. SUFFICES ASSUME main = "idle" PROVE Totals = Votes(ta.f)
    BY DEF EveryTreeVotes
  <2>2. Seen = 1 .. Len(ta.f)
    BY <1>1, <2>1, AllSeen DEF CallInv, NoTaskOutlivesCall, TaskInv, AddedInv
  <2>3. \A c \in Classes : Totals[c] = Votes(ta.f)[c]
    BY <1>1, <2>2, SumsOfTrees
  <2>4. Totals = [c \in Classes |-> Totals[c]] /\ Votes(ta.f) = [c \in Classes |-> Votes(ta.f)[c]]
    BY DEF Totals, Votes
  <2>5. QED
    BY <2>3, <2>4
<1>2. QED
  BY <1>1, TaskInvariant, PTL

------------------------------------------------------------------------------
(* The answer.  The functions that First and Rounds are chosen by exist:   *)
(* each value is computed from those of shorter arguments.                 *)

(* Each half of a window of two classes or more is smaller than it.        *)
LEMMA Halves ==
  ASSUME NEW n \in Nat, n > 1
  PROVE  /\ n \div 2 \in 1 .. n - 1 /\ n - n \div 2 \in 1 .. n - 1
         /\ n \div 2 <= n - n \div 2 /\ n = n \div 2 + (n - n \div 2)
OBVIOUS

CountsRounds(f, N) ==
  /\ f \in [1 .. N -> Nat]
  /\ \A n \in 1 .. N : f[n] = IF n = 1 THEN 0 ELSE 1 + f[n - n \div 2]

(* The recursive function that counts the rounds of the merge sort exists. *)
LEMMA RoundsExist == \A N \in Nat : \E f : CountsRounds(f, N)
<1> DEFINE S == {N \in Nat : \E f : CountsRounds(f, N)}
<1>1. 0 \in S
  <2> DEFINE f == [n \in 1 .. 0 |-> 0]
  <2>1. CountsRounds(f, 0)
    BY DEF CountsRounds
  <2> HIDE DEF f
  <2>2. QED
    BY <2>1
<1>2. ASSUME NEW N \in Nat, N \in S PROVE N + 1 \in S
  <2>1. PICK g : CountsRounds(g, N)
    BY <1>2
  <2> DEFINE m == N + 1 - (N + 1) \div 2
             f == [n \in 1 .. N + 1 |-> IF n <= N THEN g[n]
                                        ELSE IF n = 1 THEN 0 ELSE 1 + g[m]]
  <2>2. \A n \in 1 .. N + 1 : n # 1 => n - n \div 2 \in 1 .. n - 1
    <3>1. SUFFICES ASSUME NEW n \in 1 .. N + 1, n # 1 PROVE n - n \div 2 \in 1 .. n - 1
      OBVIOUS
    <3>2. n \in Nat /\ n > 1
      BY <3>1
    <3>3. QED
      BY <3>2, Halves
  <2>3. \A n \in 1 .. N : n # 1 => n - n \div 2 \in 1 .. N /\ n - n \div 2 \in 1 .. N + 1
    <3>1. SUFFICES ASSUME NEW n \in 1 .. N, n # 1
                   PROVE  n - n \div 2 \in 1 .. N /\ n - n \div 2 \in 1 .. N + 1
      OBVIOUS
    <3>2. n \in Nat /\ n > 1
      BY <3>1
    <3>3. n - n \div 2 \in 1 .. n - 1
      BY <3>2, Halves
    <3>4. QED
      BY <3>3
  <2>4. N + 1 # 1 => m \in 1 .. N
    BY <2>2
  <2>5. \A n \in 1 .. N : f[n] = g[n] /\ n \in 1 .. N + 1
    OBVIOUS
  <2>6. f[N + 1] = IF N + 1 = 1 THEN 0 ELSE 1 + g[m]
    OBVIOUS
  <2>7. f \in [1 .. N + 1 -> Nat]
    <3>1. \A n \in 1 .. N : g[n] \in Nat
      BY <2>1 DEF CountsRounds
    <3> HIDE DEF m
    <3>2. QED
      BY <2>4, <3>1
  <2>8. ASSUME NEW n \in 1 .. N + 1
        PROVE  f[n] = IF n = 1 THEN 0 ELSE 1 + f[n - n \div 2]
    <3>1. CASE n \in 1 .. N
      <4>1. g[n] = IF n = 1 THEN 0 ELSE 1 + g[n - n \div 2]
        BY <2>1, <3>1 DEF CountsRounds
      <4> HIDE DEF f
      <4>2. QED
        BY <2>3, <2>5, <3>1, <4>1
    <3>2. CASE n = N + 1
      <4>1. N + 1 # 1 => f[m] = g[m]
        BY <2>4, <2>5
      <4>2. n - n \div 2 = m
        BY <3>2
      <4> HIDE DEF f, m
      <4>3. QED
        BY <2>6, <3>2, <4>1, <4>2
    <3>3. QED
      BY <3>1, <3>2
  <2>9. QED
    <3> HIDE DEF f
    <3>1. CountsRounds(f, N + 1)
      BY <2>7, <2>8 DEF CountsRounds
    <3>2. QED
      BY <3>1
<1>3. Nat \subseteq S
  <2> HIDE DEF S
  <2>1. QED
    BY <1>1, <1>2, Induction
<1>4. QED
  BY <1>3

(* Rounds is that function, for as many classes as there are.              *)
LEMMA RoundsType == CountsRounds(Rounds, MaxClasses)
<1> DEFINE Eqn(f) == f = [n \in 1 .. MaxClasses |-> IF n = 1 THEN 0 ELSE 1 + f[n - n \div 2]]
           g == CHOOSE f : Eqn(f)
<1>0. MaxClasses \in Nat
  BY ClassifyAssumption DEF ClassifyAssumption
<1>1. PICK f : CountsRounds(f, MaxClasses)
  BY <1>0, RoundsExist
<1>2. Eqn(f)
  BY <1>1 DEF CountsRounds
<1>3. Eqn(g)
  BY <1>2
<1>4. Rounds = g
  BY DEF Rounds
<1> HIDE DEF g
<1>5. \A n \in 1 .. MaxClasses : g[n] = IF n = 1 THEN 0 ELSE 1 + g[n - n \div 2]
  BY <1>3
<1>6. g = [n \in 1 .. MaxClasses |-> g[n]]
  BY <1>3
<1> DEFINE S == {n \in Nat : n \in 1 .. MaxClasses => g[n] \in Nat}
<1>7. Nat \subseteq S
  <2>1. ASSUME NEW n \in Nat, \A k \in 0 .. n - 1 : k \in S PROVE n \in S
    <3>1. SUFFICES ASSUME n \in 1 .. MaxClasses PROVE g[n] \in Nat
      OBVIOUS
    <3>2. CASE n = 1
      BY <1>5, <3>1, <3>2
    <3>3. CASE n > 1
      <4>1. n - n \div 2 \in 1 .. n - 1
        BY <3>3, Halves
      <4>2. n - n \div 2 \in 0 .. n - 1 /\ n - n \div 2 \in 1 .. MaxClasses
        BY <1>0, <3>1, <4>1
      <4>3. g[n - n \div 2] \in Nat
        BY <2>1, <4>2
      <4>4. g[n] = 1 + g[n - n \div 2]
        BY <1>5, <3>1, <3>3
      <4>5. QED
        BY <4>3, <4>4
    <3>4. QED
      BY <3>1, <3>2, <3>3
  <2> HIDE DEF S
  <2>2. QED
    BY <2>1, StrongInduction
<1>8. \A n \in 1 .. MaxClasses : g[n] \in Nat
  BY <1>0, <1>7
<1>9. QED
  BY <1>4, <1>5, <1>6, <1>8 DEF CountsRounds

(* The shorter half takes no more rounds than the longer one. *)
LEMMA RoundsMonotonic ==
  \A n \in 1 .. MaxClasses : \A k \in 1 .. n : Rounds[k] <= Rounds[n]
<1> DEFINE S == {n \in Nat : n \in 1 .. MaxClasses => \A k \in 1 .. n : Rounds[k] <= Rounds[n]}
<1>0. MaxClasses \in Nat
  BY ClassifyAssumption DEF ClassifyAssumption
<1>1. /\ \A n \in 1 .. MaxClasses : Rounds[n] \in Nat
      /\ \A n \in 1 .. MaxClasses : Rounds[n] = IF n = 1 THEN 0 ELSE 1 + Rounds[n - n \div 2]
  BY RoundsType DEF CountsRounds
<1>2. ASSUME NEW n \in Nat, \A j \in 0 .. n - 1 : j \in S PROVE n \in S
  <2>1. SUFFICES ASSUME n \in 1 .. MaxClasses, NEW k \in 1 .. n PROVE Rounds[k] <= Rounds[n]
    OBVIOUS
  <2>2. k \in 1 .. MaxClasses /\ k \in Nat
    BY <1>0, <2>1
  <2>3. CASE k = 1
    BY <1>1, <2>1, <2>2, <2>3
  <2>4. CASE k > 1
    <3>1. n > 1
      BY <2>1, <2>4
    <3>2. n - n \div 2 \in 1 .. n - 1 /\ k - k \div 2 \in 1 .. k - 1
      BY <2>2, <2>4, <3>1, Halves
    <3>3. k - k \div 2 <= n - n \div 2
      BY <2>1, <2>2
    <3>4. n - n \div 2 \in 0 .. n - 1 /\ n - n \div 2 \in 1 .. MaxClasses
          /\ k - k \div 2 \in 1 .. n - n \div 2 /\ k - k \div 2 \in 1 .. MaxClasses
      BY <1>0, <2>1, <2>2, <3>2, <3>3
    <3>5. Rounds[k - k \div 2] <= Rounds[n - n \div 2]
      BY <1>2, <3>4
    <3>6. Rounds[k] = 1 + Rounds[k - k \div 2] /\ Rounds[n] = 1 + Rounds[n - n \div 2]
      BY <1>1, <2>1, <2>2, <2>4, <3>1
    <3>7. Rounds[k - k \div 2] \in Nat /\ Rounds[n - n \div 2] \in Nat
      BY <1>1, <3>4
    <3>8. QED
      BY <3>5, <3>6, <3>7
  <2>5. QED
    BY <2>1, <2>3, <2>4
<1>3. Nat \subseteq S
  <2> HIDE DEF S
  <2>1. QED
    BY <1>2, StrongInduction
<1>4. QED
  BY <1>0, <1>3

(* What first[w] is, from its two halves *)
Round(g, total, w) ==
  IF w[2] = 1 THEN w[1]
  ELSE IF Cmp2D(total[g[LeftHalf(w)]], total[g[RightHalf(w)]]) <= 0
       THEN g[LeftHalf(w)] ELSE g[RightHalf(w)]

Upto(n) == {w \in Windows : w[2] <= n}

Plays(g, total, n) ==
  g \in [Upto(n) -> Classes] /\ \A w \in Upto(n) : g[w] = Round(g, total, w)

(* What a window is made of.                                               *)
LEMMA WindowType ==
  ASSUME NEW w \in Windows
  PROVE  /\ w = <<w[1], w[2]>> /\ w[1] \in Classes /\ w[2] \in 1 .. MaxClasses
         /\ w[1] \in Nat /\ w[2] \in Nat /\ w[2] >= 1
         /\ w[1] + w[2] <= MaxClasses
<1>1. MaxClasses \in Nat
  BY ClassifyAssumption DEF ClassifyAssumption
<1>2. w \in Classes \X (1 .. MaxClasses) /\ w[1] + w[2] <= MaxClasses
  BY DEF Windows
<1>3. QED
  BY <1>1, <1>2 DEF Classes

(* A window of more than one class has two shorter halves. *)
LEMMA WindowHalves ==
  ASSUME NEW w \in Windows, w[2] # 1
  PROVE  /\ LeftHalf(w) \in Windows /\ RightHalf(w) \in Windows
         /\ LeftHalf(w)[1] = w[1] /\ LeftHalf(w)[2] = w[2] \div 2
         /\ RightHalf(w)[1] = w[1] + w[2] \div 2 /\ RightHalf(w)[2] = w[2] - w[2] \div 2
         /\ w[2] \div 2 \in 1 .. w[2] - 1 /\ w[2] - w[2] \div 2 \in 1 .. w[2] - 1
<1> DEFINE lo == w[1]
           n == w[2]
           h == n \div 2
<1>1. lo \in Nat /\ n \in Nat /\ n > 1 /\ lo + n <= MaxClasses
  BY WindowType
<1>2. MaxClasses \in Nat
  BY ClassifyAssumption DEF ClassifyAssumption
<1>3. h \in 1 .. n - 1 /\ n - h \in 1 .. n - 1
  BY <1>1, Halves
<1> HIDE DEF h
<1>4. lo \in Classes /\ h \in 1 .. MaxClasses /\ lo + h <= MaxClasses
  BY <1>1, <1>2, <1>3 DEF Classes
<1>5. lo + h \in Classes /\ n - h \in 1 .. MaxClasses /\ lo + h + (n - h) <= MaxClasses
  BY <1>1, <1>2, <1>3 DEF Classes
<1> HIDE DEF lo, n
<1>6. <<lo, h>> \in Windows
  BY <1>4 DEF Windows
<1>7. <<lo + h, n - h>> \in Windows
  BY <1>5 DEF Windows
<1>8. LeftHalf(w) = <<lo, h>> /\ RightHalf(w) = <<lo + h, n - h>>
  BY DEF LeftHalf, RightHalf, lo, h, n
<1>9. QED
  BY <1>3, <1>6, <1>7, <1>8 DEF lo, h, n

(* The recursive function that First is taken from exists, by induction    *)
(* over the size of the windows.                                           *)
LEMMA PlaysExist ==
  ASSUME NEW total
  PROVE  \A n \in Nat : \E g : Plays(g, total, n)
<1> DEFINE S == {n \in Nat : \E g : Plays(g, total, n)}
<1>1. 0 \in S
  <2>1. Upto(0) = {}
    BY WindowType DEF Upto
  <2> DEFINE g == [w \in Upto(0) |-> 0]
  <2>2. g \in [Upto(0) -> Classes]
    BY <2>1
  <2> HIDE DEF g
  <2>3. Plays(g, total, 0)
    BY <2>1, <2>2 DEF Plays
  <2>4. QED
    BY <2>3
<1>2. ASSUME NEW n \in Nat, n \in S PROVE n + 1 \in S
  <2>1. PICK f : Plays(f, total, n)
    BY <1>2
  <2> DEFINE g == [w \in Upto(n + 1) |-> IF w \in Upto(n) THEN f[w] ELSE Round(f, total, w)]
  <2>2. \A w \in Upto(n) : w \in Upto(n + 1) /\ w \in Windows
    BY WindowType DEF Upto
  <2>3. ASSUME NEW w \in Upto(n + 1), w[2] # 1
        PROVE  LeftHalf(w) \in Upto(n) /\ RightHalf(w) \in Upto(n)
    <3>1. w \in Windows /\ w[2] \in Nat /\ w[2] <= n + 1
      BY WindowType DEF Upto
    <3>2. /\ LeftHalf(w) \in Windows /\ RightHalf(w) \in Windows
          /\ LeftHalf(w)[2] \in 1 .. w[2] - 1 /\ RightHalf(w)[2] \in 1 .. w[2] - 1
      BY <2>3, <3>1, WindowHalves
    <3>3. QED
      BY <3>1, <3>2 DEF Upto
  <2>4. \A w \in Upto(n) : f[w] \in Classes
    BY <2>1 DEF Plays
  <2>5. \A w \in Upto(n + 1) : Round(f, total, w) \in Classes
    <3>1. SUFFICES ASSUME NEW w \in Upto(n + 1) PROVE Round(f, total, w) \in Classes
      OBVIOUS
    <3>2. w[1] \in Classes
      BY WindowType DEF Upto
    <3>3. QED
      BY <2>3, <2>4, <3>2 DEF Round
  <2>6. g \in [Upto(n + 1) -> Classes]
    BY <2>4, <2>5
  <2>7. \A w \in Upto(n) : g[w] = f[w]
    BY <2>2
  <2>8. ASSUME NEW w \in Upto(n + 1) PROVE g[w] = Round(f, total, w)
    BY <2>1 DEF Plays
  <2> HIDE DEF g
  <2>9. ASSUME NEW w \in Upto(n + 1) PROVE Round(g, total, w) = Round(f, total, w)
    <3>1. CASE w[2] = 1
      BY <3>1 DEF Round
    <3>2. CASE w[2] # 1
      <4>1. g[LeftHalf(w)] = f[LeftHalf(w)] /\ g[RightHalf(w)] = f[RightHalf(w)]
        BY <2>3, <2>7, <3>2
      <4>2. QED
        BY <4>1 DEF Round
    <3>3. QED
      BY <3>1, <3>2
  <2>10. Plays(g, total, n + 1)
    BY <2>6, <2>8, <2>9 DEF Plays
  <2>11. QED
    BY <2>10
<1>3. Nat \subseteq S
  <2> HIDE DEF S
  <2>1. QED
    BY <1>1, <1>2, Induction
<1>4. QED
  BY <1>3

(* First reads a function that obeys its equation. *)
LEMMA FirstPlays ==
  ASSUME NEW total
  PROVE  \E g : /\ First(total) = g[<<0, MaxClasses>>]
                /\ \A w \in Windows : g[w] = Round(g, total, w)
<1> DEFINE Eqn(g) == g = [w \in Windows |-> Round(g, total, w)]
           k == CHOOSE g : Eqn(g)
<1>1. PICK f : Plays(f, total, MaxClasses)
  <2>1. MaxClasses \in Nat
    BY ClassifyAssumption DEF ClassifyAssumption
  <2>2. QED
    BY <2>1, PlaysExist
<1>2. Upto(MaxClasses) = Windows
  BY WindowType DEF Upto
<1>3. Eqn(f)
  BY <1>1, <1>2 DEF Plays
<1>4. Eqn(k)
  BY <1>3
<1>5. First(total) = k[<<0, MaxClasses>>]
  BY DEF First, Round
<1> HIDE DEF k
<1>6. \A w \in Windows : k[w] = Round(k, total, w)
  BY <1>4
<1>7. QED
  BY <1>5, <1>6

(* A comparison that keeps the left one of two classes loses b votes at    *)
(* most; one that takes the right one loses none.                          *)
LosesAtMost(total, b) ==
  \A l, r \in Classes :
    /\ Cmp2D(total[l], total[r]) <= 0 => total[r] - total[l] <= b
    /\ Cmp2D(total[l], total[r]) > 0 => total[l] <= total[r]

Covers(total, b, w, x) ==
  /\ x \in Classes
  /\ \A c \in w[1] .. w[1] + w[2] - 1 : total[c] - total[x] <= Rounds[w[2]] * b

(* The winner of two halves *)
LEMMA RoundCovers ==
  ASSUME NEW total \in [Classes -> Int], NEW b \in Nat, LosesAtMost(total, b),
         NEW w \in Windows, NEW g, w[2] # 1,
         Covers(total, b, LeftHalf(w), g[LeftHalf(w)]),
         Covers(total, b, RightHalf(w), g[RightHalf(w)])
  PROVE  Covers(total, b, w, Round(g, total, w))
<1> DEFINE n == w[2]
           h == n \div 2
           l == g[LeftHalf(w)]
           r == g[RightHalf(w)]
           x == Round(g, total, w)
<1>1. /\ w[1] \in Nat /\ n \in Nat /\ n > 1 /\ n \in 1 .. MaxClasses
      /\ w[1] + n <= MaxClasses
  BY WindowType
<1>2. MaxClasses \in Nat
  BY ClassifyAssumption DEF ClassifyAssumption
<1>3. /\ LeftHalf(w)[1] = w[1] /\ LeftHalf(w)[2] = h
      /\ RightHalf(w)[1] = w[1] + h /\ RightHalf(w)[2] = n - h
      /\ h \in 1 .. n - 1 /\ n - h \in 1 .. n - 1
  BY WindowHalves
<1>4. /\ Rounds[n] = 1 + Rounds[n - h] /\ Rounds[h] <= Rounds[n - h]
      /\ Rounds[n] \in Nat /\ Rounds[n - h] \in Nat /\ Rounds[h] \in Nat
  <2>1. h \in 1 .. n - h
    BY <1>1, <1>3, Halves
  <2>2. h \in 1 .. MaxClasses /\ n - h \in 1 .. MaxClasses
    BY <1>1, <1>2, <1>3
  <2>3. Rounds[h] <= Rounds[n - h]
    BY <2>1, <2>2, RoundsMonotonic
  <2>4. Rounds[n] = 1 + Rounds[n - h]
    BY <1>1, RoundsType DEF CountsRounds
  <2>5. \A m \in 1 .. MaxClasses : Rounds[m] \in Nat
    BY RoundsType DEF CountsRounds
  <2>6. QED
    BY <1>1, <2>2, <2>3, <2>4, <2>5
<1>5. /\ Rounds[h] * b <= Rounds[n - h] * b
      /\ Rounds[n] * b = Rounds[n - h] * b + b
      /\ Rounds[h] * b \in Nat /\ Rounds[n - h] * b \in Nat
  <2> DEFINE p == Rounds[h]
             q == Rounds[n - h]
  <2>1. p \in Nat /\ q \in Nat /\ p <= q /\ Rounds[n] = 1 + q
    BY <1>4
  <2> HIDE DEF p, q
  <2>2. p * b <= q * b
    BY <2>1, TimesMonotonic
  <2>3. (1 + q) * b = q * b + b /\ p * b \in Nat /\ q * b \in Nat
    BY <2>1
  <2>4. QED
    BY <2>1, <2>2, <2>3 DEF p, q
<1>6. /\ l \in Classes /\ r \in Classes
      /\ \A c \in w[1] .. w[1] + h - 1 : total[c] - total[l] <= Rounds[h] * b
      /\ \A c \in w[1] + h .. w[1] + n - 1 : total[c] - total[r] <= Rounds[n - h] * b
  <2>1. w[1] + h + (n - h) - 1 = w[1] + n - 1
    BY <1>1, <1>3
  <2> HIDE DEF l, r, h
  <2>2. Covers(total, b, LeftHalf(w), l) /\ Covers(total, b, RightHalf(w), r)
    BY DEF l, r
  <2>3. /\ l \in Classes
        /\ \A c \in w[1] .. w[1] + h - 1 : total[c] - total[l] <= Rounds[h] * b
    BY <1>3, <2>2 DEF Covers
  <2>4. r \in Classes
    BY <2>2 DEF Covers
  <2>5. \A c \in w[1] + h .. w[1] + h + (n - h) - 1 :
          total[c] - total[r] <= Rounds[n - h] * b
    BY <1>3, <2>2 DEF Covers
  <2>6. \A c \in w[1] + h .. w[1] + n - 1 : total[c] - total[r] <= Rounds[n - h] * b
    BY <2>1, <2>5
  <2>7. QED
    BY <2>3, <2>4, <2>6
<1>7. /\ Cmp2D(total[l], total[r]) <= 0 => x = l /\ total[r] - total[l] <= b
      /\ Cmp2D(total[l], total[r]) > 0 => x = r /\ total[l] <= total[r]
  <2>1. x = IF Cmp2D(total[l], total[r]) <= 0 THEN l ELSE r
    BY DEF Round
  <2>2. Cmp2D(total[l], total[r]) \in Int
    <3>1. total[l] \in Int /\ total[r] \in Int /\ Unit \in Nat \ {0}
      BY <1>6, ClassifyAssumption DEF ClassifyAssumption
    <3>2. QED
      BY <3>1 DEF Cmp2D
  <2>3. QED
    <3> HIDE DEF l, r, x
    <3>1. QED
      BY <1>6, <2>1, <2>2 DEF LosesAtMost
<1> HIDE DEF h, l, r, x
<1>8. total[l] \in Int /\ total[r] \in Int
  BY <1>6
<1>9. /\ x \in Classes
      /\ \/ x = l /\ total[r] - total[l] <= b
         \/ x = r /\ total[l] <= total[r]
  <2>1. Cmp2D(total[l], total[r]) <= 0 \/ Cmp2D(total[l], total[r]) > 0
    <3>1. Cmp2D(total[l], total[r]) \in Int
      <4>1. Unit \in Nat \ {0}
        BY ClassifyAssumption DEF ClassifyAssumption
      <4>2. QED
        BY <1>8, <4>1 DEF Cmp2D
    <3>2. QED
      BY <3>1
  <2>2. QED
    BY <1>6, <1>7, <2>1
<1>10. ASSUME NEW c \in w[1] .. w[1] + n - 1
       PROVE  total[c] - total[x] <= Rounds[n] * b
  <2>1. c \in Classes /\ total[c] \in Int
    <3>1. c \in Classes
      BY <1>1, <1>2 DEF Classes
    <3>2. QED
      BY <3>1
  <2>2. CASE c \in w[1] .. w[1] + h - 1
    <3>1. total[c] - total[l] <= Rounds[h] * b
      BY <1>6, <2>2
    <3>2. QED
      BY <1>5, <1>8, <1>9, <2>1, <3>1
  <2>3. CASE c \in w[1] + h .. w[1] + n - 1
    <3>1. total[c] - total[r] <= Rounds[n - h] * b
      BY <1>6, <2>3
    <3>2. QED
      BY <1>5, <1>8, <1>9, <2>1, <3>1
  <2>4. QED
    BY <1>1, <1>3, <2>2, <2>3
<1>11. QED
  BY <1>9, <1>10 DEF Covers, x

(* The head after the merge sort loses at most b in each round against     *)
(* every class, when the comparator overlooks differences of up to b.      *)
LEMMA FirstCovers ==
  ASSUME NEW total \in [Classes -> Int], NEW b \in Nat, LosesAtMost(total, b)
  PROVE  /\ First(total) \in Classes
         /\ \A c \in Classes : total[c] - total[First(total)] <= Rounds[MaxClasses] * b
<1>0. MaxClasses \in Nat /\ MaxClasses > 0
  BY ClassifyAssumption DEF ClassifyAssumption
<1>1. PICK g : /\ First(total) = g[<<0, MaxClasses>>]
               /\ \A w \in Windows : g[w] = Round(g, total, w)
  BY FirstPlays
<1> DEFINE S == {n \in Nat : \A w \in Windows : w[2] = n => Covers(total, b, w, g[w])}
<1>2. ASSUME NEW n \in Nat, \A k \in 0 .. n - 1 : k \in S PROVE n \in S
  <2>1. SUFFICES ASSUME NEW w \in Windows, w[2] = n PROVE Covers(total, b, w, g[w])
    OBVIOUS
  <2>2. CASE n = 1
    <3>1. g[w] = w[1]
      BY <1>1, <2>1, <2>2 DEF Round
    <3>2. w[1] \in Classes /\ w[1] \in Nat
      BY WindowType
    <3>3. Rounds[w[2]] * b = 0
      <4>1. 1 \in 1 .. MaxClasses
        BY <1>0
      <4>2. Rounds[w[2]] = 0
        BY <2>1, <2>2, <4>1, RoundsType DEF CountsRounds
      <4>3. QED
        BY <4>2
    <3>4. \A c \in w[1] .. w[1] + w[2] - 1 : c = w[1]
      BY <2>1, <2>2, <3>2
    <3>5. total[w[1]] - total[w[1]] <= 0
      BY <3>2
    <3>6. QED
      BY <3>1, <3>2, <3>3, <3>4, <3>5 DEF Covers
  <2>3. CASE n # 1
    <3>1. /\ LeftHalf(w) \in Windows /\ RightHalf(w) \in Windows
          /\ LeftHalf(w)[2] \in 1 .. n - 1 /\ RightHalf(w)[2] \in 1 .. n - 1
      BY <2>1, <2>3, WindowHalves
    <3>2. LeftHalf(w)[2] \in 0 .. n - 1 /\ RightHalf(w)[2] \in 0 .. n - 1
      BY <3>1
    <3>3. Covers(total, b, LeftHalf(w), g[LeftHalf(w)])
      BY <1>2, <3>1, <3>2
    <3>4. Covers(total, b, RightHalf(w), g[RightHalf(w)])
      BY <1>2, <3>1, <3>2
    <3>5. Covers(total, b, w, Round(g, total, w))
      <4>1. w[2] # 1
        BY <2>1, <2>3
      <4>2. QED
        BY <3>3, <3>4, <4>1, RoundCovers
    <3>6. QED
      BY <1>1, <3>5
  <2>4. QED
    BY <2>2, <2>3
<1>3. Nat \subseteq S
  <2> HIDE DEF S
  <2>1. QED
    BY <1>2, StrongInduction
<1>4. <<0, MaxClasses>> \in Windows
  BY <1>0 DEF Windows, Classes
<1>5. Covers(total, b, <<0, MaxClasses>>, First(total))
  BY <1>0, <1>1, <1>3, <1>4
<1>6. Classes = 0 .. 0 + MaxClasses - 1
  BY <1>0 DEF Classes
<1>7. QED
  BY <1>5, <1>6 DEF Covers

(* What a comparison in units of a vote can lose *)
LEMMA ComparisonLoses ==
  ASSUME NEW total \in [Classes -> Int]
  PROVE  LosesAtMost(total, Unit - 1)
<1>1. SUFFICES ASSUME NEW l \in Classes, NEW r \in Classes
               PROVE  /\ Cmp2D(total[l], total[r]) <= 0 => total[r] - total[l] <= Unit - 1
                      /\ Cmp2D(total[l], total[r]) > 0 => total[l] <= total[r]
  BY DEF LosesAtMost
<1>2. PICK x, y \in Int : x = total[l] /\ y = total[r]
  OBVIOUS
<1>3. Unit \in Nat /\ Unit > 0
  BY ClassifyAssumption DEF ClassifyAssumption
<1>4. CASE y >= x
  <2>1. /\ y - x = ((y - x) \div Unit) * Unit + ((y - x) % Unit)
        /\ (y - x) % Unit \in 0 .. Unit - 1
        /\ (y - x) \div Unit \in Nat
    <3>1. PICK d \in Nat : d = y - x
      BY <1>4
    <3>2. d = (d \div Unit) * Unit + (d % Unit) /\ d % Unit \in 0 .. Unit - 1 /\ d \div Unit \in Nat
      BY <1>3
    <3>3. QED
      BY <3>1, <3>2
  <2>2. (y - x) \div Unit <= 0 => y - x <= Unit - 1
    <3>1. SUFFICES ASSUME (y - x) \div Unit <= 0 PROVE y - x <= Unit - 1
      OBVIOUS
    <3>2. (y - x) \div Unit = 0
      BY <1>3, <2>1, <3>1
    <3>3. QED
      BY <1>3, <2>1, <3>2
  <2>3. QED
    BY <1>2, <1>4, <2>2 DEF Cmp2D
<1>5. CASE y < x
  <2>1. (x - y) \div Unit \in Nat
    BY <1>3, <1>5
  <2>2. ~ (-((x - y) \div Unit) > 0) /\ y - x <= Unit - 1
    BY <1>2, <1>3, <1>5, <2>1
  <2>3. QED
    BY <1>2, <1>5, <2>2 DEF Cmp2D
<1>6. QED
  BY <1>2, <1>4, <1>5

(* Nothing is lost between whole numbers of votes. *)
LEMMA WholeLosesNothing ==
  ASSUME NEW total \in [Classes -> Int],
         \A c \in Classes : \E k \in Int : total[c] = Unit * k
  PROVE  LosesAtMost(total, 0)
<1>1. SUFFICES ASSUME NEW l \in Classes, NEW r \in Classes, Cmp2D(total[l], total[r]) <= 0
               PROVE  total[r] - total[l] <= 0
  BY ComparisonLoses DEF LosesAtMost
<1>2. PICK j, k \in Int : total[l] = Unit * j /\ total[r] = Unit * k
  OBVIOUS
<1>3. Unit \in Nat /\ Unit > 0
  BY ClassifyAssumption DEF ClassifyAssumption
<1>4. Unit * k - Unit * j <= Unit - 1
  BY <1>1, <1>2, ComparisonLoses DEF LosesAtMost
<1>5. CASE k <= j
  <2>1. j - k \in Nat
    BY <1>5
  <2>2. Unit * j = Unit * k + Unit * (j - k) /\ Unit * (j - k) \in Nat
    BY <1>3, <2>1
  <2>3. Unit * k \in Int /\ Unit * j \in Int
    BY <1>3
  <2>4. QED
    BY <1>2, <2>2, <2>3
<1>6. CASE k > j
  <2>1. k - j - 1 \in Nat
    BY <1>6
  <2>2. Unit * k = Unit * j + Unit * (k - j - 1) + Unit /\ Unit * (k - j - 1) \in Nat
    BY <1>3, <2>1
  <2>3. Unit * k \in Int /\ Unit * j \in Int
    BY <1>3
  <2>4. QED
    BY <1>3, <1>4, <2>2, <2>3
<1>7. QED
  BY <1>5, <1>6

(* The votes that a comparison of two classes may ignore *)
Loss(f) == IF Whole(f) THEN 0 ELSE Unit - 1

(* The totals are integers, and how much the comparator overlooks of them. *)
LEMMA VotesTotal ==
  ASSUME NEW f \in Seq(Leaves)
  PROVE  /\ Votes(f) \in [Classes -> Int]
         /\ Loss(f) \in Nat /\ LosesAtMost(Votes(f), Loss(f))
<1>1. IsFiniteSet(1 .. Len(f)) /\ Len(f) \in Nat
  <2>1. Len(f) \in Int /\ 1 \in Int
    OBVIOUS
  <2>2. QED
    BY <2>1, FS_Interval
<1>2. \A c \in Classes : \A j \in 1 .. Len(f) : f[j][c] \in Int
  BY DEF Leaves
<1>3. \A c \in Classes : Votes(f)[c] = ColumnSum(f, c, 1 .. Len(f))
  <2>1. DOMAIN f = 1 .. Len(f)
    OBVIOUS
  <2>2. QED
    BY <2>1 DEF Votes, ColumnSum, MapThenSumSet, MapThenFoldSet
<1>4. ASSUME NEW c \in Classes
      PROVE  /\ Votes(f)[c] = Total(Column(f, c, 1 .. Len(f)), 1 .. Len(f))
             /\ Votes(f)[c] \in Int
  <2>1. \A j \in 1 .. Len(f) : f[j][c] \in Int
    BY <1>2
  <2>2. ColumnSum(f, c, 1 .. Len(f)) = Total(Column(f, c, 1 .. Len(f)), 1 .. Len(f))
    BY <1>1, <2>1, ColumnTotal
  <2> DEFINE trees == 1 .. Len(f)
             col == Column(f, c, trees)
  <2>3. col \in [trees -> Int] /\ IsFiniteSet(trees) /\ trees \in SUBSET trees
    BY <1>1, <2>1 DEF Column
  <2> HIDE DEF col, trees
  <2>4. Total(col, trees) \in Int
    BY ONLY <2>3, TotalType
  <2>5. QED
    BY <1>3, <2>2, <2>4 DEF col, trees
<1>5. Votes(f) \in [Classes -> Int]
  <2>1. \A c \in Classes : Votes(f)[c] \in Int
    BY <1>4
  <2>2. Votes(f) = [c \in Classes |-> Votes(f)[c]]
    BY DEF Votes
  <2>3. QED
    BY <2>1, <2>2
<1>6. Unit \in Nat /\ Unit > 0
  BY ClassifyAssumption DEF ClassifyAssumption
<1>7. CASE Whole(f)
  <2>1. ASSUME NEW c \in Classes PROVE \E m \in Int : Votes(f)[c] = Unit * m
    <3> DEFINE trees == 1 .. Len(f)
               col == Column(f, c, trees)
               k == [j \in trees |-> f[j][c] \div Unit]
    <3>1. \A j \in trees : f[j][c] = Unit * (f[j][c] \div Unit) /\ f[j][c] \div Unit \in Int
      <4>1. SUFFICES ASSUME NEW j \in trees
                     PROVE  f[j][c] = Unit * (f[j][c] \div Unit) /\ f[j][c] \div Unit \in Int
        OBVIOUS
      <4>2. f[j][c] % Unit = 0
        <5>1. DOMAIN f = trees
          OBVIOUS
        <5>2. QED
          BY <1>7, <5>1 DEF Whole
      <4>3. f[j][c] \in Int
        BY <1>2
      <4>4. \A x \in Int : x % Unit = 0 => x = Unit * (x \div Unit) /\ x \div Unit \in Int
        BY <1>6
      <4>5. QED
        BY <4>2, <4>3, <4>4
    <3>2. k \in [trees -> Int] /\ \A j \in trees : col[j] = Unit * k[j]
      BY <3>1 DEF Column
    <3>3. IsFiniteSet(trees) /\ Unit \in Int
      BY <1>1, <1>6
    <3> HIDE DEF k, col, trees
    <3>4. \E m \in Int : Total(col, trees) = Unit * m
      BY ONLY <3>2, <3>3, TotalScaled
    <3>5. QED
      BY <1>4, <3>4 DEF col, trees
  <2>2. LosesAtMost(Votes(f), 0)
    BY <1>5, <2>1, WholeLosesNothing
  <2>3. QED
    BY <1>5, <1>7, <2>2 DEF Loss
<1>8. CASE ~ Whole(f)
  <2>1. LosesAtMost(Votes(f), Unit - 1) /\ Unit - 1 \in Nat
    BY <1>5, <1>6, ComparisonLoses
  <2>2. QED
    BY <1>5, <1>8, <2>1 DEF Loss
<1>9. QED
  BY <1>7, <1>8

(* No class is further ahead of x than the comparisons may ignore. *)
Ahead(x, f) ==
  /\ x \in Classes
  /\ \A c \in Classes : Votes(f)[c] - Votes(f)[x] <= Rounds[MaxClasses] * Loss(f)

AnswerInv == main = "idle" => Ahead(rep, ta.f)

(* The head after the sort is an answer that AnswerIsMajority accepts.     *)
LEMMA FirstIsAhead ==
  ASSUME NEW f \in Seq(Leaves)
  PROVE  Ahead(First(Votes(f)), f)
<1>1. Votes(f) \in [Classes -> Int] /\ Loss(f) \in Nat /\ LosesAtMost(Votes(f), Loss(f))
  BY VotesTotal
<1>2. QED
  BY <1>1, FirstCovers DEF Ahead

(* Of no trees, class 0 is a majority.                                     *)
LEMMA NoTreesNoAnswer == Ahead(0, <<>>)
<1>1. <<>> \in Seq(Leaves)
  OBVIOUS
<1>2. ASSUME NEW c \in Classes PROVE Votes(<<>>)[c] = 0
  <2>1. DOMAIN <<>> = {} /\ IsFiniteSet({})
    BY FS_EmptySet
  <2>2. Votes(<<>>)[c] = ColumnSum(<<>>, c, {})
    BY <2>1 DEF Votes, ColumnSum, MapThenSumSet, MapThenFoldSet
  <2>3. ColumnSum(<<>>, c, {}) = Total(Column(<<>>, c, {}), {})
    BY <2>1, ColumnTotal
  <2>4. Total(Column(<<>>, c, {}), {}) = 0
    BY <2>1, TotalZero
  <2>5. QED
    BY <2>2, <2>3, <2>4
<1>3. Rounds[MaxClasses] \in Nat /\ 0 \in Classes
  <2>1. MaxClasses \in Nat /\ MaxClasses > 0
    BY ClassifyAssumption DEF ClassifyAssumption
  <2>2. QED
    BY <2>1, RoundsType DEF CountsRounds, Classes
<1>4. Loss(<<>>) \in Nat
  BY <1>1, VotesTotal
<1>5. \A a, b \in Nat : 0 - 0 <= a * b
  OBVIOUS
<1>6. QED
  BY <1>2, <1>3, <1>4, <1>5 DEF Ahead

(* The invariant of the answer is kept: it is read off totals that are the *)
(* votes of all trees.                                                     *)
LEMMA AnswerStep ==
  ASSUME NumThreads \in {1, 2}, TaskInv, SumInv, AnswerInv, [Next]_vars
  PROVE  AnswerInv'
<1>1. ASSUME NEW f \in Forests, Classify(f) PROVE AnswerInv'
  BY <1>1 DEF Classify, AnswerInv
<1>2. CASE AddTask
  BY <1>2 DEF AddTask, AnswerInv
<1>3. CASE WaitTasks
  BY <1>3 DEF WaitTasks, AnswerInv
<1>4. CASE Reduce
  <2>1. /\ main = "waiting" /\ queue = <<>> /\ running = {}
        /\ rep' = First(Totals) /\ ta' = ta
    BY <1>4 DEF Reduce, Pool!EndWait
  <2>2. Seen = 1 .. Len(ta.f)
    BY <2>1, AllSeen DEF TaskInv, AddedInv
  <2>3. \A c \in Classes : Totals[c] = Votes(ta.f)[c]
    BY <2>2, SumsOfTrees
  <2>4. Totals = Votes(ta.f)
    <3>1. /\ Totals = [c \in Classes |-> Totals[c]]
          /\ Votes(ta.f) = [c \in Classes |-> Votes(ta.f)[c]]
      BY DEF Totals, Votes
    <3>2. QED
      BY <2>3, <3>1
  <2>5. ta.f \in Seq(Leaves)
    BY DEF TaskInv, TypesOK
  <2>6. QED
    BY <2>1, <2>4, <2>5, FirstIsAhead DEF AnswerInv
<1>5. ASSUME NEW t \in Tids, StartTask(t) PROVE AnswerInv'
  BY <1>5 DEF StartTask, AnswerInv
<1>6. ASSUME NEW t \in Tids, VisitTree(t) PROVE AnswerInv'
  BY <1>6 DEF VisitTree, AnswerInv
<1>7. ASSUME NEW t \in Tids, EndTask(t) PROVE AnswerInv'
  BY <1>7 DEF EndTask, AnswerInv
<1>8. CASE UNCHANGED vars
  BY <1>8 DEF vars, AnswerInv
<1>9. QED
  BY <1>1, <1>2, <1>3, <1>4, <1>5, <1>6, <1>7, <1>8 DEF Next, Task

(* With one or two threads and any number of classes, the answer of a call *)
(* is a class that no other class beats, by the votes of the whole forest: *)
(* by none when the votes are whole, and else by less than a vote for each *)
(* round of comparisons.                                                   *)
THEOREM MajorityAnswers ==
  ASSUME NumThreads \in {1, 2}
  PROVE  Spec => []AnswerIsMajority
<1>1. ASSUME AnswerInv PROVE AnswerIsMajority
  <2>1. SUFFICES ASSUME main = "idle", NEW c \in Classes
                 PROVE  IF Whole(ta.f) THEN Votes(ta.f)[c] - Votes(ta.f)[rep] <= 0
                        ELSE Votes(ta.f)[c] - Votes(ta.f)[rep] <= (Unit - 1) * Rounds[MaxClasses]
    BY DEF AnswerIsMajority
  <2>2. Votes(ta.f)[c] - Votes(ta.f)[rep] <= Rounds[MaxClasses] * Loss(ta.f)
    BY <1>1, <2>1 DEF AnswerInv, Ahead
  <2>3. Rounds[MaxClasses] \in Nat /\ Unit \in Nat /\ Unit > 0
    <3>1. MaxClasses \in Nat /\ MaxClasses > 0 /\ Unit \in Nat /\ Unit > 0
      BY ClassifyAssumption DEF ClassifyAssumption
    <3>2. QED
      BY <3>1, RoundsType DEF CountsRounds
  <2>4. Rounds[MaxClasses] * 0 = 0 /\ Rounds[MaxClasses] * (Unit - 1) = (Unit - 1) * Rounds[MaxClasses]
    BY <2>3
  <2>5. QED
    BY <2>2, <2>4 DEF Loss
<1>2. Init => AnswerInv
  BY NoTreesNoAnswer DEF Init, AnswerInv
<1>3. TaskInv /\ SumInv /\ AnswerInv /\ [Next]_vars => AnswerInv'
  BY AnswerStep
<1>4. QED
  BY <1>1, <1>2, <1>3, TaskInvariant, PTL DEF Spec
==============================================================================
