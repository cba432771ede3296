--------------------------- MODULE ThreadPoolProofs ---------------------------
(***************************************************************************)
(* The safety properties of ThreadPool, for every number of workers and    *)
(* jobs.  DataInv is inductive; each later invariant is inductive relative *)
(* to the ones before it, so each has an Init lemma, a step lemma with one *)
(* step per action, and a theorem that combines them.                      *)
(***************************************************************************)
EXTENDS ThreadPool, FiniteSetTheorems, TLAPS

(* TypeOK alone is not inductive: Push appends job_p[Client], which is a   *)
(* job only because of where the client is.                                *)
DataInv == TypeOK /\ JobInv

(* Nothing runs and no pointer is set before thpool_init creates threads.  *)
LEMMA DataInit == Init => DataInv
<1> SUFFICES ASSUME Init PROVE DataInv
  OBVIOUS
<1> USE PoolAssumption
    DEF PoolAssumption, Init, Threads, Mutexes, WorkerPC, ClientPC, WorkingPC,
        WaitPC
<1>1. pc \in [Threads -> WorkerPC \cup ClientPC]
  OBVIOUS
<1>2. \A w \in Workers : pc[w] = "unborn" /\ job_p[w] = NoJob
  OBVIOUS
<1>3. pc[Client] = "spawn" /\ job_p[Client] = NoJob
  OBVIOUS
<1>4. queue \in Seq(Jobs)
  OBVIOUS
<1>5. owner \in [Mutexes -> Threads \cup {Nobody}]
  OBVIOUS
<1>6. job_p \in [Threads -> Jobs \cup {NoJob}]
  OBVIOUS
<1>7. TypeOK
  <2>1. threads_keepalive \in BOOLEAN /\ threads_on_hold \in BOOLEAN
    OBVIOUS
  <2>2. num_threads_alive \in Int /\ num_threads_working \in Int
    OBVIOUS
  <2>3. bsem_v \in {0, 1} /\ bsem_cond \subseteq Workers
    OBVIOUS
  <2>4. /\ threads_all_idle \subseteq {Client}
        /\ sigpending \subseteq Workers /\ held \subseteq Workers
    OBVIOUS
  <2>5. (\A w \in Workers : pc[w] \in WorkerPC) /\ pc[Client] \in ClientPC
    BY <1>2, <1>3
  <2>6. QED
    BY <1>1, <1>4, <1>5, <1>6, <2>1, <2>2, <2>3, <2>4, <2>5 DEF TypeOK
<1>8. JobInv
  BY <1>2, <1>3 DEF JobInv
<1>9. QED
  BY <1>7, <1>8 DEF DataInv

(* Every step keeps the variables in range and the job pointers in place.  *)
LEMMA DataStep ==
  DataInv /\ [Next]_vars => DataInv'
<1> SUFFICES ASSUME DataInv, [Next]_vars
             PROVE  DataInv'
  OBVIOUS
<1> USE PoolAssumption
    DEF PoolAssumption, DataInv, TypeOK, JobInv, Threads, Mutexes,
        WorkerPC, ClientPC, WorkingPC, WaitPC, vars, sem, jobs, counts,
        signals, Step, Lock, Unlock, Post, Call
<1>1. ASSUME NEW w \in Workers, Boot(w) PROVE DataInv'
  BY <1>1 DEF Boot
<1>2. ASSUME NEW w \in Workers, BecomeAlive(w) PROVE DataInv'
  BY <1>2 DEF BecomeAlive
<1>3. ASSUME NEW w \in Workers, TestLoop(w) PROVE DataInv'
  BY <1>3 DEF TestLoop
<1>4. ASSUME NEW w \in Workers, BsemLock(w) PROVE DataInv'
  BY <1>4 DEF BsemLock
<1>5. ASSUME NEW w \in Workers, BsemTake(w) PROVE DataInv'
  BY <1>5 DEF BsemTake
<1>6. ASSUME NEW w \in Workers, BsemBlock(w) PROVE DataInv'
  BY <1>6 DEF BsemBlock
<1>7. ASSUME NEW w \in Workers, BsemWake(w) PROVE DataInv'
  BY <1>7 DEF BsemWake
<1>8. ASSUME NEW w \in Workers, TestAgain(w) PROVE DataInv'
  BY <1>8 DEF TestAgain
<1>9. ASSUME NEW w \in Workers, IncLock(w) PROVE DataInv'
  BY <1>9 DEF IncLock
<1>10. ASSUME NEW w \in Workers, IncWorking(w) PROVE DataInv'
  BY <1>10 DEF IncWorking
<1>11. ASSUME NEW w \in Workers, PullLock(w) PROVE DataInv'
  BY <1>11 DEF PullLock
<1>12. ASSUME NEW w \in Workers, PullNone(w) PROVE DataInv'
  BY <1>12 DEF PullNone
<1>13. ASSUME NEW w \in Workers, PullLast(w) PROVE DataInv'
  BY <1>13 DEF PullLast
<1>14. ASSUME NEW w \in Workers, PullOne(w) PROVE DataInv'
  BY <1>14 DEF PullOne
<1>15. ASSUME NEW w \in Workers, RepostLock(w) PROVE DataInv'
  BY <1>15 DEF RepostLock
<1>16. ASSUME NEW w \in Workers, Repost(w) PROVE DataInv'
  BY <1>16 DEF Repost
<1>17. ASSUME NEW w \in Workers, FinishJob(w) PROVE DataInv'
  BY <1>17 DEF FinishJob
<1>18. ASSUME NEW w \in Workers, DecLock(w) PROVE DataInv'
  BY <1>18 DEF DecLock
<1>19. ASSUME NEW w \in Workers, DecWorking(w) PROVE DataInv'
  BY <1>19 DEF DecWorking
<1>20. ASSUME NEW w \in Workers, ExitLock(w) PROVE DataInv'
  BY <1>20 DEF ExitLock
<1>21. ASSUME NEW w \in Workers, Exit(w) PROVE DataInv'
  BY <1>21 DEF Exit
<1>22. ASSUME NEW w \in Workers, ExitUnlock(w) PROVE DataInv'
  BY <1>22 DEF ExitUnlock
<1>23. ASSUME NEW w \in Workers, HandlerExit(w) PROVE DataInv'
  BY <1>23 DEF HandlerExit
<1>24. ASSUME NEW w \in Workers, HandlerEnter(w) PROVE DataInv'
  BY <1>24 DEF HandlerEnter
<1>25. ASSUME NEW j \in Jobs, AddWork(j) PROVE DataInv'
  BY <1>25 DEF AddWork
<1>26. CASE Wait
  BY <1>26 DEF Wait
<1>27. CASE Pause
  BY <1>27 DEF Pause
<1>28. CASE Resume
  BY <1>28 DEF Resume
<1>29. CASE Destroy
  BY <1>29 DEF Destroy
<1>30. CASE Spawn
  BY <1>30 DEF Spawn
<1>31. CASE Spawned
  BY <1>31 DEF Spawned
<1>32. CASE InitDone
  BY <1>32 DEF InitDone
<1>33. CASE PushLock
  BY <1>33 DEF PushLock
<1>34. CASE Push
  BY <1>34 DEF Push
<1>35. CASE PostLock
  BY <1>35 DEF PostLock
<1>36. CASE PushPost
  BY <1>36 DEF PushPost
<1>37. CASE WaitLock
  BY <1>37 DEF WaitLock
<1>38. CASE WaitBlock
  BY <1>38 DEF WaitBlock
<1>39. CASE WaitWake
  BY <1>39 DEF WaitWake
<1>40. CASE WaitOver
  BY <1>40 DEF WaitOver
<1>41. CASE WaitReturn
  BY <1>41 DEF WaitReturn
<1>42. CASE DestroyPoll
  BY <1>42 DEF DestroyPoll
<1>43. CASE BcastLock
  BY <1>43 DEF BcastLock
<1>44. CASE Broadcast
  BY <1>44 DEF Broadcast
<1>45. CASE Free
  BY <1>45 DEF Free
<1>46. ASSUME NEW t \in Threads, SpuriousWakeup(t) PROVE DataInv'
  BY <1>46 DEF SpuriousWakeup
<1>47. CASE UNCHANGED vars
  BY <1>47
<1>48. QED
  BY <1>1, <1>2, <1>3, <1>4, <1>5, <1>6, <1>7, <1>8, <1>9, <1>10, <1>11,
     <1>12, <1>13, <1>14, <1>15, <1>16, <1>17, <1>18, <1>19, <1>20, <1>21,
     <1>22, <1>23, <1>24, <1>25, <1>26, <1>27, <1>28, <1>29, <1>30, <1>31,
     <1>32, <1>33, <1>34, <1>35, <1>36, <1>37, <1>38, <1>39, <1>40, <1>41,
     <1>42, <1>43, <1>44, <1>45, <1>46, <1>47
  DEF Next, WorkerStep, ClientCall, ClientStep

(* The two parts of DataInv hold in every reachable state. *)
LEMMA DataAlways == Spec => []DataInv
BY DataInit, DataStep, PTL DEF Spec

(* Every variable stays in the set the C type and the protocol give it. *)
THEOREM TypeCorrect == Spec => []TypeOK
<1>1. DataInv => TypeOK
  BY DEF DataInv
<1>2. QED
  BY <1>1, DataAlways, PTL

(* A thread holds a job exactly between taking it and giving it up. *)
THEOREM JobsHeld == Spec => []JobInv
<1>1. DataInv => JobInv
  BY DEF DataInv
<1>2. QED
  BY <1>1, DataAlways, PTL

------------------------------------------------------------------------------
(* Mutual exclusion *)

(* A step that neither locks nor unlocks, and stays inside or outside each *)
(* critical section, keeps the owners right.                               *)
LEMMA SameSections ==
  ASSUME TypeOK, MutexInv, NEW t \in Threads, NEW from, NEW to,
         pc[t] = from, pc' = [pc EXCEPT ![t] = to], owner' = owner,
         \A m \in Mutexes : from \in Holding(m) <=> to \in Holding(m)
  PROVE  MutexInv'
BY DEF TypeOK, MutexInv

(* A thread that locks the mutex of the critical section it enters, or     *)
(* unlocks that of the one it leaves, and no other, keeps the owners right. *)
LEMMA EntersSection ==
  ASSUME TypeOK, MutexInv, NEW t \in Threads, NEW m \in Mutexes, NEW from, NEW to,
         pc[t] = from, pc' = [pc EXCEPT ![t] = to],
         owner[m] = Nobody, owner' = [owner EXCEPT ![m] = t],
         to \in Holding(m),
         \A n \in Mutexes : n # m => (from \in Holding(n) <=> to \in Holding(n))
  PROVE  MutexInv'
<1>1. \A u \in Threads : u # Nobody
  BY PoolAssumption DEF PoolAssumption
<1>2. \A n \in Mutexes : owner'[n] = IF n = m THEN t ELSE owner[n]
  BY DEF TypeOK
<1>3. \A u \in Threads : pc'[u] = IF u = t THEN to ELSE pc[u]
  BY DEF TypeOK
<1>4. QED
  BY <1>1, <1>2, <1>3 DEF MutexInv

LEMMA LeavesSection ==
  ASSUME TypeOK, MutexInv, NEW t \in Threads, NEW m \in Mutexes, NEW from, NEW to,
         pc[t] = from, pc' = [pc EXCEPT ![t] = to],
         owner' = [owner EXCEPT ![m] = Nobody],
         from \in Holding(m), to \notin Holding(m),
         \A n \in Mutexes : n # m => (from \in Holding(n) <=> to \in Holding(n))
  PROVE  MutexInv'
<1>1. \A u \in Threads : u # Nobody
  BY PoolAssumption DEF PoolAssumption
<1>2. \A n \in Mutexes : owner'[n] = IF n = m THEN Nobody ELSE owner[n]
  BY DEF TypeOK
<1>3. \A u \in Threads : pc'[u] = IF u = t THEN to ELSE pc[u]
  BY DEF TypeOK
<1>4. QED
  BY <1>1, <1>2, <1>3 DEF MutexInv

(* At the start nobody owns a mutex and nobody is in a critical section. *)
LEMMA MutexInit == Init => MutexInv
<1> SUFFICES ASSUME Init PROVE MutexInv
  OBVIOUS
<1>1. \A t \in Threads : pc[t] \in {"unborn", "spawn"}
  BY DEF Init
<1>2. \A m \in Mutexes : owner[m] = Nobody
  BY DEF Init
<1>3. \A m \in Mutexes, t \in Threads : owner[m] # t
  BY <1>2, PoolAssumption DEF PoolAssumption
<1>4. \A m \in Mutexes : "unborn" \notin Holding(m) /\ "spawn" \notin Holding(m)
  BY DEF Mutexes, Holding
<1>5. QED
  BY <1>1, <1>3, <1>4 DEF MutexInv

(* Every action enters and leaves the critical sections it locks and unlocks. *)
LEMMA MutexStep ==
  DataInv /\ MutexInv /\ [Next]_vars => MutexInv'
<1> SUFFICES ASSUME DataInv, MutexInv, [Next]_vars
             PROVE  MutexInv'
  OBVIOUS
<1>a. TypeOK /\ MutexInv /\ Client \in Threads /\ \A w \in Workers : w \in Threads
  BY DEF DataInv, Threads
<1> USE PoolAssumption
    DEF PoolAssumption, DataInv, TypeOK, JobInv, Threads, Mutexes,
        WorkerPC, ClientPC, WorkingPC, WaitPC, vars, sem, jobs, counts,
        signals, Step, Lock, Unlock, Post, Call, MutexInv, Holding
<1>1. ASSUME NEW w \in Workers, Boot(w) PROVE MutexInv'
  BY <1>1 DEF Boot
<1>2. ASSUME NEW w \in Workers, BecomeAlive(w) PROVE MutexInv'
  BY <1>2 DEF BecomeAlive
<1>3. ASSUME NEW w \in Workers, TestLoop(w) PROVE MutexInv'
  BY <1>3 DEF TestLoop
<1>4. ASSUME NEW w \in Workers, BsemLock(w) PROVE MutexInv'
  BY <1>4 DEF BsemLock
<1>5. ASSUME NEW w \in Workers, BsemTake(w) PROVE MutexInv'
  BY <1>5 DEF BsemTake
<1>6. ASSUME NEW w \in Workers, BsemBlock(w) PROVE MutexInv'
  BY <1>6 DEF BsemBlock
<1>7. ASSUME NEW w \in Workers, BsemWake(w) PROVE MutexInv'
  BY <1>7 DEF BsemWake
<1>8. ASSUME NEW w \in Workers, TestAgain(w) PROVE MutexInv'
  BY <1>8 DEF TestAgain
<1>9. ASSUME NEW w \in Workers, IncLock(w) PROVE MutexInv'
  BY <1>9 DEF IncLock
<1>10. ASSUME NEW w \in Workers, IncWorking(w) PROVE MutexInv'
  BY <1>10 DEF IncWorking
<1>11. ASSUME NEW w \in Workers, PullLock(w) PROVE MutexInv'
  BY <1>11 DEF PullLock
<1>12. ASSUME NEW w \in Workers, PullNone(w) PROVE MutexInv'
  BY <1>12 DEF PullNone
<1>13. ASSUME NEW w \in Workers, PullLast(w) PROVE MutexInv'
  BY <1>13 DEF PullLast
<1>14. ASSUME NEW w \in Workers, PullOne(w) PROVE MutexInv'
  <2>1. pc' = [pc EXCEPT ![w] = "repost_lock"] /\ owner' = owner /\ pc[w] = "pull_cs"
    BY <1>14 DEF PullOne
  <2>2. \A m \in Mutexes : "pull_cs" \in Holding(m) <=> "repost_lock" \in Holding(m)
    OBVIOUS
  <2> HIDE DEF TypeOK, MutexInv, Holding, Mutexes, Threads
  <2>3. QED
    BY <1>a, <2>1, <2>2, SameSections
<1>15. ASSUME NEW w \in Workers, RepostLock(w) PROVE MutexInv'
  BY <1>15 DEF RepostLock
<1>16. ASSUME NEW w \in Workers, Repost(w) PROVE MutexInv'
  BY <1>16 DEF Repost
<1>17. ASSUME NEW w \in Workers, FinishJob(w) PROVE MutexInv'
  BY <1>17 DEF FinishJob
<1>18. ASSUME NEW w \in Workers, DecLock(w) PROVE MutexInv'
  BY <1>18 DEF DecLock
<1>19. ASSUME NEW w \in Workers, DecWorking(w) PROVE MutexInv'
  BY <1>19 DEF DecWorking
<1>20. ASSUME NEW w \in Workers, ExitLock(w) PROVE MutexInv'
  BY <1>20 DEF ExitLock
<1>21. ASSUME NEW w \in Workers, Exit(w) PROVE MutexInv'
  BY <1>21 DEF Exit
<1>22. ASSUME NEW w \in Workers, ExitUnlock(w) PROVE MutexInv'
  BY <1>22 DEF ExitUnlock
<1>23. ASSUME NEW w \in Workers, HandlerExit(w) PROVE MutexInv'
  BY <1>23 DEF HandlerExit
<1>24. ASSUME NEW w \in Workers, HandlerEnter(w) PROVE MutexInv'
  BY <1>24 DEF HandlerEnter
<1>25. ASSUME NEW j \in Jobs, AddWork(j) PROVE MutexInv'
  <2>1. pc' = [pc EXCEPT ![Client] = "push_lock"] /\ owner' = owner /\ pc[Client] = "idle"
    BY <1>25 DEF AddWork
  <2>2. \A m \in Mutexes : "idle" \in Holding(m) <=> "push_lock" \in Holding(m)
    OBVIOUS
  <2> HIDE DEF TypeOK, MutexInv, Holding, Mutexes, Threads
  <2>3. QED
    BY <1>a, <2>1, <2>2, SameSections
<1>26. CASE Wait
  BY <1>26 DEF Wait
<1>27. CASE Pause
  BY <1>27 DEF Pause
<1>28. CASE Resume
  BY <1>28 DEF Resume
<1>29. CASE Destroy
  BY <1>29 DEF Destroy
<1>30. CASE Spawn
  BY <1>30 DEF Spawn
<1>31. CASE Spawned
  <2>1. pc' = [pc EXCEPT ![Client] = "spin"] /\ owner' = owner /\ pc[Client] = "spawn"
    BY <1>31 DEF Spawned
  <2>2. \A m \in Mutexes : "spawn" \in Holding(m) <=> "spin" \in Holding(m)
    OBVIOUS
  <2> HIDE DEF TypeOK, MutexInv, Holding, Mutexes, Threads
  <2>3. QED
    BY <1>a, <2>1, <2>2, SameSections
<1>32. CASE InitDone
  BY <1>32 DEF InitDone
<1>33. CASE PushLock
  BY <1>33 DEF PushLock
<1>34. CASE Push
  <2>1. pc' = [pc EXCEPT ![Client] = "post_lock"] /\ owner' = owner /\ pc[Client] = "push_cs"
    BY <1>34 DEF Push
  <2>2. \A m \in Mutexes : "push_cs" \in Holding(m) <=> "post_lock" \in Holding(m)
    OBVIOUS
  <2> HIDE DEF TypeOK, MutexInv, Holding, Mutexes, Threads
  <2>3. QED
    BY <1>a, <2>1, <2>2, SameSections
<1>35. CASE PostLock
  <2>1. /\ pc' = [pc EXCEPT ![Client] = "post_cs"] /\ pc[Client] = "post_lock"
        /\ owner["bsem"] = Nobody /\ owner' = [owner EXCEPT !["bsem"] = Client]
    BY <1>35 DEF PostLock
  <2>2. /\ "bsem" \in Mutexes /\ "post_cs" \in Holding("bsem")
        /\ \A n \in Mutexes : n # "bsem" => ("post_lock" \in Holding(n) <=> "post_cs" \in Holding(n))
    OBVIOUS
  <2> HIDE DEF TypeOK, MutexInv, Holding, Mutexes, Threads
  <2>3. QED
    BY <1>a, <2>1, <2>2, EntersSection
<1>36. CASE PushPost
  BY <1>36 DEF PushPost
<1>37. CASE WaitLock
  BY <1>37 DEF WaitLock
<1>38. CASE WaitBlock
  <2>1. /\ pc' = [pc EXCEPT ![Client] = "wait_blocked"] /\ pc[Client] = "wait_cs"
        /\ owner' = [owner EXCEPT !["thcount"] = Nobody]
    BY <1>38 DEF WaitBlock
  <2>2. /\ "thcount" \in Mutexes
        /\ "wait_cs" \in Holding("thcount") /\ "wait_blocked" \notin Holding("thcount")
        /\ \A n \in Mutexes : n # "thcount" => ("wait_cs" \in Holding(n) <=> "wait_blocked" \in Holding(n))
    OBVIOUS
  <2> HIDE DEF TypeOK, MutexInv, Holding, Mutexes, Threads
  <2>3. QED
    BY <1>a, <2>1, <2>2, LeavesSection
<1>39. CASE WaitWake
  BY <1>39 DEF WaitWake
<1>40. CASE WaitOver
  BY <1>40 DEF WaitOver
<1>41. CASE WaitReturn
  <2>1. /\ pc' = [pc EXCEPT ![Client] = "idle"] /\ pc[Client] = "wait_unlock"
        /\ owner' = [owner EXCEPT !["thcount"] = Nobody]
    BY <1>41 DEF WaitReturn
  <2>2. /\ "thcount" \in Mutexes
        /\ "wait_unlock" \in Holding("thcount") /\ "idle" \notin Holding("thcount")
        /\ \A n \in Mutexes : n # "thcount" => ("wait_unlock" \in Holding(n) <=> "idle" \in Holding(n))
    OBVIOUS
  <2> HIDE DEF TypeOK, MutexInv, Holding, Mutexes, Threads
  <2>3. QED
    BY <1>a, <2>1, <2>2, LeavesSection
<1>42. CASE DestroyPoll
  BY <1>42 DEF DestroyPoll
<1>43. CASE BcastLock
  BY <1>43 DEF BcastLock
<1>44. CASE Broadcast
  <2>1. /\ pc' = [pc EXCEPT ![Client] = "destroy"] /\ pc[Client] = "bcast_cs"
        /\ owner' = [owner EXCEPT !["bsem"] = Nobody]
    BY <1>44 DEF Broadcast
  <2>2. /\ "bsem" \in Mutexes
        /\ "bcast_cs" \in Holding("bsem") /\ "destroy" \notin Holding("bsem")
        /\ \A n \in Mutexes : n # "bsem" => ("bcast_cs" \in Holding(n) <=> "destroy" \in Holding(n))
    OBVIOUS
  <2> HIDE DEF TypeOK, MutexInv, Holding, Mutexes, Threads
  <2>3. QED
    BY <1>a, <2>1, <2>2, LeavesSection
<1>45. CASE Free
  <2>1. pc' = [pc EXCEPT ![Client] = "gone"] /\ owner' = owner /\ pc[Client] = "destroy"
    BY <1>45 DEF Free
  <2>2. \A m \in Mutexes : "destroy" \in Holding(m) <=> "gone" \in Holding(m)
    OBVIOUS
  <2> HIDE DEF TypeOK, MutexInv, Holding, Mutexes, Threads
  <2>3. QED
    BY <1>a, <2>1, <2>2, SameSections
<1>46. ASSUME NEW t \in Threads, SpuriousWakeup(t) PROVE MutexInv'
  BY <1>46 DEF SpuriousWakeup
<1>47. CASE UNCHANGED vars
  BY <1>47
<1>48. QED
  BY <1>1, <1>2, <1>3, <1>4, <1>5, <1>6, <1>7, <1>8, <1>9, <1>10, <1>11,
     <1>12, <1>13, <1>14, <1>15, <1>16, <1>17, <1>18, <1>19, <1>20, <1>21,
     <1>22, <1>23, <1>24, <1>25, <1>26, <1>27, <1>28, <1>29, <1>30, <1>31,
     <1>32, <1>33, <1>34, <1>35, <1>36, <1>37, <1>38, <1>39, <1>40, <1>41,
     <1>42, <1>43, <1>44, <1>45, <1>46, <1>47
  DEF Next, WorkerStep, ClientCall, ClientStep

(* No two threads are ever in a critical section of the same mutex. *)
THEOREM MutualExclusion == Spec => []MutexInv
BY MutexInit, MutexStep, DataAlways, PTL DEF Spec

------------------------------------------------------------------------------
(* The counters *)

(* No worker has counted itself yet. *)
LEMMA CountInit == Init => CountInv
<1> SUFFICES ASSUME Init PROVE CountInv
  OBVIOUS
<1>1. \A w \in Workers : pc[w] = "unborn"
  BY PoolAssumption DEF PoolAssumption, Init, Threads
<1>2. Busy = {} /\ Alive = {}
  BY <1>1 DEF Busy, Alive, WorkingPC
<1>3. num_threads_working = 0 /\ num_threads_alive = 0
  BY DEF Init
<1>4. QED
  BY <1>2, <1>3, FS_EmptySet DEF CountInv

(* The four actions that move a counter move one worker in or out of the   *)
(* set it counts; all others leave both alone.                             *)
LEMMA CountStep ==
  DataInv /\ CountInv /\ [Next]_vars => CountInv'
<1> SUFFICES ASSUME DataInv, CountInv, [Next]_vars
             PROVE  CountInv'
  OBVIOUS
<1> DEFINE Same == /\ Busy' = Busy /\ Alive' = Alive
                   /\ num_threads_working' = num_threads_working
                   /\ num_threads_alive' = num_threads_alive
<1>1. Same => CountInv'
  BY DEF CountInv
<1>2. IsFiniteSet(Busy) /\ IsFiniteSet(Alive)
  BY FS_Subset, PoolAssumption DEF PoolAssumption, Busy, Alive
<1> USE PoolAssumption
    DEF PoolAssumption, DataInv, TypeOK, JobInv, Threads, Mutexes,
        WorkerPC, ClientPC, WorkingPC, WaitPC, vars, sem, jobs, counts,
        signals, Step, Lock, Unlock, Post, Call
<1>3. ASSUME NEW w \in Workers, Boot(w) PROVE Same
  BY <1>3 DEF Boot, Busy, Alive
<1>4. ASSUME NEW w \in Workers, BecomeAlive(w) PROVE CountInv'
  <2>1. Busy' = Busy /\ num_threads_working' = num_threads_working
    BY <1>4 DEF BecomeAlive, Busy, Alive
  <2>2. /\ w \notin Alive /\ Alive' = Alive \cup {w}
        /\ num_threads_alive' = num_threads_alive + 1
    BY <1>4 DEF BecomeAlive, Busy, Alive
  <2>3. QED
    BY <1>2, <2>1, <2>2, FS_AddElement DEF CountInv
<1>5. ASSUME NEW w \in Workers, TestLoop(w) PROVE Same
  BY <1>5 DEF TestLoop, Busy, Alive
<1>6. ASSUME NEW w \in Workers, BsemLock(w) PROVE Same
  BY <1>6 DEF BsemLock, Busy, Alive
<1>7. ASSUME NEW w \in Workers, BsemTake(w) PROVE Same
  BY <1>7 DEF BsemTake, Busy, Alive
<1>8. ASSUME NEW w \in Workers, BsemBlock(w) PROVE Same
  BY <1>8 DEF BsemBlock, Busy, Alive
<1>9. ASSUME NEW w \in Workers, BsemWake(w) PROVE Same
  BY <1>9 DEF BsemWake, Busy, Alive
<1>10. ASSUME NEW w \in Workers, TestAgain(w) PROVE Same
  BY <1>10 DEF TestAgain, Busy, Alive
<1>11. ASSUME NEW w \in Workers, IncLock(w) PROVE Same
  BY <1>11 DEF IncLock, Busy, Alive
<1>12. ASSUME NEW w \in Workers, IncWorking(w) PROVE CountInv'
  <2>1. Alive' = Alive /\ num_threads_alive' = num_threads_alive
    BY <1>12 DEF IncWorking, Busy, Alive
  <2>2. /\ w \notin Busy /\ Busy' = Busy \cup {w}
        /\ num_threads_working' = num_threads_working + 1
    BY <1>12 DEF IncWorking, Busy, Alive
  <2>3. QED
    BY <1>2, <2>1, <2>2, FS_AddElement DEF CountInv
<1>13. ASSUME NEW w \in Workers, PullLock(w) PROVE Same
  BY <1>13 DEF PullLock, Busy, Alive
<1>14. ASSUME NEW w \in Workers, PullNone(w) PROVE Same
  BY <1>14 DEF PullNone, Busy, Alive
<1>15. ASSUME NEW w \in Workers, PullLast(w) PROVE Same
  BY <1>15 DEF PullLast, Busy, Alive
<1>16. ASSUME NEW w \in Workers, PullOne(w) PROVE Same
  BY <1>16 DEF PullOne, Busy, Alive
<1>17. ASSUME NEW w \in Workers, RepostLock(w) PROVE Same
  BY <1>17 DEF RepostLock, Busy, Alive
<1>18. ASSUME NEW w \in Workers, Repost(w) PROVE Same
  BY <1>18 DEF Repost, Busy, Alive
<1>19. ASSUME NEW w \in Workers, FinishJob(w) PROVE Same
  BY <1>19 DEF FinishJob, Busy, Alive
<1>20. ASSUME NEW w \in Workers, DecLock(w) PROVE Same
  BY <1>20 DEF DecLock, Busy, Alive
<1>21. ASSUME NEW w \in Workers, DecWorking(w) PROVE CountInv'
  <2>1. Alive' = Alive /\ num_threads_alive' = num_threads_alive
    BY <1>21 DEF DecWorking, Busy, Alive
  <2>2. /\ w \in Busy /\ Busy' = Busy \ {w}
        /\ num_threads_working' = num_threads_working - 1
    BY <1>21 DEF DecWorking, Busy, Alive
  <2>3. QED
    BY <1>2, <2>1, <2>2, FS_RemoveElement DEF CountInv
<1>22. ASSUME NEW w \in Workers, ExitLock(w) PROVE Same
  BY <1>22 DEF ExitLock, Busy, Alive
<1>23. ASSUME NEW w \in Workers, Exit(w) PROVE CountInv'
  <2>1. Busy' = Busy /\ num_threads_working' = num_threads_working
    BY <1>23 DEF Exit, Busy, Alive
  <2>2. /\ w \in Alive /\ Alive' = Alive \ {w}
        /\ num_threads_alive' = num_threads_alive - 1
    BY <1>23 DEF Exit, Busy, Alive
  <2>3. QED
    BY <1>2, <2>1, <2>2, FS_RemoveElement DEF CountInv
<1>24. ASSUME NEW w \in Workers, ExitUnlock(w) PROVE Same
  BY <1>24 DEF ExitUnlock, Busy, Alive
<1>25. ASSUME NEW w \in Workers, HandlerExit(w) PROVE Same
  BY <1>25 DEF HandlerExit, Busy, Alive
<1>26. ASSUME NEW w \in Workers, HandlerEnter(w) PROVE Same
  BY <1>26 DEF HandlerEnter, Busy, Alive
<1>27. ASSUME NEW j \in Jobs, AddWork(j) PROVE Same
  BY <1>27 DEF AddWork, Busy, Alive
<1>28. ASSUME Wait PROVE Same
  BY <1>28 DEF Wait, Busy, Alive
<1>29. ASSUME Pause PROVE Same
  BY <1>29 DEF Pause, Busy, Alive
<1>30. ASSUME Resume PROVE Same
  BY <1>30 DEF Resume, Busy, Alive
<1>31. ASSUME Destroy PROVE Same
  BY <1>31 DEF Destroy, Busy, Alive
<1>32. ASSUME Spawn PROVE Same
  BY <1>32 DEF Spawn, Busy, Alive
<1>33. ASSUME Spawned PROVE Same
  BY <1>33 DEF Spawned, Busy, Alive
<1>34. ASSUME InitDone PROVE Same
  BY <1>34 DEF InitDone, Busy, Alive
<1>35. ASSUME PushLock PROVE Same
  BY <1>35 DEF PushLock, Busy, Alive
<1>36. ASSUME Push PROVE Same
  BY <1>36 DEF Push, Busy, Alive
<1>37. ASSUME PostLock PROVE Same
  BY <1>37 DEF PostLock, Busy, Alive
<1>38. ASSUME PushPost PROVE Same
  BY <1>38 DEF PushPost, Busy, Alive
<1>39. ASSUME WaitLock PROVE Same
  BY <1>39 DEF WaitLock, Busy, Alive
<1>40. ASSUME WaitBlock PROVE Same
  BY <1>40 DEF WaitBlock, Busy, Alive
<1>41. ASSUME WaitWake PROVE Same
  BY <1>41 DEF WaitWake, Busy, Alive
<1>42. ASSUME WaitOver PROVE Same
  BY <1>42 DEF WaitOver, Busy, Alive
<1>43. ASSUME WaitReturn PROVE Same
  BY <1>43 DEF WaitReturn, Busy, Alive
<1>44. ASSUME DestroyPoll PROVE Same
  BY <1>44 DEF DestroyPoll, Busy, Alive
<1>45. ASSUME BcastLock PROVE Same
  BY <1>45 DEF BcastLock, Busy, Alive
<1>46. ASSUME Broadcast PROVE Same
  BY <1>46 DEF Broadcast, Busy, Alive
<1>47. ASSUME Free PROVE Same
  BY <1>47 DEF Free, Busy, Alive
<1>48. ASSUME NEW t \in Threads, SpuriousWakeup(t) PROVE Same
  BY <1>48 DEF SpuriousWakeup, Busy, Alive
<1>49. ASSUME UNCHANGED vars PROVE Same
  BY <1>49 DEF Busy, Alive
<1>50. QED
  BY <1>1, <1>3, <1>4, <1>5, <1>6, <1>7, <1>8, <1>9, <1>10, <1>11, <1>12,
     <1>13, <1>14, <1>15, <1>16, <1>17, <1>18, <1>19, <1>20, <1>21, <1>22,
     <1>23, <1>24, <1>25, <1>26, <1>27, <1>28, <1>29, <1>30, <1>31, <1>32,
     <1>33, <1>34, <1>35, <1>36, <1>37, <1>38, <1>39, <1>40, <1>41, <1>42,
     <1>43, <1>44, <1>45, <1>46, <1>47, <1>48, <1>49
  DEF Next, WorkerStep, ClientCall, ClientStep

(* num_threads_working and num_threads_alive count exactly the workers that *)
(* are working and alive.                                                  *)
THEOREM CountsAgree == Spec => []CountInv
BY CountInit, CountStep, DataAlways, PTL DEF Spec

(* A worker that is working is seen in num_threads_working. *)
LEMMA BusyIsCounted ==
  ASSUME TypeOK, CountInv
  PROVE  /\ num_threads_working \in Nat
         /\ \A w \in Workers : pc[w] \in WorkingPC => num_threads_working > 0
<1>1. IsFiniteSet(Busy)
  BY FS_Subset, PoolAssumption DEF PoolAssumption, Busy
<1>2. num_threads_working \in Nat
  BY <1>1, FS_CardinalityType DEF CountInv
<1>3. ASSUME NEW w \in Workers, pc[w] \in WorkingPC PROVE num_threads_working > 0
  <2>1. Busy # {}
    BY <1>3 DEF Busy
  <2>2. num_threads_working # 0
    BY <1>1, <2>1, FS_EmptySet DEF CountInv
  <2>3. QED
    BY <1>2, <2>2
<1>4. QED
  BY <1>2, <1>3

------------------------------------------------------------------------------
(* thpool_wait *)

(* The client has not called anything yet. *)
LEMMA JoinInit == Init => WaitJoins
BY PoolAssumption DEF PoolAssumption, Init, WaitJoins, Threads

(* At WaitOver the count is zero, so no worker is in WorkingPC, and a      *)
(* worker outside it has no job.  Afterwards only the client could add one. *)
LEMMA JoinStep ==
  DataInv /\ CountInv /\ WaitJoins /\ [Next]_vars => WaitJoins'
<1> SUFFICES ASSUME DataInv, CountInv, WaitJoins, [Next]_vars
             PROVE  WaitJoins'
  OBVIOUS
<1> USE PoolAssumption
    DEF PoolAssumption, DataInv, TypeOK, JobInv, Threads, Mutexes,
        WorkerPC, ClientPC, WorkingPC, WaitPC, vars, sem, jobs, counts,
        signals, Step, Lock, Unlock, Post, Call, WaitJoins
<1>1. ASSUME NEW w \in Workers, Boot(w) PROVE WaitJoins'
  BY <1>1 DEF Boot
<1>2. ASSUME NEW w \in Workers, BecomeAlive(w) PROVE WaitJoins'
  BY <1>2 DEF BecomeAlive
<1>3. ASSUME NEW w \in Workers, TestLoop(w) PROVE WaitJoins'
  BY <1>3 DEF TestLoop
<1>4. ASSUME NEW w \in Workers, BsemLock(w) PROVE WaitJoins'
  BY <1>4 DEF BsemLock
<1>5. ASSUME NEW w \in Workers, BsemTake(w) PROVE WaitJoins'
  BY <1>5 DEF BsemTake
<1>6. ASSUME NEW w \in Workers, BsemBlock(w) PROVE WaitJoins'
  BY <1>6 DEF BsemBlock
<1>7. ASSUME NEW w \in Workers, BsemWake(w) PROVE WaitJoins'
  BY <1>7 DEF BsemWake
<1>8. ASSUME NEW w \in Workers, TestAgain(w) PROVE WaitJoins'
  BY <1>8 DEF TestAgain
<1>9. ASSUME NEW w \in Workers, IncLock(w) PROVE WaitJoins'
  BY <1>9 DEF IncLock
<1>10. ASSUME NEW w \in Workers, IncWorking(w) PROVE WaitJoins'
  BY <1>10 DEF IncWorking
<1>11. ASSUME NEW w \in Workers, PullLock(w) PROVE WaitJoins'
  BY <1>11 DEF PullLock
<1>12. ASSUME NEW w \in Workers, PullNone(w) PROVE WaitJoins'
  BY <1>12 DEF PullNone
<1>13. ASSUME NEW w \in Workers, PullLast(w) PROVE WaitJoins'
  BY <1>13 DEF PullLast
<1>14. ASSUME NEW w \in Workers, PullOne(w) PROVE WaitJoins'
  BY <1>14 DEF PullOne
<1>15. ASSUME NEW w \in Workers, RepostLock(w) PROVE WaitJoins'
  BY <1>15 DEF RepostLock
<1>16. ASSUME NEW w \in Workers, Repost(w) PROVE WaitJoins'
  BY <1>16 DEF Repost
<1>17. ASSUME NEW w \in Workers, FinishJob(w) PROVE WaitJoins'
  BY <1>17 DEF FinishJob
<1>18. ASSUME NEW w \in Workers, DecLock(w) PROVE WaitJoins'
  BY <1>18 DEF DecLock
<1>19. ASSUME NEW w \in Workers, DecWorking(w) PROVE WaitJoins'
  BY <1>19 DEF DecWorking
<1>20. ASSUME NEW w \in Workers, ExitLock(w) PROVE WaitJoins'
  BY <1>20 DEF ExitLock
<1>21. ASSUME NEW w \in Workers, Exit(w) PROVE WaitJoins'
  BY <1>21 DEF Exit
<1>22. ASSUME NEW w \in Workers, ExitUnlock(w) PROVE WaitJoins'
  BY <1>22 DEF ExitUnlock
<1>23. ASSUME NEW w \in Workers, HandlerExit(w) PROVE WaitJoins'
  BY <1>23 DEF HandlerExit
<1>24. ASSUME NEW w \in Workers, HandlerEnter(w) PROVE WaitJoins'
  BY <1>24 DEF HandlerEnter
<1>25. ASSUME NEW j \in Jobs, AddWork(j) PROVE WaitJoins'
  BY <1>25 DEF AddWork
<1>26. CASE Wait
  BY <1>26 DEF Wait
<1>27. CASE Pause
  BY <1>27 DEF Pause
<1>28. CASE Resume
  BY <1>28 DEF Resume
<1>29. CASE Destroy
  BY <1>29 DEF Destroy
<1>30. CASE Spawn
  BY <1>30 DEF Spawn
<1>31. CASE Spawned
  BY <1>31 DEF Spawned
<1>32. CASE InitDone
  BY <1>32 DEF InitDone
<1>33. CASE PushLock
  BY <1>33 DEF PushLock
<1>34. CASE Push
  BY <1>34 DEF Push
<1>35. CASE PostLock
  BY <1>35 DEF PostLock
<1>36. CASE PushPost
  BY <1>36 DEF PushPost
<1>37. CASE WaitLock
  BY <1>37 DEF WaitLock
<1>38. CASE WaitBlock
  BY <1>38 DEF WaitBlock
<1>39. CASE WaitWake
  BY <1>39 DEF WaitWake
<1>40. CASE WaitOver
  <2>1. Cardinality(Busy) = 0
    BY <1>40 DEF WaitOver, CountInv
  <2>2. IsFiniteSet(Busy)
    BY FS_Subset DEF Busy
  <2>3. Busy = {}
    BY <2>1, <2>2, FS_EmptySet
  <2>4. \A w \in Workers : pc[w] \notin WorkingPC
    BY <2>3 DEF Busy
  <2>5. queue = <<>> /\ queue' = queue /\ job_p' = job_p
    BY <1>40 DEF WaitOver
  <2>6. QED
    BY <2>4, <2>5
<1>41. CASE WaitReturn
  BY <1>41 DEF WaitReturn
<1>42. CASE DestroyPoll
  BY <1>42 DEF DestroyPoll
<1>43. CASE BcastLock
  BY <1>43 DEF BcastLock
<1>44. CASE Broadcast
  BY <1>44 DEF Broadcast
<1>45. CASE Free
  BY <1>45 DEF Free
<1>46. ASSUME NEW t \in Threads, SpuriousWakeup(t) PROVE WaitJoins'
  BY <1>46 DEF SpuriousWakeup
<1>47. CASE UNCHANGED vars
  BY <1>47
<1>48. QED
  BY <1>1, <1>2, <1>3, <1>4, <1>5, <1>6, <1>7, <1>8, <1>9, <1>10, <1>11,
     <1>12, <1>13, <1>14, <1>15, <1>16, <1>17, <1>18, <1>19, <1>20, <1>21,
     <1>22, <1>23, <1>24, <1>25, <1>26, <1>27, <1>28, <1>29, <1>30, <1>31,
     <1>32, <1>33, <1>34, <1>35, <1>36, <1>37, <1>38, <1>39, <1>40, <1>41,
     <1>42, <1>43, <1>44, <1>45, <1>46, <1>47
  DEF Next, WorkerStep, ClientCall, ClientStep

(* thpool_wait is a barrier: when it returns, every added job has finished. *)
THEOREM WaitIsBarrier == Spec => []WaitJoins
BY JoinInit, JoinStep, DataAlways, CountsAgree, PTL DEF Spec

(* The client is among the waiters only where pthread_cond_wait put it. *)
WaiterInv ==
  /\ WaiterIsSignalled
  /\ Client \in threads_all_idle => pc[Client] = "wait_blocked"

(* Nobody waits at the start. *)
LEMMA WaiterInit == Init => WaiterInv
BY DEF Init, WaiterInv, WaiterIsSignalled

(* The worker that empties the queue is counted while it does so, and the  *)
(* one that brings the count to zero wakes the client.                     *)
LEMMA WaiterStep ==
  DataInv /\ CountInv /\ WaiterInv /\ [Next]_vars => WaiterInv'
<1> SUFFICES ASSUME DataInv, CountInv, WaiterInv, [Next]_vars
             PROVE  WaiterInv'
  OBVIOUS
<1> USE PoolAssumption
    DEF PoolAssumption, DataInv, TypeOK, JobInv, Threads, Mutexes,
        WorkerPC, ClientPC, WorkingPC, WaitPC, vars, sem, jobs, counts,
        signals, Step, Lock, Unlock, Post, Call, WaiterInv,
        WaiterIsSignalled
<1>1. ASSUME NEW w \in Workers, Boot(w) PROVE WaiterInv'
  BY <1>1 DEF Boot
<1>2. ASSUME NEW w \in Workers, BecomeAlive(w) PROVE WaiterInv'
  BY <1>2 DEF BecomeAlive
<1>3. ASSUME NEW w \in Workers, TestLoop(w) PROVE WaiterInv'
  BY <1>3 DEF TestLoop
<1>4. ASSUME NEW w \in Workers, BsemLock(w) PROVE WaiterInv'
  BY <1>4 DEF BsemLock
<1>5. ASSUME NEW w \in Workers, BsemTake(w) PROVE WaiterInv'
  BY <1>5 DEF BsemTake
<1>6. ASSUME NEW w \in Workers, BsemBlock(w) PROVE WaiterInv'
  BY <1>6 DEF BsemBlock
<1>7. ASSUME NEW w \in Workers, BsemWake(w) PROVE WaiterInv'
  BY <1>7 DEF BsemWake
<1>8. ASSUME NEW w \in Workers, TestAgain(w) PROVE WaiterInv'
  BY <1>8 DEF TestAgain
<1>9. ASSUME NEW w \in Workers, IncLock(w) PROVE WaiterInv'
  BY <1>9 DEF IncLock
<1>10. ASSUME NEW w \in Workers, IncWorking(w) PROVE WaiterInv'
  BY <1>10 DEF IncWorking
<1>11. ASSUME NEW w \in Workers, PullLock(w) PROVE WaiterInv'
  BY <1>11 DEF PullLock
<1>12. ASSUME NEW w \in Workers, PullNone(w) PROVE WaiterInv'
  BY <1>12 DEF PullNone
<1>13. ASSUME NEW w \in Workers, PullLast(w) PROVE WaiterInv'
  BY <1>13, BusyIsCounted DEF PullLast
<1>14. ASSUME NEW w \in Workers, PullOne(w) PROVE WaiterInv'
  BY <1>14, BusyIsCounted DEF PullOne
<1>15. ASSUME NEW w \in Workers, RepostLock(w) PROVE WaiterInv'
  BY <1>15 DEF RepostLock
<1>16. ASSUME NEW w \in Workers, Repost(w) PROVE WaiterInv'
  BY <1>16 DEF Repost
<1>17. ASSUME NEW w \in Workers, FinishJob(w) PROVE WaiterInv'
  BY <1>17 DEF FinishJob
<1>18. ASSUME NEW w \in Workers, DecLock(w) PROVE WaiterInv'
  BY <1>18 DEF DecLock
<1>19. ASSUME NEW w \in Workers, DecWorking(w) PROVE WaiterInv'
  BY <1>19 DEF DecWorking
<1>20. ASSUME NEW w \in Workers, ExitLock(w) PROVE WaiterInv'
  BY <1>20 DEF ExitLock
<1>21. ASSUME NEW w \in Workers, Exit(w) PROVE WaiterInv'
  BY <1>21 DEF Exit
<1>22. ASSUME NEW w \in Workers, ExitUnlock(w) PROVE WaiterInv'
  BY <1>22 DEF ExitUnlock
<1>23. ASSUME NEW w \in Workers, HandlerExit(w) PROVE WaiterInv'
  BY <1>23 DEF HandlerExit
<1>24. ASSUME NEW w \in Workers, HandlerEnter(w) PROVE WaiterInv'
  BY <1>24 DEF HandlerEnter
<1>25. ASSUME NEW j \in Jobs, AddWork(j) PROVE WaiterInv'
  BY <1>25 DEF AddWork
<1>26. CASE Wait
  BY <1>26 DEF Wait
<1>27. CASE Pause
  BY <1>27 DEF Pause
<1>28. CASE Resume
  BY <1>28 DEF Resume
<1>29. CASE Destroy
  BY <1>29 DEF Destroy
<1>30. CASE Spawn
  BY <1>30 DEF Spawn
<1>31. CASE Spawned
  BY <1>31 DEF Spawned
<1>32. CASE InitDone
  BY <1>32 DEF InitDone
<1>33. CASE PushLock
  BY <1>33 DEF PushLock
<1>34. CASE Push
  BY <1>34 DEF Push
<1>35. CASE PostLock
  BY <1>35 DEF PostLock
<1>36. CASE PushPost
  BY <1>36 DEF PushPost
<1>37. CASE WaitLock
  BY <1>37 DEF WaitLock
<1>38. CASE WaitBlock
  BY <1>38, BusyIsCounted DEF WaitBlock
<1>39. CASE WaitWake
  BY <1>39 DEF WaitWake
<1>40. CASE WaitOver
  BY <1>40 DEF WaitOver
<1>41. CASE WaitReturn
  BY <1>41 DEF WaitReturn
<1>42. CASE DestroyPoll
  BY <1>42 DEF DestroyPoll
<1>43. CASE BcastLock
  BY <1>43 DEF BcastLock
<1>44. CASE Broadcast
  BY <1>44 DEF Broadcast
<1>45. CASE Free
  BY <1>45 DEF Free
<1>46. ASSUME NEW t \in Threads, SpuriousWakeup(t) PROVE WaiterInv'
  BY <1>46 DEF SpuriousWakeup
<1>47. CASE UNCHANGED vars
  BY <1>47
<1>48. QED
  BY <1>1, <1>2, <1>3, <1>4, <1>5, <1>6, <1>7, <1>8, <1>9, <1>10, <1>11,
     <1>12, <1>13, <1>14, <1>15, <1>16, <1>17, <1>18, <1>19, <1>20, <1>21,
     <1>22, <1>23, <1>24, <1>25, <1>26, <1>27, <1>28, <1>29, <1>30, <1>31,
     <1>32, <1>33, <1>34, <1>35, <1>36, <1>37, <1>38, <1>39, <1>40, <1>41,
     <1>42, <1>43, <1>44, <1>45, <1>46, <1>47
  DEF Next, WorkerStep, ClientCall, ClientStep

(* The client never sleeps in thpool_wait with nobody left to wake it. *)
THEOREM WaiterNotForgotten == Spec => []WaiterIsSignalled
<1>1. WaiterInv => WaiterIsSignalled
  BY DEF WaiterInv
<1>2. QED
  BY <1>1, WaiterInit, WaiterStep, DataAlways, CountsAgree, PTL DEF Spec

------------------------------------------------------------------------------
(* The job queue *)

(* The queue is empty at the start. *)
LEMMA ServedInit == Init => JobIsServed
BY DEF Init, JobIsServed

(* A token is consumed only by a worker that goes on to pull, and whoever  *)
(* leaves a job in the queue posts a new token before giving up rwmutex.   *)
LEMMA ServedStep ==
  Workers # {} /\ DataInv /\ JobIsServed /\ [Next]_vars => JobIsServed'
<1> SUFFICES ASSUME Workers # {}, DataInv, JobIsServed, [Next]_vars
             PROVE  JobIsServed'
  OBVIOUS
<1> USE PoolAssumption
    DEF PoolAssumption, DataInv, TypeOK, JobInv, Threads, Mutexes,
        WorkerPC, ClientPC, WorkingPC, WaitPC, vars, sem, jobs, counts,
        signals, Step, Lock, Unlock, Post, Call, JobIsServed
<1>1. ASSUME NEW w \in Workers, Boot(w) PROVE JobIsServed'
  BY <1>1 DEF Boot
<1>2. ASSUME NEW w \in Workers, BecomeAlive(w) PROVE JobIsServed'
  BY <1>2 DEF BecomeAlive
<1>3. ASSUME NEW w \in Workers, TestLoop(w) PROVE JobIsServed'
  BY <1>3 DEF TestLoop
<1>4. ASSUME NEW w \in Workers, BsemLock(w) PROVE JobIsServed'
  BY <1>4 DEF BsemLock
<1>5. ASSUME NEW w \in Workers, BsemTake(w) PROVE JobIsServed'
  BY <1>5 DEF BsemTake
<1>6. ASSUME NEW w \in Workers, BsemBlock(w) PROVE JobIsServed'
  BY <1>6 DEF BsemBlock
<1>7. ASSUME NEW w \in Workers, BsemWake(w) PROVE JobIsServed'
  BY <1>7 DEF BsemWake
<1>8. ASSUME NEW w \in Workers, TestAgain(w) PROVE JobIsServed'
  BY <1>8 DEF TestAgain
<1>9. ASSUME NEW w \in Workers, IncLock(w) PROVE JobIsServed'
  BY <1>9 DEF IncLock
<1>10. ASSUME NEW w \in Workers, IncWorking(w) PROVE JobIsServed'
  BY <1>10 DEF IncWorking
<1>11. ASSUME NEW w \in Workers, PullLock(w) PROVE JobIsServed'
  BY <1>11 DEF PullLock
<1>12. ASSUME NEW w \in Workers, PullNone(w) PROVE JobIsServed'
  BY <1>12 DEF PullNone
<1>13. ASSUME NEW w \in Workers, PullLast(w) PROVE JobIsServed'
  BY <1>13 DEF PullLast
<1>14. ASSUME NEW w \in Workers, PullOne(w) PROVE JobIsServed'
  BY <1>14 DEF PullOne
<1>15. ASSUME NEW w \in Workers, RepostLock(w) PROVE JobIsServed'
  BY <1>15 DEF RepostLock
<1>16. ASSUME NEW w \in Workers, Repost(w) PROVE JobIsServed'
  BY <1>16 DEF Repost
<1>17. ASSUME NEW w \in Workers, FinishJob(w) PROVE JobIsServed'
  BY <1>17 DEF FinishJob
<1>18. ASSUME NEW w \in Workers, DecLock(w) PROVE JobIsServed'
  BY <1>18 DEF DecLock
<1>19. ASSUME NEW w \in Workers, DecWorking(w) PROVE JobIsServed'
  BY <1>19 DEF DecWorking
<1>20. ASSUME NEW w \in Workers, ExitLock(w) PROVE JobIsServed'
  BY <1>20 DEF ExitLock
<1>21. ASSUME NEW w \in Workers, Exit(w) PROVE JobIsServed'
  BY <1>21 DEF Exit
<1>22. ASSUME NEW w \in Workers, ExitUnlock(w) PROVE JobIsServed'
  BY <1>22 DEF ExitUnlock
<1>23. ASSUME NEW w \in Workers, HandlerExit(w) PROVE JobIsServed'
  BY <1>23 DEF HandlerExit
<1>24. ASSUME NEW w \in Workers, HandlerEnter(w) PROVE JobIsServed'
  BY <1>24 DEF HandlerEnter
<1>25. ASSUME NEW j \in Jobs, AddWork(j) PROVE JobIsServed'
  BY <1>25 DEF AddWork
<1>26. CASE Wait
  BY <1>26 DEF Wait
<1>27. CASE Pause
  BY <1>27 DEF Pause
<1>28. CASE Resume
  BY <1>28 DEF Resume
<1>29. CASE Destroy
  BY <1>29 DEF Destroy
<1>30. CASE Spawn
  BY <1>30 DEF Spawn
<1>31. CASE Spawned
  BY <1>31 DEF Spawned
<1>32. CASE InitDone
  BY <1>32 DEF InitDone
<1>33. CASE PushLock
  BY <1>33 DEF PushLock
<1>34. CASE Push
  BY <1>34 DEF Push
<1>35. CASE PostLock
  BY <1>35 DEF PostLock
<1>36. CASE PushPost
  <2>1. bsem_v' = 1
    BY <1>36 DEF PushPost
  <2>2. bsem_cond' # Workers
    BY <1>36 DEF PushPost
  <2>3. QED
    BY <2>1, <2>2
<1>37. CASE WaitLock
  BY <1>37 DEF WaitLock
<1>38. CASE WaitBlock
  BY <1>38 DEF WaitBlock
<1>39. CASE WaitWake
  BY <1>39 DEF WaitWake
<1>40. CASE WaitOver
  BY <1>40 DEF WaitOver
<1>41. CASE WaitReturn
  BY <1>41 DEF WaitReturn
<1>42. CASE DestroyPoll
  BY <1>42 DEF DestroyPoll
<1>43. CASE BcastLock
  BY <1>43 DEF BcastLock
<1>44. CASE Broadcast
  BY <1>44 DEF Broadcast
<1>45. CASE Free
  BY <1>45 DEF Free
<1>46. ASSUME NEW t \in Threads, SpuriousWakeup(t) PROVE JobIsServed'
  <2>1. bsem_cond' \subseteq bsem_cond
    BY <1>46 DEF SpuriousWakeup
  <2>2. bsem_cond # Workers => bsem_cond' # Workers
    <3>1. bsem_cond \subseteq Workers
      OBVIOUS
    <3>2. QED
      BY ONLY <2>1, <3>1
  <2>3. pc' = pc /\ queue' = queue /\ bsem_v' = bsem_v
    BY <1>46 DEF SpuriousWakeup
  <2>4. threads_keepalive' = threads_keepalive
    BY <1>46 DEF SpuriousWakeup
  <2>5. QED
    BY <2>2, <2>3, <2>4
<1>47. CASE UNCHANGED vars
  BY <1>47
<1>48. QED
  BY <1>1, <1>2, <1>3, <1>4, <1>5, <1>6, <1>7, <1>8, <1>9, <1>10, <1>11,
     <1>12, <1>13, <1>14, <1>15, <1>16, <1>17, <1>18, <1>19, <1>20, <1>21,
     <1>22, <1>23, <1>24, <1>25, <1>26, <1>27, <1>28, <1>29, <1>30, <1>31,
     <1>32, <1>33, <1>34, <1>35, <1>36, <1>37, <1>38, <1>39, <1>40, <1>41,
     <1>42, <1>43, <1>44, <1>45, <1>46, <1>47
  DEF Next, WorkerStep, ClientCall, ClientStep

(* With at least one worker, a queued job is never stranded: a post is on  *)
(* its way, a worker is about to pull, or a token waits for an awake one.  *)
THEOREM JobsServed ==
  ASSUME Workers # {}
  PROVE  Spec => []JobIsServed
<1>1. DataInv /\ JobIsServed /\ [Next]_vars => JobIsServed'
  BY ServedStep
<1>2. QED
  BY <1>1, ServedInit, DataAlways, PTL DEF Spec

(* Nothing has been added. *)
LEMMA DistinctInit == Init => JobsDistinct
BY PoolAssumption DEF PoolAssumption, Init, JobsDistinct, Threads

(* A job moves from the client to the queue to one worker, never copied.    *)
LEMMA DistinctStep ==
  DataInv /\ JobsDistinct /\ [Next]_vars => JobsDistinct'
<1> SUFFICES ASSUME DataInv, JobsDistinct, [Next]_vars
             PROVE  JobsDistinct'
  OBVIOUS
<1> USE PoolAssumption
    DEF PoolAssumption, DataInv, TypeOK, JobInv, Threads, Mutexes,
        WorkerPC, ClientPC, WorkingPC, WaitPC, vars, sem, jobs, counts,
        signals, Step, Lock, Unlock, Post, Call, JobsDistinct
<1>1. ASSUME NEW w \in Workers, Boot(w) PROVE JobsDistinct'
  BY <1>1 DEF Boot
<1>2. ASSUME NEW w \in Workers, BecomeAlive(w) PROVE JobsDistinct'
  BY <1>2 DEF BecomeAlive
<1>3. ASSUME NEW w \in Workers, TestLoop(w) PROVE JobsDistinct'
  BY <1>3 DEF TestLoop
<1>4. ASSUME NEW w \in Workers, BsemLock(w) PROVE JobsDistinct'
  BY <1>4 DEF BsemLock
<1>5. ASSUME NEW w \in Workers, BsemTake(w) PROVE JobsDistinct'
  BY <1>5 DEF BsemTake
<1>6. ASSUME NEW w \in Workers, BsemBlock(w) PROVE JobsDistinct'
  BY <1>6 DEF BsemBlock
<1>7. ASSUME NEW w \in Workers, BsemWake(w) PROVE JobsDistinct'
  BY <1>7 DEF BsemWake
<1>8. ASSUME NEW w \in Workers, TestAgain(w) PROVE JobsDistinct'
  BY <1>8 DEF TestAgain
<1>9. ASSUME NEW w \in Workers, IncLock(w) PROVE JobsDistinct'
  BY <1>9 DEF IncLock
<1>10. ASSUME NEW w \in Workers, IncWorking(w) PROVE JobsDistinct'
  BY <1>10 DEF IncWorking
<1>11. ASSUME NEW w \in Workers, PullLock(w) PROVE JobsDistinct'
  BY <1>11 DEF PullLock
<1>12. ASSUME NEW w \in Workers, PullNone(w) PROVE JobsDistinct'
  BY <1>12 DEF PullNone
<1>13. ASSUME NEW w \in Workers, PullLast(w) PROVE JobsDistinct'
  BY <1>13 DEF PullLast
<1>14. ASSUME NEW w \in Workers, PullOne(w) PROVE JobsDistinct'
  BY <1>14 DEF PullOne
<1>15. ASSUME NEW w \in Workers, RepostLock(w) PROVE JobsDistinct'
  BY <1>15 DEF RepostLock
<1>16. ASSUME NEW w \in Workers, Repost(w) PROVE JobsDistinct'
  BY <1>16 DEF Repost
<1>17. ASSUME NEW w \in Workers, FinishJob(w) PROVE JobsDistinct'
  BY <1>17 DEF FinishJob
<1>18. ASSUME NEW w \in Workers, DecLock(w) PROVE JobsDistinct'
  BY <1>18 DEF DecLock
<1>19. ASSUME NEW w \in Workers, DecWorking(w) PROVE JobsDistinct'
  BY <1>19 DEF DecWorking
<1>20. ASSUME NEW w \in Workers, ExitLock(w) PROVE JobsDistinct'
  BY <1>20 DEF ExitLock
<1>21. ASSUME NEW w \in Workers, Exit(w) PROVE JobsDistinct'
  BY <1>21 DEF Exit
<1>22. ASSUME NEW w \in Workers, ExitUnlock(w) PROVE JobsDistinct'
  BY <1>22 DEF ExitUnlock
<1>23. ASSUME NEW w \in Workers, HandlerExit(w) PROVE JobsDistinct'
  BY <1>23 DEF HandlerExit
<1>24. ASSUME NEW w \in Workers, HandlerEnter(w) PROVE JobsDistinct'
  BY <1>24 DEF HandlerEnter
<1>25. ASSUME NEW j \in Jobs, AddWork(j) PROVE JobsDistinct'
  BY <1>25 DEF AddWork
<1>26. CASE Wait
  BY <1>26 DEF Wait
<1>27. CASE Pause
  BY <1>27 DEF Pause
<1>28. CASE Resume
  BY <1>28 DEF Resume
<1>29. CASE Destroy
  BY <1>29 DEF Destroy
<1>30. CASE Spawn
  BY <1>30 DEF Spawn
<1>31. CASE Spawned
  BY <1>31 DEF Spawned
<1>32. CASE InitDone
  BY <1>32 DEF InitDone
<1>33. CASE PushLock
  BY <1>33 DEF PushLock
<1>34. CASE Push
  BY <1>34 DEF Push
<1>35. CASE PostLock
  BY <1>35 DEF PostLock
<1>36. CASE PushPost
  BY <1>36 DEF PushPost
<1>37. CASE WaitLock
  BY <1>37 DEF WaitLock
<1>38. CASE WaitBlock
  BY <1>38 DEF WaitBlock
<1>39. CASE WaitWake
  BY <1>39 DEF WaitWake
<1>40. CASE WaitOver
  BY <1>40 DEF WaitOver
<1>41. CASE WaitReturn
  BY <1>41 DEF WaitReturn
<1>42. CASE DestroyPoll
  BY <1>42 DEF DestroyPoll
<1>43. CASE BcastLock
  BY <1>43 DEF BcastLock
<1>44. CASE Broadcast
  BY <1>44 DEF Broadcast
<1>45. CASE Free
  BY <1>45 DEF Free
<1>46. ASSUME NEW t \in Threads, SpuriousWakeup(t) PROVE JobsDistinct'
  BY <1>46 DEF SpuriousWakeup
<1>47. CASE UNCHANGED vars
  BY <1>47
<1>48. QED
  BY <1>1, <1>2, <1>3, <1>4, <1>5, <1>6, <1>7, <1>8, <1>9, <1>10, <1>11,
     <1>12, <1>13, <1>14, <1>15, <1>16, <1>17, <1>18, <1>19, <1>20, <1>21,
     <1>22, <1>23, <1>24, <1>25, <1>26, <1>27, <1>28, <1>29, <1>30, <1>31,
     <1>32, <1>33, <1>34, <1>35, <1>36, <1>37, <1>38, <1>39, <1>40, <1>41,
     <1>42, <1>43, <1>44, <1>45, <1>46, <1>47
  DEF Next, WorkerStep, ClientCall, ClientStep

(* No job is queued twice, and no two threads hold the same one. *)
THEOREM JobsStayDistinct == Spec => []JobsDistinct
BY DistinctInit, DistinctStep, DataAlways, PTL DEF Spec

------------------------------------------------------------------------------
(* thpool_destroy *)

(* A worker that has not counted itself would be missed by the poll: there *)
(* is none once thpool_init has returned.                                  *)
Started ==
  pc[Client] \notin {"spawn", "spin"} =>
    \A w \in Workers : pc[w] \notin {"unborn", "start", "start_cs"}

FreedInv == Started /\ FreedAtLastUnlock

LEMMA FreedInit == Init => FreedInv
BY PoolAssumption DEF PoolAssumption, Init, FreedInv, Started, FreedAtLastUnlock, Threads

LEMMA AllCounted ==
  ASSUME num_threads_alive = Cardinality(Workers), CountInv
  PROVE  Alive = Workers
<1>1. IsFiniteSet(Workers) /\ Alive \subseteq Workers
  BY PoolAssumption DEF PoolAssumption, Alive
<1>2. Cardinality(Alive) = Cardinality(Workers)
  BY DEF CountInv
<1>3. QED
  BY <1>1, <1>2, FS_Subset

LEMMA NoneCounted ==
  ASSUME num_threads_alive = 0, CountInv
  PROVE  Alive = {}
<1>1. IsFiniteSet(Alive)
  BY FS_Subset, PoolAssumption DEF PoolAssumption, Alive
<1>2. QED
  BY <1>1, FS_EmptySet DEF CountInv

(* A worker that leaves exit_unlock only dies, and no other worker comes   *)
(* back to the start; thpool_init and the poll read the counter when it    *)
(* counts every worker, or none.                                           *)
LEMMA FreedStep ==
  DataInv /\ CountInv /\ FreedInv /\ [Next]_vars => FreedInv'
<1> SUFFICES ASSUME DataInv, CountInv, FreedInv, [Next]_vars
             PROVE  FreedInv'
  OBVIOUS
<1> DEFINE Fresh == {"unborn", "start", "start_cs"}
           Gone  == {"exit_unlock", "dead"}
           Same  == pc' = pc
           Moves(w) == /\ \A t \in Threads \ {w} : pc'[t] = pc[t]
                       /\ pc'[w] \in Fresh => pc[w] \in Fresh
                       /\ pc[w] \in Gone => pc'[w] \in Gone
           Calls == /\ \A w \in Workers : pc'[w] = pc[w]
                    /\ pc[Client] \notin {"spawn", "spin"} \/ pc'[Client] = "spin"
                    /\ pc'[Client] # "gone"
<1> USE PoolAssumption DEF PoolAssumption, DataInv, TypeOK, Threads
<1>1. ASSUME NEW w \in Workers, Moves(w) PROVE FreedInv'
  BY <1>1 DEF FreedInv, Started, FreedAtLastUnlock
<1>2. ASSUME Same PROVE FreedInv'
  BY <1>2 DEF FreedInv, Started, FreedAtLastUnlock
<1>3. ASSUME Calls PROVE FreedInv'
  BY <1>3 DEF FreedInv, Started, FreedAtLastUnlock
<1>4. ASSUME NEW w \in Workers, WorkerStep(w) PROVE Moves(w) \/ Same
  <2>1. ASSUME Boot(w) \/ BecomeAlive(w) \/ TestLoop(w) \/ BsemLock(w) \/ BsemTake(w)
               \/ BsemBlock(w) \/ BsemWake(w)
        PROVE  Moves(w)
    BY <2>1 DEF Boot, BecomeAlive, TestLoop, BsemLock, BsemTake, BsemBlock,
         BsemWake, Lock, Step
  <2>2. ASSUME TestAgain(w) \/ IncLock(w) \/ IncWorking(w) \/ PullLock(w) \/ PullNone(w)
               \/ PullLast(w) \/ PullOne(w)
        PROVE  Moves(w)
    BY <2>2 DEF TestAgain, IncLock, IncWorking, PullLock, PullNone, PullLast,
         PullOne, Lock, Step
  <2>3. ASSUME RepostLock(w) \/ Repost(w) \/ FinishJob(w) \/ DecLock(w) \/ DecWorking(w)
               \/ ExitLock(w) \/ Exit(w) \/ ExitUnlock(w)
        PROVE  Moves(w)
    BY <2>3 DEF RepostLock, Repost, FinishJob, DecLock, DecWorking, ExitLock,
         Exit, ExitUnlock, Lock, Step
  <2>4. ASSUME HandlerExit(w) PROVE Same
    BY <2>4 DEF HandlerExit
  <2>5. QED
    BY <1>4, <2>1, <2>2, <2>3, <2>4 DEF WorkerStep
<1>5. ASSUME NEW w \in Workers, HandlerEnter(w) PROVE Same
  BY <1>5 DEF HandlerEnter
<1>6. ASSUME ClientCall PROVE Calls
  BY <1>6 DEF ClientCall, AddWork, Wait, Pause, Resume, Destroy, Call, Step
<1>7. ASSUME Spawn PROVE FreedInv'
  BY <1>7 DEF Spawn, FreedInv, Started, FreedAtLastUnlock
<1>8. ASSUME Spawned PROVE Calls
  BY <1>8 DEF Spawned, Step
<1>9. ASSUME InitDone PROVE FreedInv'
  <2>1. \A w \in Workers : pc'[w] = pc[w] /\ pc[w] \notin Fresh
    BY <1>9, AllCounted DEF InitDone, Alive, Step
  <2>2. pc'[Client] = "idle"
    BY <1>9 DEF InitDone, Step
  <2>3. QED
    BY <2>1, <2>2 DEF FreedInv, Started, FreedAtLastUnlock
<1>10. ASSUME PushLock \/ Push \/ PostLock \/ PushPost PROVE Calls
  BY <1>10 DEF PushLock, Push, PostLock, PushPost, Lock, Step
<1>11. ASSUME WaitLock \/ WaitBlock \/ WaitWake \/ WaitOver \/ WaitReturn PROVE Calls
  BY <1>11 DEF WaitLock, WaitBlock, WaitWake, WaitOver, WaitReturn, Lock, Step
<1>12. ASSUME DestroyPoll \/ BcastLock \/ Broadcast PROVE Calls
  BY <1>12 DEF DestroyPoll, BcastLock, Broadcast, Lock, Step
<1>13. ASSUME Free PROVE FreedInv'
  <2>1. \A w \in Workers : pc'[w] = pc[w] /\ pc[w] \in Fresh \cup Gone
    BY <1>13, NoneCounted DEF Free, Alive, Step
  <2>2. \A w \in Workers : pc[w] \notin Fresh
    BY <1>13 DEF Free, Step, FreedInv, Started
  <2>3. QED
    BY <2>1, <2>2 DEF FreedInv, Started, FreedAtLastUnlock
<1>14. ASSUME NEW t \in Threads, SpuriousWakeup(t) PROVE Same
  BY <1>14 DEF SpuriousWakeup
<1>15. ASSUME UNCHANGED vars PROVE Same
  BY <1>15 DEF vars
<1>16. QED
  BY <1>1, <1>2, <1>3, <1>4, <1>5, <1>6, <1>7, <1>8, <1>9, <1>10, <1>11, <1>12,
     <1>13, <1>14, <1>15
  DEF Next, ClientStep

(* When thpool_destroy frees the pool every worker has counted itself out: *)
(* it is dead, or the unlock of thcount_lock is all that is left of it.    *)
THEOREM FreedLate == Spec => []FreedAtLastUnlock
<1>1. Spec => []FreedInv
  BY FreedInit, FreedStep, DataAlways, CountsAgree, PTL DEF Spec
<1>2. FreedInv => FreedAtLastUnlock
  BY DEF FreedInv
<1>3. QED
  BY <1>1, <1>2, PTL
==============================================================================
