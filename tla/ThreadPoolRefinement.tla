------------------------- MODULE ThreadPoolRefinement -------------------------
(***************************************************************************)
(* ThreadPool implements JobPool, for every number of workers and jobs.    *)
(* The mapping forgets mutexes, tokens, signals and program counters.      *)
(***************************************************************************)
EXTENDS ThreadPoolProofs, SequenceTheorems

(* An empty pool maps to an empty pool. *)
LEMMA RefineInit == Init => Pool!PoolInit
<1> SUFFICES ASSUME Init PROVE Pool!PoolInit
  OBVIOUS
<1>1. Running = {}
  BY DEF Init, Running, Threads
<1>2. pc[Client] = "spawn"
  BY DEF Init, Threads
<1>3. ClientState = "idle"
  BY <1>2 DEF ClientState, WaitPC
<1>4. queue = <<>>
  BY DEF Init
<1>5. QED
  BY <1>1, <1>3, <1>4 DEF Pool!PoolInit

(* Taking a job, finishing one, pushing one, entering and leaving          *)
(* thpool_wait and freeing the pool are the steps of JobPool; every other  *)
(* step stutters.                                                          *)
LEMMA RefineStep ==
  DataInv /\ CountInv /\ JobsDistinct /\ WaitJoins /\ [Next]_vars
    => [Pool!PoolNext]_(Pool!poolVars)
<1> SUFFICES ASSUME DataInv, CountInv, JobsDistinct, WaitJoins, [Next]_vars
             PROVE  [Pool!PoolNext]_(Pool!poolVars)
  OBVIOUS
<1> DEFINE Same == /\ queue' = queue /\ Running' = Running
                   /\ ClientState' = ClientState
           Goal == [Pool!PoolNext]_(Pool!poolVars)
<1>1. Same => Goal
  BY DEF Pool!poolVars
<1> HIDE DEF Goal
<1> USE PoolAssumption
    DEF PoolAssumption, DataInv, TypeOK, JobInv, Threads, Mutexes,
        WorkerPC, ClientPC, WorkingPC, WaitPC, vars, sem, jobs, counts,
        signals, Step, Lock, Unlock, Post, Call
<1>2. ASSUME NEW w \in Workers, Boot(w) PROVE Same
  BY <1>2 DEF Boot, Running, ClientState
<1>3. ASSUME NEW w \in Workers, BecomeAlive(w) PROVE Same
  BY <1>3 DEF BecomeAlive, Running, ClientState
<1>4. ASSUME NEW w \in Workers, TestLoop(w) PROVE Same
  BY <1>4 DEF TestLoop, Running, ClientState
<1>5. ASSUME NEW w \in Workers, BsemLock(w) PROVE Same
  BY <1>5 DEF BsemLock, Running, ClientState
<1>6. ASSUME NEW w \in Workers, BsemTake(w) PROVE Same
  BY <1>6 DEF BsemTake, Running, ClientState
<1>7. ASSUME NEW w \in Workers, BsemBlock(w) PROVE Same
  BY <1>7 DEF BsemBlock, Running, ClientState
<1>8. ASSUME NEW w \in Workers, BsemWake(w) PROVE Same
  BY <1>8 DEF BsemWake, Running, ClientState
<1>9. ASSUME NEW w \in Workers, TestAgain(w) PROVE Same
  BY <1>9 DEF TestAgain, Running, ClientState
<1>10. ASSUME NEW w \in Workers, IncLock(w) PROVE Same
  BY <1>10 DEF IncLock, Running, ClientState
<1>11. ASSUME NEW w \in Workers, IncWorking(w) PROVE Same
  BY <1>11 DEF IncWorking, Running, ClientState
<1>12. ASSUME NEW w \in Workers, PullLock(w) PROVE Same
  BY <1>12 DEF PullLock, Running, ClientState
<1>13. ASSUME NEW w \in Workers, PullNone(w) PROVE Same
  BY <1>13 DEF PullNone, Running, ClientState
<1>14. ASSUME NEW w \in Workers, PullLast(w) PROVE Goal
  <2> DEFINE j == Head(queue)
  <2>1. Tail(queue) \in Seq(Jobs) /\ Len(Tail(queue)) = 0
    BY <1>14 DEF PullLast
  <2>2. Tail(queue) = <<>>
    BY <2>1, EmptySeq
  <2>3. queue # <<>> /\ j \in Jobs /\ queue' = Tail(queue)
    BY <1>14, <2>2 DEF PullLast
  <2>4. j = queue[1] /\ 1 \in 1 .. Len(queue)
    BY <2>3
  <2>5. j \notin Running
    BY <2>4 DEF Running, JobsDistinct
  <2>6. job_p' = [job_p EXCEPT ![w] = j] /\ job_p[w] = NoJob
    BY <1>14 DEF PullLast
  <2>7. Running' = Running \cup {j}
    BY <2>3, <2>6 DEF Running
  <2>8. ClientState' = ClientState
    BY <1>14 DEF PullLast, ClientState
  <2>9. Pool!Start(j)
    BY <2>3, <2>5, <2>7, <2>8 DEF Pool!Start
  <2>10. QED
    BY <2>3, <2>9 DEF Goal, Pool!PoolNext
<1>15. ASSUME NEW w \in Workers, PullOne(w) PROVE Goal
  <2> DEFINE j == Head(queue)
  <2>1. queue # <<>> /\ j \in Jobs /\ queue' = Tail(queue)
    BY <1>15 DEF PullOne
  <2>2. j = queue[1] /\ 1 \in 1 .. Len(queue)
    BY <2>1
  <2>3. j \notin Running
    BY <2>2 DEF Running, JobsDistinct
  <2>4. job_p' = [job_p EXCEPT ![w] = j] /\ job_p[w] = NoJob
    BY <1>15 DEF PullOne
  <2>5. Running' = Running \cup {j}
    BY <2>1, <2>4 DEF Running
  <2>6. ClientState' = ClientState
    BY <1>15 DEF PullOne, ClientState
  <2>7. Pool!Start(j)
    BY <2>1, <2>3, <2>5, <2>6 DEF Pool!Start
  <2>8. QED
    BY <2>1, <2>7 DEF Goal, Pool!PoolNext
<1>16. ASSUME NEW w \in Workers, RepostLock(w) PROVE Same
  BY <1>16 DEF RepostLock, Running, ClientState
<1>17. ASSUME NEW w \in Workers, Repost(w) PROVE Same
  BY <1>17 DEF Repost, Running, ClientState
<1>18. ASSUME NEW w \in Workers, FinishJob(w) PROVE Goal
  <2> DEFINE j == job_p[w]
  <2>1. j \in Jobs /\ j \in Running
    BY <1>18 DEF FinishJob, Running
  <2>2. queue' = queue /\ job_p' = [job_p EXCEPT ![w] = NoJob]
    BY <1>18 DEF FinishJob
  <2>3. \A u \in Workers : u # w => job_p[u] # j
    BY <2>1 DEF JobsDistinct
  <2>4. Running' = Running \ {j}
    BY <2>1, <2>2, <2>3 DEF Running
  <2>5. ClientState' = ClientState
    BY <1>18 DEF FinishJob, ClientState
  <2>6. Pool!Finish(j)
    BY <2>1, <2>2, <2>4, <2>5 DEF Pool!Finish
  <2>7. QED
    BY <2>1, <2>6 DEF Goal, Pool!PoolNext
<1>19. ASSUME NEW w \in Workers, DecLock(w) PROVE Same
  BY <1>19 DEF DecLock, Running, ClientState
<1>20. ASSUME NEW w \in Workers, DecWorking(w) PROVE Same
  BY <1>20 DEF DecWorking, Running, ClientState
<1>21. ASSUME NEW w \in Workers, ExitLock(w) PROVE Same
  BY <1>21 DEF ExitLock, Running, ClientState
<1>22. ASSUME NEW w \in Workers, Exit(w) PROVE Same
  BY <1>22 DEF Exit, Running, ClientState
<1>23. ASSUME NEW w \in Workers, ExitUnlock(w) PROVE Same
  BY <1>23 DEF ExitUnlock, Running, ClientState
<1>24. ASSUME NEW w \in Workers, HandlerExit(w) PROVE Same
  BY <1>24 DEF HandlerExit, Running, ClientState
<1>25. ASSUME NEW w \in Workers, HandlerEnter(w) PROVE Same
  BY <1>25 DEF HandlerEnter, Running, ClientState
<1>26. ASSUME NEW j \in Jobs, AddWork(j) PROVE Same
  BY <1>26 DEF AddWork, Running, ClientState
<1>27. ASSUME Wait PROVE Goal
  <2>1. queue' = queue /\ Running' = Running
    BY <1>27 DEF Wait, Running
  <2>2. ClientState = "idle" /\ ClientState' = "waiting"
    BY <1>27 DEF Wait, ClientState
  <2>3. Pool!BeginWait
    BY <2>1, <2>2 DEF Pool!BeginWait
  <2>4. QED
    BY <2>3 DEF Goal, Pool!PoolNext
<1>28. ASSUME Pause PROVE Same
  BY <1>28 DEF Pause, Running, ClientState
<1>29. ASSUME Resume PROVE Same
  BY <1>29 DEF Resume, Running, ClientState
<1>30. ASSUME Destroy PROVE Same
  BY <1>30 DEF Destroy, Running, ClientState
<1>31. ASSUME Spawn PROVE Same
  BY <1>31 DEF Spawn, Running, ClientState
<1>32. ASSUME Spawned PROVE Same
  BY <1>32 DEF Spawned, Running, ClientState
<1>33. ASSUME InitDone PROVE Same
  BY <1>33 DEF InitDone, Running, ClientState
<1>34. ASSUME PushLock PROVE Same
  BY <1>34 DEF PushLock, Running, ClientState
<1>35. ASSUME Push PROVE Goal
  <2> DEFINE j == job_p[Client]
  <2>1. /\ j \in Jobs /\ queue' = Append(queue, j)
        /\ job_p' = [job_p EXCEPT ![Client] = NoJob]
    BY <1>35 DEF Push
  <2>2. Running' = Running
    BY <2>1 DEF Running
  <2>3. ClientState = "idle" /\ ClientState' = ClientState
    BY <1>35 DEF Push, ClientState
  <2>4. j \notin Pool!Queued \cup Running
    BY <2>1 DEF JobsDistinct, Running, Pool!Queued
  <2>5. Pool!Submit(j)
    BY <2>1, <2>2, <2>3, <2>4 DEF Pool!Submit
  <2>6. QED
    BY <2>1, <2>5 DEF Goal, Pool!PoolNext
<1>36. ASSUME PostLock PROVE Same
  BY <1>36 DEF PostLock, Running, ClientState
<1>37. ASSUME PushPost PROVE Same
  BY <1>37 DEF PushPost, Running, ClientState
<1>38. ASSUME WaitLock PROVE Same
  BY <1>38 DEF WaitLock, Running, ClientState
<1>39. ASSUME WaitBlock PROVE Same
  BY <1>39 DEF WaitBlock, Running, ClientState
<1>40. ASSUME WaitWake PROVE Same
  BY <1>40 DEF WaitWake, Running, ClientState
<1>41. ASSUME WaitOver PROVE Same
  BY <1>41 DEF WaitOver, Running, ClientState
<1>42. ASSUME WaitReturn PROVE Goal
  <2>1. queue' = queue /\ Running' = Running
    BY <1>42 DEF WaitReturn, Running
  <2>2. ClientState = "waiting" /\ ClientState' = "idle"
    BY <1>42 DEF WaitReturn, ClientState
  <2>3. queue = <<>> /\ Running = {}
    BY <1>42 DEF WaitReturn, WaitJoins, Running
  <2>4. Pool!EndWait
    BY <2>1, <2>2, <2>3 DEF Pool!EndWait
  <2>5. QED
    BY <2>4 DEF Goal, Pool!PoolNext
<1>43. ASSUME DestroyPoll PROVE Same
  BY <1>43 DEF DestroyPoll, Running, ClientState
<1>44. ASSUME BcastLock PROVE Same
  BY <1>44 DEF BcastLock, Running, ClientState
<1>45. ASSUME Broadcast PROVE Same
  BY <1>45 DEF Broadcast, Running, ClientState
<1>46. ASSUME Free PROVE Goal
  <2>1. queue' = <<>> /\ Running' = Running
    BY <1>46 DEF Free, Running
  <2>2. ClientState = "idle" /\ ClientState' = "gone"
    BY <1>46 DEF Free, ClientState
  <2>3. Cardinality(Alive) = 0 /\ IsFiniteSet(Alive)
    BY <1>46, FS_Subset DEF Free, CountInv, Alive
  <2>4. \A w \in Workers : w \notin Alive
    BY <2>3, FS_EmptySet
  <2>5. Running = {}
    BY <2>4 DEF Alive, Running
  <2>6. Pool!Destroy
    BY <2>1, <2>2, <2>5 DEF Pool!Destroy
  <2>7. QED
    BY <2>6 DEF Goal, Pool!PoolNext
<1>47. ASSUME NEW t \in Threads, SpuriousWakeup(t) PROVE Same
  BY <1>47 DEF SpuriousWakeup, Running, ClientState
<1>48. ASSUME UNCHANGED vars PROVE Same
  BY <1>48 DEF Running, ClientState
<1>49. QED
  BY <1>1, <1>2, <1>3, <1>4, <1>5, <1>6, <1>7, <1>8, <1>9, <1>10, <1>11,
     <1>12, <1>13, <1>14, <1>15, <1>16, <1>17, <1>18, <1>19, <1>20, <1>21,
     <1>22, <1>23, <1>24, <1>25, <1>26, <1>27, <1>28, <1>29, <1>30, <1>31,
     <1>32, <1>33, <1>34, <1>35, <1>36, <1>37, <1>38, <1>39, <1>40, <1>41,
     <1>42, <1>43, <1>44, <1>45, <1>46, <1>47, <1>48
  DEF Goal, Next, WorkerStep, ClientCall, ClientStep

(* The pool of mutexes, condition variables and signals does what JobPool  *)
(* says: jobs start in the order they were added, each runs once, and      *)
(* thpool_wait and thpool_destroy return only when nothing runs.           *)
THEOREM ThreadPoolImplementsJobPool == Spec => ImplementsJobPool
<1>1. Spec => [][Pool!PoolNext]_(Pool!poolVars)
  BY RefineStep, DataAlways, CountsAgree, JobsStayDistinct, WaitIsBarrier, PTL
  DEF Spec
<1>2. QED
  BY <1>1, RefineInit, PTL DEF Spec, ImplementsJobPool, Pool!PoolSpec
==============================================================================
