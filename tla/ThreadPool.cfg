\* The whole API: pause, resume and destroy as well, two workers, three jobs.
SPECIFICATION Spec
CONSTANTS
  Workers = {w1, w2}
  Client = c
  Jobs = {j1, j2, j3}
  NoJob = NoJob
  Nobody = Nobody
  ClientOps = {"add", "wait", "pause", "resume", "destroy"}
  SpuriousWakeups = TRUE
INVARIANTS TypeOK MutexInv CountInv WaitJoins JobIsServed WaiterIsSignalled JobsDistinct
  FreedAtLastUnlock
PROPERTY ImplementsJobPool
CHECK_DEADLOCK FALSE
