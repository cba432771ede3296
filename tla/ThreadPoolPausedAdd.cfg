\* thpool.h:107: work can be added while the pool is paused.
SPECIFICATION FairSpec
CONSTANTS
  Workers = {w1, w2}
  Client = c
  Jobs = {j1, j2}
  NoJob = NoJob
  Nobody = Nobody
  ClientOps = {"add", "pause"}
  SpuriousWakeups = FALSE
PROPERTY AddReturns
CHECK_DEADLOCK FALSE
