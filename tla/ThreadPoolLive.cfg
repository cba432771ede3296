\* Every call returns and every job is run, under fair scheduling.
SPECIFICATION DestroySpec
CONSTANTS
  Workers = {w1, w2}
  Client = c
  Jobs = {j1, j2}
  NoJob = NoJob
  Nobody = Nobody
  ClientOps = {"add", "wait", "destroy"}
  SpuriousWakeups = FALSE
PROPERTIES JobsFinish WaitReturns AddReturns DestroyReturns
CHECK_DEADLOCK FALSE
