\* periodic.h:26: Terminate stops the loop.
SPECIFICATION FairSpec
CONSTANTS
  Nano = 2
  Intervals <- SomeIntervals
  MaxSec = 4
  Spurious = FALSE
PROPERTY TerminateStops
CHECK_DEADLOCK FALSE
