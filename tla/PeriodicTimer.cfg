\* Three intervals, one of them refused; wakeups without a signal
SPECIFICATION FairSpec
CONSTANTS
  Nano = 2
  Intervals <- SomeIntervals
  MaxSec = 4
  Spurious = TRUE
INVARIANTS TypeOK NoUseAfterFree CallbackAtInterval
PROPERTY TicksUntilTold
CHECK_DEADLOCK FALSE
