\* periodic.h:23: a new interval is for the triggers after the next one.
SPECIFICATION Spec
CONSTANTS
  Nano = 2
  Intervals <- TwoIntervals
  MaxSec = 4
  Spurious = FALSE
INVARIANT NewIntervalAfterTrigger
CHECK_DEADLOCK FALSE
