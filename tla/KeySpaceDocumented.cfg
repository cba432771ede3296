\* Three replies that are not what the documentation says
SPECIFICATION Spec
CONSTANTS
  Junk = Junk
  Bad = Bad
  MaxFields = 3
  Keys = {"a", "b", "c", "e", "f"}
  Forests <- TwoForests
  Commands <- AllCommands
  MaxCommands = 3
  MaxStream = 1
INVARIANT SomethingAsDocumented
CHECK_DEADLOCK FALSE
