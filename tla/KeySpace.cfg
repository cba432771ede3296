\* Three keys of any type and two forests
SPECIFICATION Spec
CONSTANTS
  Junk = Junk
  Bad = Bad
  MaxFields = 3
  Keys = {"a", "b", "c", "e", "f"}
  Forests <- TwoForests
  Commands <- AllCommands
  MaxCommands = 4
  MaxStream = 1
INVARIANTS TypeOK ReplicaAgrees HandlersStayInBounds ErrorsChangeNothing ArithmeticIsExact
  CoefficientsKept NearestCentre RunFollowsSample FilesKeepAnswers
CHECK_DEADLOCK FALSE
