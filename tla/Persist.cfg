\* Two sessions, with reloads and full synchronisations between the commands
SPECIFICATION MCSpec
CONSTANTS
  Keys = {"f", "x"}
  OtherKeys = {"x"}
  Tids = {0, 1}
  Commands <- AllCommands
  MaxStream = 1
  PathBits = 2
INVARIANTS TypeOK CompleteUnlessTorn ReplicaAgrees
PROPERTIES RunIsSafe AddIsSafe TreesComeBack
CHECK_DEADLOCK FALSE
