\* forest.c:453, majority voting of the trees: three threads, four trees.
SPECIFICATION Spec
CONSTANTS
  NumThreads = 3
  MaxClasses = 2
  Unit = 1
  MaxTrees = 4
  Forests <- PlainForests
INVARIANT EveryTreeVotes
