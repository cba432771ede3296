\* Two threads, leaves with and without STATS, half votes
SPECIFICATION FairSpec
CONSTANTS
  NumThreads = 2
  MaxClasses = 3
  Unit = 2
  MaxTrees = 4
  Forests <- AllForests
INVARIANTS NoTaskOutlivesCall EveryTreeVotes NoTreeVotesTwice AnswerIsMajority
PROPERTY CallReturns
