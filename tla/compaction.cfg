CONSTANTS
  Sizes = {1, 3}
  Trigger = 4
  Keep = 2
  SummarySize = 1
  MaxId = 5
  MaxStored = 3

SPECIFICATION FairSpec
CHECK_DEADLOCK FALSE

INVARIANT PromptIsThread
INVARIANT RetryAsks
INVARIANT HistoryUnderTrigger
PROPERTY BoundaryAdvances
PROPERTY TurnIsNotHeldUp
