SPECIFICATION Spec
CONSTANTS
  MaxTurns = 2
  Deltas = 1
  MaxFaults = 1
INVARIANT ScreenInv
INVARIANT CaughtUp
INVARIANT ShownOnce
INVARIANT WholeReplies
CHECK_DEADLOCK FALSE
