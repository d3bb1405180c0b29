CONSTANTS
  Chats = {c1, c2}
  Attaches = {a1, a2}
  MaxRuns = 2
  MaxFaults = 2
  MaxPair = 2

SPECIFICATION Spec
SYMMETRY Symmetry
CHECK_DEADLOCK FALSE

INVARIANT BrokerInv
INVARIANT SignInKept
PROPERTY ReaperSparesRuns
