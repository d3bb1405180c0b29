SPECIFICATION FairSpec
CONSTANTS
  Names = {a}
  a = a
  Ids = {1}
  Workers = {w1, w2}
  w1 = w1  w2 = w2
  Syncs = {s1}
  s1 = s1
  MaxVersion = 2
  MaxAttempts = 2
  Window = 2
  Headroom = 1
  MaxLosses = 1
INVARIANT IngestInv
INVARIANT ReadyIsCurrent
PROPERTY EveryFileSettles
CHECK_DEADLOCK FALSE
