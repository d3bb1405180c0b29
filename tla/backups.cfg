CONSTANTS
  Chats = {c1, c2}
  Manuals = {m1}
  Restorers = {x1, x2}
  Keeps = {1}
  MaxFiles = 1
  MaxClock = 5
  MaxUses = 3
  MaxArchives = 3
  MaxFaults = 1
  MaxEvents = 4

SPECIFICATION Spec
SYMMETRY Symmetric
CHECK_DEADLOCK FALSE

INVARIANT BackupsInv
INVARIANT ArchivesCohere
INVARIANT RestoredAsArchived
PROPERTY PruneKeepsEnough
