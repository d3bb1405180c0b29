CONSTANTS
  r1 = r1
  r2 = r2
  c1 = c1
  c2 = c2
  c3 = c3
  Runs = {r1, r2}
  Calls = {c1, c2, c3}
  Ceiling = 2
  MaxFaults = 1

SPECIFICATION Spec
SYMMETRY Symmetry
CHECK_DEADLOCK FALSE

INVARIANT GrantsInv
INVARIANT CeilingHolds
INVARIANT BookedInFull
