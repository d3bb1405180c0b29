SPECIFICATION Spec
CONSTANTS
  olga = olga  gus = gus  m1 = m1  m2 = m2  m3 = m3  m4 = m4  r1 = r1  None = None
  Users <- OlgaAndGus
  Owner = olga
  Msgs = {m1, m2, m3, m4}
  Retries = {}
  Author <- GusAlone
  WithFiles = {}
  Edits = {}
  Steers = {m4}
  Opening = None
  QueueCap = 1
  MaxRounds = 1
  MayDrain = TRUE
  MayDelete = FALSE
  MayRemove = FALSE
  MayUnconfigure = TRUE
  MayFail = FALSE
CHECK_DEADLOCK FALSE
INVARIANT OffersKeepACopy
INVARIANT QueueIsServed
INVARIANT JoinedNeverRuns
INVARIANT SplicedAboveReply
SYMMETRY AnyOrder
