SPECIFICATION FairSpec
CONSTANTS
  olga = olga  gus = gus  m1 = m1  m2 = m2  m3 = m3  m4 = m4  r1 = r1  None = None
  Users <- OlgaAndGus
  Owner = olga
  Msgs = {m1, m2}
  Retries = {}
  Author <- GusAnswersHere
  WithFiles = {m1}
  Edits = {}
  Steers = {}
  Opening = None
  QueueCap = 2
  MaxRounds = 0
  MayDrain = FALSE
  MayDelete = FALSE
  MayRemove = FALSE
  MayUnconfigure = TRUE
  MayFail = TRUE
CHECK_DEADLOCK FALSE
PROPERTY EveryTurnEnds
