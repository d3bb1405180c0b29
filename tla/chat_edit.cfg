SPECIFICATION Spec
CONSTANTS
  olga = olga  gus = gus  m1 = m1  m2 = m2  m3 = m3  m4 = m4  r1 = r1  None = None
  Users <- OlgaAndGus
  Owner = olga
  Msgs = {m1, m2, m3}
  Retries = {r1}
  Author <- OlgaEditsHere
  WithFiles = {m3}
  Edits = {m2}
  Steers = {}
  Opening = m1
  QueueCap = 2
  MaxRounds = 1
  MayDrain = FALSE
  MayDelete = TRUE
  MayRemove = TRUE
  MayUnconfigure = FALSE
  MayFail = TRUE
CHECK_DEADLOCK FALSE
INVARIANT ChatInv
PROPERTY EditSparesColleagues
PROPERTY ReplySlotSafe
