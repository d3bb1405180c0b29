SPECIFICATION FairSpec
CONSTANTS
  t1 = t1  t2 = t2  q1 = q1  q2 = q2  q3 = q3
  a1 = a1  a2 = a2  a3 = a3  None = None
  Turns = {t1, t2}
  Cards = {q1, q2, q3}
  AgentCards = {q2, q3}
  Answers = {a1, a2, a3}
  CardOf <- Answered
  MaxRuns = 1
CHECK_DEADLOCK FALSE
INVARIANT OneCardWaits
INVARIANT NoWaitOutlivesTurn
INVARIANT OkMeansHeard
PROPERTY TurnOutlivesQuestion
