SPECIFICATION FairSpec
CONSTANTS
  TurnBudget = 15
  AfterAgent = 5
  AgentBudgets = {7, 12, 22}
  MaxCalls = 3
INVARIANT AgentRunGetsBudget
INVARIANT StretchIsBounded
INVARIANT SnapBackKeepsBudget
PROPERTY HungTurnIsStopped
