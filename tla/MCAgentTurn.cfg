SPECIFICATION FairSpec
CONSTANTS
  Replies <- RepliesMade
  MaxTurns = 1
  MaxRounds = 2
  MaxPosts = 2
  PlanningBudget = 2
  Ids = {1, 2}
INVARIANTS
  GatedCallsWereApproved
  ApprovalsWereGiven
PROPERTY TurnEnds
