SPECIFICATION Spec
CONSTANTS
  Replies <- RepliesMade
  MaxTurns = 1
  MaxRounds = 1
  MaxPosts = 2
  PlanningBudget = 2
  Ids = {1, 2}
INVARIANT ApprovalsDoNotSurviveModeChange
