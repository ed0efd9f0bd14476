SPECIFICATION Spec
CONSTANTS
  MaxTurns = 4
  MaxToolCallsPerTurn = 2
  MaxTotalToolCalls = 3
  MaxFailureRetries = 1
  MaxSteps = 2
  MaxBatch = 3
  MaxRuns = 3
  PreparesSession = TRUE
  ToolResults <- Judgements
  Faults <- AllFaults
INVARIANTS
  TypeOK
  PlanWellFormed
  ContractMatchesPlan
  ToolsOnlyUnderPlan
  FailuresAreRetriedOnce
  EveryCallIsAnswered
  ToolBudgetHolds
  RecordsAreClosed
PROPERTIES
  StepsAreCompletedCleanly
  KeepsPromise
