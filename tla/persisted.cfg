SPECIFICATION Spec
CONSTANTS
  MaxTurns = 3
  MaxToolCallsPerTurn = 2
  MaxTotalToolCalls = 3
  MaxFailureRetries = 1
  MaxSteps = 1
  MaxBatch = 1
  MaxRuns = 1
  PreparesSession = TRUE
  ToolResults <- OneFailure
  Faults <- TornOutput
PROPERTY SessionIsPersisted
