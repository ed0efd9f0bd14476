SPECIFICATION FairSpec
CONSTANTS
  MaxTurns = 4
  MaxToolCallsPerTurn = 2
  MaxTotalToolCalls = 3
  MaxFailureRetries = 1
  MaxSteps = 2
  MaxBatch = 2
  MaxRuns = 2
  PreparesSession = FALSE
  ToolResults <- OtherJudgements
  Faults <- AllFaults
INVARIANT NoToolsBeforeContract
PROPERTIES
  AtMostOneRepair
  EveryRunEnds
