SPECIFICATION Spec
CONSTANTS
  Sessions <- MCSessions
  FileFaults <- MCFaults
  NoSession = NoSession
  NoFile = NoFile
  Gap = Gap
  NPieces = 2
  MaxTurns = 3
  MaxToolCallsPerTurn = 2
  MaxTotalToolCalls = 4
  MaxContext = 15
  MaxToolOutput = 3
  Placeholder = 2
  OutputLengths = {1, 6}
  TextLengths = {0, 7}
  HasSystemPrompt = TRUE
  BatchSizes = {0, 2, 3}
  MaxProcesses = 2
CONSTRAINT ShortLeftovers
INVARIANTS TypeOK CutIsLeast AnswersBelong RepairIsRecognised
PROPERTY KeepsRegister
CHECK_DEADLOCK FALSE
