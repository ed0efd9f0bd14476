SPECIFICATION Spec
CONSTANTS
  MaxSteps = 2
  MaxRuns = 2
  MaxLost = 1
  Faults = {"setup", "write", "vanish", "event", "lost", "crash"}
INVARIANTS
  SuccessIsEarned
  RecordsAgree
  AcceptanceIsWorst
