SPECIFICATION FairSpec
CONSTANTS
  Kinds <- BashOnly
  Limit = 1
  PipeSize = 1
  MaxSteps = 1
  PollFails = FALSE
PROPERTY CeilingHolds
