SPECIFICATION FairSpec
CONSTANTS
  Kinds <- AllKinds
  Limit = 1
  PipeSize = 1
  MaxSteps = 2
  PollFails = TRUE
INVARIANTS
  TypeOK
  NoZombie
  KilledMeansGone
  SignalsStayHome
  OkIsHonest
PROPERTY Returns
