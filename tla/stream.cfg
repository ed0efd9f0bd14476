SPECIFICATION Spec
CONSTANTS
  Indices = {i0, i1, i2}
  i0 = i0
  i1 = i1
  i2 = i2
  Parts = 2
  MaxToolCalls = 2
  MaxArguments = 2
  MaxRemainder = 6
  MaxStream = 12
  MaxEvents = 3
SYMMETRY SameCalls
INVARIANT ReplyReadsWhatArrived
PROPERTY FailsForCause
