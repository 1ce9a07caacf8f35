\* A server without a fault, no interrupt needed: the end of the input is enough.
SPECIFICATION Spec
CONSTANTS
  NumBlocks = 2
  NumInserters = 1
  Threshold = 2
  MaxDelay = 1
  TimeModulus = 64
  Inputs <- CleanInputs
  Faults = {}
  ClockSteps <- ClockForward
  MaxRecords = 3
  MaxTime = 2
INVARIANT LeftoversAreInserted
