\* One inserter and three blocks of two rows, so that two blocks wait behind one
\* whose insert is refused or whose answer is lost again and again; the server
\* answers in the end, and the thread starts up.
SPECIFICATION LiveSpec
CONSTANTS
  NumBlocks = 3
  NumInserters = 1
  Threshold = 2
  MaxDelay = 1
  TimeModulus = 64
  Inputs <- CleanInputs
  Faults <- RetriedFaults
  ClockSteps <- ClockForward
  MaxRecords = 4
  MaxTime = 1
PROPERTIES
  StopEnds InterruptEnds QueuedIsStored ImplementsDelivery
