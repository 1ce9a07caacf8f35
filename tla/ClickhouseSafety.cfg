\* Two inserters, two blocks of two rows, every input; the server may refuse an
\* insert or fail a thread while it starts, but its answers arrive.
SPECIFICATION Spec
CONSTANTS
  NumBlocks = 2
  NumInserters = 2
  Threshold = 2
  MaxDelay = 1
  TimeModulus = 64
  Inputs <- AllInputs
  Faults <- AnsweredFaults
  ClockSteps <- ClockBothWays
  MaxRecords = 4
  MaxTime = 2
INVARIANTS
  TypeOK OneHolder NoBlockLeaks BlocksFitTheirPlace ArrivalOrder
  NoDuplicates ErrorHasException WakeUpsSuffice
PROPERTY
  ImplementsDelivery
