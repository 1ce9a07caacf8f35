\* The four programs, with and without appFs; three records in two formats.
SPECIFICATION FairSpec
CONSTANTS
  Numbers = {0, 1, 2}
  Outputs <- MCOutputs
  Formats = {f1, f2}
  NoFormat = NoFormat
  RequiredFormat = RequiredFormat
  MaxRecords = 3
INVARIANTS TypeOK ReadsAreOfLiveObjects LastPrintIsFinal
PROPERTIES ShutdownEnds ImplementsForwarding
