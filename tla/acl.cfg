SPECIFICATION FairSpec
CHECK_DEADLOCK FALSE
CONSTANTS
  Fields = {0, 1, 2, 3, 4}
  Names <- MCNames
  Keys <- MCKeys
  Bodies <- MCBodies
  Days = {1, 2}
  None = None
  MaxChanges = 2
  MaxChecks = 2
  MaxFaults = 1
INVARIANT TypeOK InStep ChangeHolds LogBook
PROPERTY LogsWritten CatchesUp
