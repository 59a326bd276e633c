SPECIFICATION Spec
CONSTANTS
  Devices = {d1, d2}
  Contents = {c1, c2}
  NoFile = NoFile
  Empty = Empty
  None = None
  MaxChanges = 2
  MaxTrouble = 1
  MaxStarts = 0
  Apart = FALSE
CONSTRAINT Waits
INVARIANT DeltaFits
CHECK_DEADLOCK FALSE
