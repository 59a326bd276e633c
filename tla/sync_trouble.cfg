SPECIFICATION Spec
CONSTANTS
  Devices = {d1, d2}
  Contents = {c1, c2}
  NoFile = NoFile
  Empty = Empty
  None = None
  MaxChanges = 2
  MaxTrouble = 1
  MaxStarts = 1
  Apart = TRUE
SYMMETRY Symmetry
CONSTRAINT OneTrouble
INVARIANT TypeOK
INVARIANT IgnorableIsQueued
INVARIANT ChangeIsRead
CHECK_DEADLOCK FALSE
