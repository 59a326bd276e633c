SPECIFICATION Spec
CONSTANTS
  Devices = {d1, d2, d3}
  Contents = {c1, c2}
  NoFile = NoFile
  Empty = Empty
  None = None
  MaxChanges = 1
  MaxTrouble = 0
  MaxStarts = 0
  Apart = TRUE
SYMMETRY Symmetry
INVARIANT IgnorableIsNew
CHECK_DEADLOCK FALSE
