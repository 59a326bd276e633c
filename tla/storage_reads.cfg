CONSTANTS
  Keys = {1, 2}
  Deleted = {1}
  Writers = {w1, w2}
  Readers = {r1}
  MaxLevel = 2
  WriteBuffer = 1
  Trigger = 2
  StopWrites = 2
  NoOp = NoOp
  NoAnswer = NoAnswer
  NoRef = NoRef
  NoGroup = NoGroup
  MaxWrites = 3
  MaxEnds = 0
SPECIFICATION Spec
INVARIANTS FilesExist LevelsDisjoint
PROPERTY IsDictionary
CHECK_DEADLOCK FALSE
