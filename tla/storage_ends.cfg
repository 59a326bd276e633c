CONSTANTS
  Keys = {1}
  Deleted = {}
  Writers = {w1, w2}
  Readers = {}
  MaxLevel = 2
  WriteBuffer = 1
  Trigger = 1
  StopWrites = 1
  NoOp = NoOp
  NoAnswer = NoAnswer
  NoRef = NoRef
  NoGroup = NoGroup
  MaxWrites = 4
  MaxEnds = 2
SPECIFICATION FairSpec
INVARIANTS TypeOK LevelsDisjoint FilesExist MemoryIsOnDisk
PROPERTIES IsDictionary TablesKeep WritesReturn
CHECK_DEADLOCK FALSE
