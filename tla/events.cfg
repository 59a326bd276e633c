SPECIFICATION FairSpec
CONSTANTS
  Paths = {p1}
  Contents = {c1}
  p1 = p1
  c1 = c1
  NoFile = NoFile
  Empty = Empty
  MaxChanges = 2
  MaxClock = 1
  MaxCrashes = 1
INVARIANTS
  TypeOK
  ChangeNotForgotten
  LockIsFree
  DeltaFitsInOneRun
PROPERTY UploadsCatchUp
CHECK_DEADLOCK FALSE
