SPECIFICATION FairSpec
CONSTANTS
  t1 = t1
  e1 = e1  e2 = e2
  Entries = {e1, e2}
  TopDirs = {t1}
  TopDirOf <- MCTopDirOf
  KeyOrder <- MCKeyOrder
  Addition <- MCAddition
  None = None
  MaxFailures = 3
  MaxCrashes = 1
  MaxStarts = 1
INVARIANT TypeOK
INVARIANT NotLost
INVARIANT HandledAtMost
PROPERTY ImplementsPromise
PROPERTY EventuallyHandled
PROPERTY EventuallyAcknowledged
