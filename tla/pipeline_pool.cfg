SPECIFICATION FairSpec
CONSTANTS
  u1 = u1  u2 = u2
  d1 = d1  d2 = d2  d3 = d3
  r1 = r1  r2 = r2
  Threads = {t1}
  Queuers = {q1, q2}
  Users = {u1, u2}
  Owner = u1
  Devices = {d1, d2, d3}
  RelPaths = {r1}
  DeviceUser <- MCDeviceUser
  Registrant <- MCRegistrant
  Kinds = {"add"}
  EmptyHash = EmptyHash
  Absent = Absent
  MaxRequests = 2
  MaxClock = 0
  MaxCrashes = 1
INVARIANT NoUpdateLost
PROPERTY NotifiedQueueDrains
