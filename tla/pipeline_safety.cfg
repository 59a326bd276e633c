SPECIFICATION Spec
CONSTANTS
  u1 = u1  u2 = u2
  d1 = d1  d2 = d2  d3 = d3
  r1 = r1  r2 = r2
  Threads = {t1, t2}
  Queuers = {q1}
  Users = {u1, u2}
  Owner = u1
  Devices = {d1, d2, d3}
  RelPaths = {r1}
  DeviceUser <- MCDeviceUser
  Registrant <- MCRegistrant
  Kinds = {"add", "mod"}
  EmptyHash = EmptyHash
  Absent = Absent
  MaxRequests = 2
  MaxClock = 1
  MaxCrashes = 1
SYMMETRY ThreadSymmetry
INVARIANT TypeOK
INVARIANT NoUpdateLost
INVARIANT UpdateHasData
INVARIANT RightRecipients
INVARIANT QueuerFindsWork
