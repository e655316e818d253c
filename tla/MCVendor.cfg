SPECIFICATION VendorFairSpec
CONSTANTS
  u1 = u1
  u2 = u2
  Url <- MCUrl
  LastRev <- MCLastRev
  Patch = {1}
  Descs <- MCDescs
  Args <- MCArgs
  MaxFailures = 2
  Master = Master
  NoLock = NoLock
  Torn = Torn
  NoMapping = NoMapping
  Absent = Absent
INVARIANTS
  SuccessIsReproducible
  LockIsProven
PROPERTIES
  CommitsReproducible
  ImportsRecover
CHECK_DEADLOCK FALSE
