SPECIFICATION FairSpec
CONSTANTS
  s1 = s1
  s2 = s2
  s3 = s3
  t1 = t1
  t2 = t2
  m1 = m1
  None = None
  Sn <- TwoSns
  Task <- TwoTasks
  Importer <- NoImporter
  MaxDevices = 1
  Ops <- OnlyDelete
  Faults <- LiveFaults
  MaxFault = 1
  MaxRow = 2
PROPERTY EventuallyInitialized
CHECK_DEADLOCK FALSE
