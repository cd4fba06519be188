SPECIFICATION DeviceSpec
CONSTANTS
  s1 = s1
  s2 = s2
  s3 = s3
  t1 = t1
  t2 = t2
  m1 = m1
  None = None
  Sn <- ThreeSns
  Task <- TwoTasks
  Importer <- NoImporter
  MaxDevices = 1
  Ops <- OnlyDelete
  Faults <- InformFaults
  MaxFault = 1
  MaxRow = 3
INVARIANTS TypeOK OvershootIsBounded InitIsExclusive
SYMMETRY Symmetry
CHECK_DEADLOCK FALSE
