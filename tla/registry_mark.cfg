SPECIFICATION Spec
CONSTANTS
  s1 = s1
  s2 = s2
  s3 = s3
  t1 = t1
  t2 = t2
  m1 = m1
  None = None
  Sn <- OneSn
  Task <- OneTask
  Importer <- NoImporter
  MaxDevices = 0
  Ops <- NoOps
  Faults <- NoFaults
  MaxFault = 0
  MaxRow = 1
PROPERTY MarkedWhenAsked
CHECK_DEADLOCK FALSE
