SPECIFICATION SerialSpec
CONSTANTS
  s1 = s1
  t1 = t1
  t2 = t2
  m1 = m1
  None = None
  Sn <- OneSn
  Task <- TwoTasks
  Importer <- OneImporter
  MaxDevices = 0
  Ops <- HonestOps
  Faults <- EditFaults
  MaxFault = 1
  MaxRow = 2
INVARIANTS InitializedIsLogged UniqueSerial
PROPERTY DeletedStaysDeleted
SYMMETRY Symmetry
CHECK_DEADLOCK FALSE
