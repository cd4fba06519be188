SPECIFICATION FairSpec
CONSTANTS
  d1 = d1
  d2 = d2
  c1 = c1
  c2 = c2
  c3 = c3
  x1 = x1
  x2 = x2
  x3 = x3
  None = None
  Device <- OneDevice
  Cmd <- TwoCmds
  Handler <- TwoHandlers
  DeviceOf <- MCDeviceOf
  Rpc <- MCRpc
  Producer <- MCProducer
  Faults <- OnlyCut
  MaxFault = 1
PROPERTY ReportedIsSaved
CHECK_DEADLOCK FALSE
