SPECIFICATION FairSpec
CONSTANTS
  e1 = e1
  e2 = e2
  r1 = r1
  r2 = r2
  Nobody = Nobody
  Element <- TwoElements
  Lists <- TwoLists
  Request <- TwoRequests
  Kinds <- ThreeKinds
  MaxFault = 1
INVARIANTS TypeOK StartIsExclusive DispatchedOnce SentOnce FailureIsHonest DownloadIsReal
PROPERTIES CancelledForGood LogsSettle
CHECK_DEADLOCK FALSE
