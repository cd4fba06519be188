SPECIFICATION FairSpec
CONSTANTS
  d1 = d1
  h1 = h1
  h2 = h2
  None = None
  Device <- OneDevice
  Handler <- TwoHandlers
  Budget <- Moves
  MaxMoves = 3
INVARIANTS TypeOK ActiveLooksActive OnlyRacesResurrect OneActiveAlarm OneOutage ThresholdIsPaced
PROPERTIES HistoryStays OutageIsRaised RecoveryIsCleared LastWord
CHECK_DEADLOCK FALSE
