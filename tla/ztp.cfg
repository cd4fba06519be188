SPECIFICATION FairSpec
CONSTANTS
  h1 = h1
  h2 = h2
  Handler <- TwoHandlers
  MaxAttempt = 2
  MaxFault = 1
INVARIANTS TypeOK SuccessIsOwn SuccessIsShown EveryEndIsFiled
PROPERTY AttemptsEnd
CHECK_DEADLOCK FALSE
