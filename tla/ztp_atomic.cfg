SPECIFICATION Spec
CONSTANTS
  h1 = h1
  h2 = h2
  Handler <- TwoHandlers
  MaxAttempt = 2
  MaxFault = 1
INVARIANT FailureIsAtomic
CHECK_DEADLOCK FALSE
