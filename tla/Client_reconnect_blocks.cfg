SPECIFICATION FairSpec
CONSTANTS
  r1 = r1
  t1 = t1
  w1 = w1
  Requesters = {}
  Turns = {}
  RawSubs = {}
  ConnOrder <- TwoConns
  MaxAttempts = 1
  Resume = FALSE
  ReconnectFrom <- WhenDisconnected
PROPERTIES ReconnectReturns
CHECK_DEADLOCK FALSE
