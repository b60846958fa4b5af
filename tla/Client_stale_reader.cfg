SPECIFICATION Spec
CONSTANTS
  r1 = r1
  t1 = t1
  w1 = w1
  Requesters = {r1}
  Turns = {}
  RawSubs = {}
  ConnOrder <- TwoConns
  MaxAttempts = 1
  Resume = FALSE
  ReconnectFrom <- WhenDisconnected
PROPERTIES FreshConnectionSurvives
CHECK_DEADLOCK FALSE
