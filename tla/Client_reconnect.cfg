SPECIFICATION Spec
CONSTANTS
  r1 = r1
  t1 = t1
  w1 = w1
  Requesters = {r1}
  Turns = {t1}
  RawSubs = {}
  ConnOrder <- TwoConns
  MaxAttempts = 2
  Resume = TRUE
  ReconnectFrom <- WhenDisconnected
INVARIANTS ConnectionInv NoPanic TurnBoundToConnection NoLeakedConnection
CHECK_DEADLOCK FALSE
