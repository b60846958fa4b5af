SPECIFICATION FairSpec
CONSTANTS
  r1 = r1
  t1 = t1
  w1 = w1
  Requesters = {r1}
  Turns = {t1}
  RawSubs = {w1}
  ConnOrder <- OneConn
  MaxAttempts = 1
  Resume = FALSE
  ReconnectFrom <- Never
INVARIANTS NoOrphanRequest RequestsReleased CloseIsComplete RawSubscriptionsSurvive
PROPERTIES CloseReleasesAll LossFailsTurns
CHECK_DEADLOCK FALSE
