SPECIFICATION Spec
CONSTANTS
  s1 = s1
  d1 = d1
  Consumers = {s1}
  Senders = {d1}
  EventBuffer = 1
  MaxSize = 4
  Scripts <- ShortScripts
  Acceptance <- Accepted
INVARIANTS StreamsInv StreamsContiguous WireFaithful NextTellsCause SendNotStranded
CHECK_DEADLOCK FALSE
