CONSTANTS
  EventBuffer = 1
  Frames <- Shortest
  Outside <- OnlyBadPayload
  MaxFeed = 1
SPECIFICATION Spec
PROPERTIES FatalDecodeIsProtocolError
CHECK_DEADLOCK FALSE
