CONSTANTS
  EventBuffer = 1
  Frames <- Shortest
  Outside <- Endings
  MaxFeed = 1
SPECIFICATION FairSpec
PROPERTIES ConnectionLossEndsTurn LifecycleEndsTurn CancelIsBounded
CHECK_DEADLOCK FALSE
