CONSTANTS
  EventBuffer = 1
  Frames <- EveryBranch
  Outside <- LocalEndings
  MaxFeed = 3
SPECIFICATION Spec
INVARIANTS StreamIsOrdered DoneEndsStream ReservedSlot CancelBeforeDone AcceptanceMatchesOutcome
CHECK_DEADLOCK FALSE
