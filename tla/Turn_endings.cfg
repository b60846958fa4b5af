CONSTANTS
  EventBuffer = 1
  Frames <- Shortest
  Outside <- EveryEnding
  MaxFeed = 2
SPECIFICATION Spec
INVARIANTS CancelNilMeansSettled OutcomeHasCause IndInv
PROPERTIES OutcomeIsFinal ContractHolds
CHECK_DEADLOCK FALSE
