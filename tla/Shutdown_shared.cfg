SPECIFICATION FairShutdown
CONSTANTS
  u1 = u1
  u2 = u2
  Users = {u1, u2}
  SupportedBridge = TRUE
  ContextKinds <- LiveContext
  MayFail <- NoFailure
INVARIANTS ShutdownInv OwnershipExclusive SharedResult
PROPERTIES OwnExitNotReported ShutdownReturns
CHECK_DEADLOCK FALSE
