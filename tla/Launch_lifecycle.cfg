SPECIFICATION FairSpec
CONSTANTS
  u1 = u1
  Users = {u1}
  SupportedBridge = TRUE
  ContextKinds <- LiveContext
  MayFail <- EveryPhase
  Apis <- BothApis
  HomeKinds <- TempOrUserHome
  StartFaults <- EveryFault
INVARIANTS LaunchInv NilMeansClean FailedLaunchLeavesNothing CodeTellsPhase
PROPERTIES NoSignalAfterReport LaunchReturns BridgeExitReported
CHECK_DEADLOCK FALSE
