CONSTANTS
  Callers = {c1, c2}
  NoCaller = none
  MaxThreads = 2
  InitialAttempts = 1
  StartedAttempts = 2
  StopFailurePolicy = "kReturnTimeout"
  Faults = {"begin", "quota", "post", "memory", "handle"}
SPECIFICATION PersistentSpec
INVARIANTS ControllerInv
PROPERTIES StopReportsExit FailedStopKeepsThread ImplementsLifecycle StopReturns Reclaimable
