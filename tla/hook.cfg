CONSTANTS
  Callers = {ui, other}
  NoCaller = none
  MaxThreads = 2
  InitialAttempts = 1
  StartedAttempts = 5
  StopFailurePolicy = "kFailFast"
  Faults = {"begin", "quota", "worker", "getMessage", "memory", "handle"}
SPECIFICATION HookFairSpec
INVARIANTS HookSafe AbandonsOnlyAfterLimit
PROPERTIES ImplementsBase StopResolves
