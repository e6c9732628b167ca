CONSTANTS
  Callers = {ui}
  NoCaller = none
  MaxThreads = 2
  InitialAttempts = 1
  StartedAttempts = 3
  StopFailurePolicy = "kFailFast"
  Faults = {"begin", "post", "quota", "worker", "getMessage", "shell", "explorer","memory", "handle", "unhook"}
SPECIFICATION MessageFairSpec
INVARIANTS WindowInv IconInv
PROPERTIES ImplementsWindowController StartReturns
