SPECIFICATION AppSpec
CONSTANTS
  Texts = {t1}
  StoreFaults = {"read", "memory", "kill"}
  MaxInt = 65535
  MaxAttempts = 3
  MinDelay = 1000
  MaxDelay = 10000
  MaxQueue = 2
  AppFaults = {"monitors", "window", "watcher", "stop", "redirect"}
INVARIANTS
  AppInv
  StoppedAtEnd
  RedirectReportsTruth
PROPERTIES
  DelayGrows
  StartEnds
  ExitServed
CHECK_DEADLOCK FALSE
