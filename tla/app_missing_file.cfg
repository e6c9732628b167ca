SPECIFICATION AppSpec
CONSTANTS
  Texts = {t1}
  StoreFaults = {}
  MaxInt = 65535
  MaxAttempts = 3
  MinDelay = 1000
  MaxDelay = 10000
  MaxQueue = 1
  AppFaults = {}
INVARIANTS
  SettingsOpen
CHECK_DEADLOCK FALSE
