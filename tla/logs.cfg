CONSTANTS
  Threads = {hook, message}
  Pages = {p1}
  kLogSize = 2
  MaxLogs = 4
  MaxHistory = 2
SPECIFICATION FairSpec
INVARIANTS LogInv
PROPERTIES UpdateShown HistoryKept
CHECK_DEADLOCK FALSE
