CONSTANTS
  c1 = c1
  c2 = c2
  t1 = t1
  EmptyTitle = empty
  NoValue = none
  Hwnds = {h}
  Classes = {c1, c2}
  Titles = {empty, t1}
  RuleSets <- Sets
  MaxWindows = 2
  MaxEvents = 2
  Faults = {}
SPECIFICATION Spec
INVARIANTS NeverTerminated
