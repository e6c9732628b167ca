SPECIFICATION Spec
CONSTANTS
  Characters = {"a", "b", "^", "$"}
  TriggerNames = {"init", "focus", "show", "other"}
  Files <- SmallFiles
  Numbers = {0, 1, 2}
  EditedFields = {"x", "id"}
  Texts <- MCTexts
  EditorFaults = {}
  Windows <- MCWindows
  MaxEdits = 3
  MonitorIds = {1}
INVARIANTS
  EveryRuleInForce
