SPECIFICATION Spec
CONSTANTS
  Characters = {"a", "b", "^", "$"}
  TriggerNames = {"init", "focus", "show", "other"}
  Files <- MCFiles
  Numbers = {0, 1, 2}
  EditedFields = {"x", "id"}
  Texts <- MCTexts
  EditorFaults = {"save"}
  Windows <- MCWindows
  MaxEdits = 3
  MonitorIds = {1}
INVARIANTS
  EditorInv
  ViewIsDocument
  KeysPartitioned
  SavedUnlessKnown
  MatchesAsDocumented
PROPERTIES
  SavesOnlyChanges
