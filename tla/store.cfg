SPECIFICATION StoreSpec
CONSTANTS
  Texts = {t1, t2}
  StoreFaults = {"read", "write", "memory", "rewrite", "power"}
INVARIANTS
  SavedSurvives
PROPERTIES
  ImplementsAtomicFile
