SPECIFICATION Spec
CONSTANTS
  NoSlug = NoSlug
  Missing = Missing
  Partial = Partial
  Name <- MCName
  Slug <- MCSlug
  Memory <- MCMemory
  Body = {"line", "text"}
  Short = {"line"}
  ByHand <- MCByHand
  Reserved = "memory.md"
  Starred = {"plan*"}
  Threshold = 2
  MaxDecisions = 2
  MaxMerged = 2
  MaxSelected = 1
  RollbackMayFail = FALSE
INVARIANTS TypeOK FilesApart QuietLoad
PROPERTIES AlwaysRecoverable KeepsMemoryPromise
