SPECIFICATION Spec
CONSTANTS
  File = {"a", "b"}
  Contents = {"empty", "raw", "plain"}
  Tampering = {"edit"}
  MaxEdits = 2
INVARIANTS
  KnownIsRoute
PROPERTIES
  UpToDateUnlessLeftOver
  RegeneratesUnlessForgotten
CHECK_DEADLOCK FALSE
