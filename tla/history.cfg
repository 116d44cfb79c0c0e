SPECIFICATION Spec
CONSTANTS
  Href = {"/", "/a"}
  None = None
  MaxBlockers = 2
  Budget <- Events
  Refuses = {"PUSH", "REPLACE", "BACK", "FORWARD", "GO"}
  SameTick = FALSE
INVARIANTS
  TypeOK
PROPERTIES
  MatchesUnlessRefused
  AgreesUnlessRefused
CHECK_DEADLOCK FALSE
