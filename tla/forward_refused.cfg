SPECIFICATION Spec
CONSTANTS
  Href = {"/", "/a"}
  None = None
  MaxBlockers = 1
  Budget <- Events
  Refuses = {"FORWARD"}
  SameTick = FALSE
PROPERTIES
  EventuallyMatches
CHECK_DEADLOCK FALSE
