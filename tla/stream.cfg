SPECIFICATION Spec
CONSTANTS
  Pages <- DocumentsAndFragments
  Scripts = 4
  MaxLeftover = 1
INVARIANTS
  TypeOK
  ScriptsAddUp
  HtmlAddsUp
  ScriptsBetweenTags
  CompleteWhenClosed
PROPERTIES
  ResponseEnds
CHECK_DEADLOCK FALSE
