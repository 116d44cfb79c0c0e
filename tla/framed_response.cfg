SPECIFICATION Spec
CONSTANTS
  StreamId = {1, 2}
  Byte = {1, 2, 3}
  Chunks <- MCChunks
  Lines <- MCLines
  BrokenSources = {0, 1}
  MayDisconnect = TRUE
  Limits <- MCLimits
  Pieces = {3}
INVARIANTS
  BufferAddsUp
PROPERTIES
  ImplementsChannels
  StreamsEnd
CHECK_DEADLOCK FALSE
