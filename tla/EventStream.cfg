SPECIFICATION FairSpec
CONSTANTS
  ItemCount = 1
  PageSize = 2
  MaxEvents = 5
  BufferSize = 1
  Settings <- MCSettings
INVARIANTS
  TypeOK
  TextPreserved
  StreamHasNoGaps
  CompletedIsWhole
PROPERTY StreamsServe
CHECK_DEADLOCK FALSE
