CONSTANTS
  Tokens <- MCTokens
  Programs <- MCPrograms
  ByteStrings <- MCByteStrings
  Outcomes <- MCOutcomes
  LowWords = 1
  Garbage <- MCGarbage
  HeapCap = 3
  MaxScripts = 2
  MaxResults = 3
SPECIFICATION FairSpec
INVARIANTS
  TypeOK
  CodeoutComplete
  StoresInBounds
  LowMemoryClean
  HandlesAreReturned
  DecompileUndoesCompile
  ViewsShowStack
PROPERTIES
  NothingHeldChanges
  ImplementsService
  CallsEnd
\* The module stops for good when it aborts, and when MaxResults calls returned.
CHECK_DEADLOCK FALSE
