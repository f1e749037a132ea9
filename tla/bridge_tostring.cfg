CONSTANTS
  Tokens <- MCTokens
  Programs <- ReadmePrograms
  ByteStrings <- MCByteStrings
  Outcomes <- MCOutcomes
  LowWords = 1
  Garbage <- MCGarbage
  HeapCap = 3
  MaxScripts = 2
  MaxResults = 3
SPECIFICATION Spec
INVARIANT ScriptToStringShowsScript
CHECK_DEADLOCK FALSE
