\* Every text of at most six characters in every number of chunks, with events
\* of at most three; and messages.
CONSTANTS
  CR = "CR"
  LF = "LF"
  Characters <- MCCharacters
  Replacement = "x"
  MaxEvent = 3
  MaxText = 6
  Letters <- MCLetters
  KeyOrder <- MCKeyOrder
  Deepest = 5
  MessageFields <- MCMessageFields
  Limits <- MCLimits
  NodeScratch = 1
  StringScratch = 5
  FieldScratch = 2
SPECIFICATION MCSpec
INVARIANTS ChunksMatterAtTheLimitOnly HashedAsMeant LimitsMeetTheIdentity
CHECK_DEADLOCK FALSE
