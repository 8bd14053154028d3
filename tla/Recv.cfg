SPECIFICATION Spec
CONSTANTS
  RecvBufSize = 3
  HeaderSize = 2
  Script <- MCScript
INVARIANTS
  TypeOK
  BuffersInBounds
  NoByteLost
  FaithfulUnlessRaced
  AbortOnlyUnderBacklog
PROPERTIES
  ArrivedIsProcessed
\* A session ends: its commander is removed, or the program aborts.
CHECK_DEADLOCK FALSE
