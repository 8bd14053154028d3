SPECIFICATION Spec
CONSTANTS
  RecvBufSize = 3
  HeaderSize = 2
  Script <- MCScript
INVARIANTS
  BacklogIsProcessed
\* A session ends: its commander is removed, or the program aborts.
CHECK_DEADLOCK FALSE
