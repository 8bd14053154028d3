SPECIFICATION Spec
CONSTANTS
  NsPerTick = 2
  Wrap = 6
  StartTime = 1
  MaxTick = 2
  MaxSession = 1
  MaxRecord = 1
  MaxLine = 2
  Text = {"plain"}
INVARIANTS
  FileIsReplayed
\* The model stops at the last tick.
CHECK_DEADLOCK FALSE
