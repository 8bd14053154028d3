SPECIFICATION Spec
CONSTANTS
  NsPerTick = 2
  Wrap = 8
  StartTime = 1
  MaxTick = 3
  MaxSession = 3
  MaxRecord = 4
  MaxLine = 2
  Text = {"plain", "bar", "newline"}
INVARIANTS
  ListIsReplayed
  OrderUpToTies
  SameAnswers
  SameHeading
  CrashHasCause
  KeepsPace
\* The model stops at the last tick, or the replay dies.
CHECK_DEADLOCK FALSE
