SPECIFICATION Spec
CONSTANTS
  MaxPush = 5
INVARIANTS
  AsleepMeansEmpty
PROPERTIES
  RecorderSpec
\* "end" may be typed at any time; then the process ends.
CHECK_DEADLOCK FALSE
