SPECIFICATION Spec
CONSTANTS
  Packet = {p1, p2}
  MaxSend = 5
  InitialMapSize = 3
INVARIANTS
  OneWriteAtATime
  WriteBufferOwned
  NeverStalled
  DrainedIsSafeToDestroy
  SendInv
PROPERTIES
  NoWriteAfterFailure
  PeerLossEndsSession
  StreamSpec
\* The session ends: it is destroyed, or its memory was misused.
CHECK_DEADLOCK FALSE
