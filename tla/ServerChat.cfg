SPECIFICATION Spec
CONSTANTS
  MaxSession = 2
  MaxSay = 2
  Say = {"CHAT"}
  Block = {b1, b2}
INVARIANTS
  SameConversation
PROPERTIES
  AcceptedIsServed
  LeaverIsDestroyed
\* The program may die of an error the model records in "crashed".
CHECK_DEADLOCK FALSE
