SPECIFICATION Spec
CONSTANTS
  MaxSession = 2
  MaxSay = 0
  Say = {}
  Block = {b1, b2}
INVARIANTS
  LateLoginIsServed
\* The program may die of an error the model records in "crashed".
CHECK_DEADLOCK FALSE
