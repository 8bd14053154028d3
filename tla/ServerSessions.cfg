SPECIFICATION Spec
CONSTANTS
  MaxSession = 3
  MaxSay = 1
  Say = {"MOVE"}
  Block = {b1, b2, b3}
INVARIANTS
  TypeOK
  OnePlace
  AcceptOrder
  ViewsHaveCharacters
  SpuriousNeedsReuse
PROPERTIES
  StableWhileProcessing
SYMMETRY BlockSymmetry
\* The program may die of an error the model records in "crashed".
CHECK_DEADLOCK FALSE
