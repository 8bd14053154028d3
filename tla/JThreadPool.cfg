SPECIFICATION Spec
CONSTANTS
  Worker = {w1, w2, w3}
  Owner = owner
  MaxJob = 5
INVARIANTS
  NoIdleSleeper
  DestructorDrains
PROPERTIES
  DestructorReturns
  PoolSpec
\* The owner destroys the pool, or an exception ends the program.
CHECK_DEADLOCK FALSE
