\* One opener, which may die.
SPECIFICATION Spec
CONSTANTS
  Opener = {p1}
  Guid = {g1}
  Faults = {"crash"}
CHECK_DEADLOCK FALSE
INVARIANT OpenSucceeds
