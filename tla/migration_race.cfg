\* Three openers at once, which may die.
SPECIFICATION Spec
CONSTANTS
  Opener = {p1, p2, p3}
  Guid = {g1}
  Faults = {"crash"}
CHECK_DEADLOCK FALSE
INVARIANTS
  VersionIsBacked
  OpenIsCurrent
  OpenSucceedsUndisturbed
