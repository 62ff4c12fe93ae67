\* Up to four rows over a pool of three addresses with a neighbour on each side.
SPECIFICATION Spec
CONSTANTS
  Lo = 2
  Hi = 4
  Address = {1, 2, 3, 4, 5}
  MaxRows = 4
CHECK_DEADLOCK FALSE
INVARIANTS
  LowestFree
  NoOverflow
