\* One env and two extends of it, beside two sweeps at once: a one-shot sweep that
\* overrides a wedged watcher's.  (A one-shot sweep that dies before it prunes does
\* what a watcher's does.)
SPECIFICATION Spec
SYMMETRY ProcessSymmetry
CONSTANTS
  Guid = {g1}
  Owner = {o1}
  Mode = {"vm"}
  IpLo = 1
  IpHi = 1
  Ttl = {1}
  Extension = {1}
  Cap = 1
  AgeFloor = 1
  DefaultTtl = 1
  MaxTtl = 2
  Retention = 0
  HerdCap = 1
  ProvisionTime = 0
  ListTime = 0
  Sweeper = {s1, s2}
  OneShot = {s1, s2}
  Destroyer = {}
  Extender = {x1, x2}
  Altered = {}
  MaxTime = 2
CHECK_DEADLOCK FALSE
INVARIANTS
  DeadlineBounded
PROPERTIES
  ReapOnlyOverdue
  HistoryKept
  ImplementsLease
