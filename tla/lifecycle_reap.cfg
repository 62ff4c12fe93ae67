\* Two creates over two addresses, and one reaper that reaps, re-adopts, retires
\* and prunes.  Guests take up to a tick to come up, and lists up to a tick.
SPECIFICATION Spec
SYMMETRY GuidSymmetry
CONSTANTS
  Guid = {g1, g2}
  Owner = {o1}
  Mode = {"lxc"}
  IpLo = 1
  IpHi = 2
  Ttl = {1}
  Extension = {1}
  Cap = 2
  AgeFloor = 2
  DefaultTtl = 1
  MaxTtl = 2
  Retention = 0
  HerdCap = 1
  ProvisionTime = 1
  ListTime = 1
  Sweeper = {s1}
  OneShot = {s1}
  Destroyer = {}
  Extender = {}
  Altered = {}
  MaxTime = 3
CHECK_DEADLOCK FALSE
INVARIANTS
  TypeOK
  LeasedGuestsDistinct
  ActiveIpsDistinct
  HerdCapHeld
PROPERTIES
  VanishOnlyGone
  ImplementsLease
