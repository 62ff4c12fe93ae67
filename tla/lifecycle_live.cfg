\* One env, a destroy at any time, as before its guest is up, and an operator who
\* changes what kento reports of the guest, under fairness.
SPECIFICATION FairSpec
CONSTANTS
  Guid = {g1}
  Owner = {o1}
  Mode = {"vm"}
  IpLo = 1
  IpHi = 1
  Ttl = {1}
  Extension = {1}
  Cap = 1
  AgeFloor = 1
  DefaultTtl = 1
  MaxTtl = 1
  Retention = 2
  HerdCap = 1
  ProvisionTime = 0
  ListTime = 0
  Sweeper = {s1}
  OneShot = {s1}
  Destroyer = {d1}
  Extender = {}
  Altered = {"name", "label", "mac"}
  MaxTime = 2
CHECK_DEADLOCK FALSE
PROPERTIES
  HistoryKept
  ReapOnlyConfirmed
  OverdueIsReaped
  LeaseIsReleased
