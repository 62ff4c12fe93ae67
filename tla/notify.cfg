\* One reaper at a time, which may die, or fail to read or to record, beside
\* prunes and an ack, under fairness.
SPECIFICATION FairSpec
CONSTANTS
  Sweeper = {s1}
  Acker = {a1}
  Reescalate = 2
  SweepTime = 1
  Found = {"overdue"}
  Faults = {"crash", "get", "put", "prune"}
CHECK_DEADLOCK FALSE
INVARIANTS
  TypeOK
  RecordedIsPushed
PROPERTIES
  BackoffClimbs
  NeverMilder
  AckSilences
  UnackedReachesCrit
