\* Two watchers that may hang or die anywhere, and two one-shot sweeps.
SPECIFICATION FairSpec
CONSTANTS
  Env = {e1}
  Watch = {w1, w2}
  Timer = {t1, t2}
  Threshold = 2
  SweepTime = 1
  Faults = {"watch", "timer", "error"}
CHECK_DEADLOCK FALSE
INVARIANTS
  SweepsAlone
PROPERTIES
  BackstopRuns
