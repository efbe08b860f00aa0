\* The deadline of --lock-timeout passes after the lockfile was created.
CONSTANTS
  r1 = r1
  r2 = r2
  r3 = r3
  Runs <- TwoRuns
  NoObject = NoObject
  MaxAttempts = 0
  TimeoutSet = TRUE
  StoreFaults = {}
  Operator = "careful"
SPECIFICATION Spec
INVARIANT LockNotLeaked
