\* A bounded number of attempts, no deadline, no failing call but lost replies to
\* the delete, and an operator who removes locks in use.
CONSTANTS
  r1 = r1
  r2 = r2
  r3 = r3
  Runs <- ThreeRuns
  NoObject = NoObject
  MaxAttempts = 2
  TimeoutSet = FALSE
  StoreFaults = {"deleteReply"}
  Operator = "careless"
SPECIFICATION FairSpec
INVARIANTS TypeOK LockNotLeaked
PROPERTIES ReleaseRemovesOnlyOwnLock EveryRunEnds
