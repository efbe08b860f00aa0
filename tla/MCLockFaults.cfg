\* The lock as the commands use it: unlimited attempts, --lock-timeout, store
\* calls that fail or lose their replies, runs that die, an operator who follows
\* docs/LOCKING.md.
CONSTANTS
  r1 = r1
  r2 = r2
  r3 = r3
  Runs <- ThreeRuns
  NoObject = NoObject
  MaxAttempts = 0
  TimeoutSet = TRUE
  StoreFaults = {"call", "createReply", "deleteReply"}
  Operator = "careful"
SPECIFICATION FairSpec
INVARIANTS MutualExclusion GrantedOwnsLockfile
PROPERTIES EveryRunEnds ImplementsLockService
