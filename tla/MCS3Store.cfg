\* Two clients of a bucket, requests that are repeated or fail.
CONSTANTS
  c1 = c1
  c2 = c2
  x = x
  y = y
  NoObject = NoObject
  Foreign = Foreign
  Clients = {c1, c2}
  Keys = {1, 2}
  Bodies = {x, y}
  Calls <- MCCalls
  CallsOf <- MCCallsOf
  PageSize = 1
  MaxAttempts = 2
  Faults = {"lost", "error", "token"}
SPECIFICATION FairSpec
INVARIANTS TypeOK ListComplete
PROPERTIES ImplementsObjectStore EveryCallReturns
