\* Commands that all take the lock and may fail or die at every call.
CONSTANTS
  r1 = r1
  r2 = r2
  r3 = r3
  r4 = r4
  NoObject = NoObject
  Runs = {r1, r2, r3}
  JobsOf <- FaultyJobs
  Before <- FaultyAfter
  Faults = {"store", "sign", "crash", "timeout"}
  Codenames = {"noble"}
  Components = {"main"}
  Archs <- OneAndAll
  StandardArchs <- OneStandard
  Files = {"a_1.deb", "a_2.deb", "b_1.deb", "d_1.deb"}
SPECIFICATION Spec
INVARIANTS WorksUnderLock IndexedPackagesExist UploadHeals AcknowledgedUploads SignaturesMatch QueriesSeeAcknowledged
