\* Commands that all take the lock, in every order, without failures.
CONSTANTS
  r1 = r1
  r2 = r2
  r3 = r3
  r4 = r4
  NoObject = NoObject
  Runs = {r1, r2, r3}
  JobsOf <- LockedJobs
  Before <- Anytime
  Faults = {}
  Codenames = {"noble"}
  Components = {"main", "contrib"}
  Archs <- WithAll
  StandardArchs <- Standard
  Files = {"a_1.deb", "a_1_r.deb", "a_2.deb", "b_1.deb", "d_1.deb"}
SPECIFICATION Spec
INVARIANTS TypeOK ListedPackagesExist ReleaseMatchesIndexes
PROPERTIES ImplementsAtomic
