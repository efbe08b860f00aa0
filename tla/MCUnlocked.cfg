\* Commands that ignore the lock and interleave call by call.
CONSTANTS
  r1 = r1
  r2 = r2
  r3 = r3
  r4 = r4
  NoObject = NoObject
  Runs = {r1, r2, r3}
  JobsOf <- UnlockedJobs
  Before <- UnlockedAfter
  Faults = {"crash", "late"}
  Codenames = {"noble"}
  Components = {"main", "contrib"}
  Archs <- WithAll
  StandardArchs <- Standard
  Files = {"a_1.deb", "a_2.deb", "b_1.deb", "d_1.deb"}
SPECIFICATION Spec
INVARIANTS CanonicalByHash ServedByHash ListedPackagesExist
