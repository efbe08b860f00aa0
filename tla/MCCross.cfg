\* copy to another codename beside delete and clean in the first one.
CONSTANTS
  r1 = r1
  r2 = r2
  r3 = r3
  r4 = r4
  NoObject = NoObject
  Runs = {r1, r2, r3, r4}
  JobsOf <- CrossJobs
  Before <- CrossAfter
  Faults = {}
  Codenames = {"noble", "jammy"}
  Components = {"main"}
  Archs <- OneArch
  StandardArchs <- OneStandard
  Files = {"a_1.deb"}
SPECIFICATION Spec
INVARIANTS IndexedPackagesExist
