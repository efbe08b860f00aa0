\* An upload whose signature cannot be made.
CONSTANTS
  r1 = r1
  r2 = r2
  r3 = r3
  r4 = r4
  NoObject = NoObject
  Runs = {r1}
  JobsOf <- UnsignedJobs
  Before <- Anytime
  Faults = {"sign"}
  Codenames = {"noble"}
  Components = {"main"}
  Archs <- OneArch
  StandardArchs <- OneStandard
  Files = {"a_1.deb"}
SPECIFICATION Spec
INVARIANTS UnsignedUploadPublishesNothing
