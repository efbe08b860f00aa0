\* Commands that wait for each other while runs die.
CONSTANTS
  r1 = r1
  r2 = r2
  r3 = r3
  r4 = r4
  NoObject = NoObject
  Runs = {r1, r2, r3}
  JobsOf <- CompetingJobs
  Before <- Anytime
  Faults = {"crash"}
  Codenames = {"noble"}
  Components = {"main"}
  Archs <- OneArch
  StandardArchs <- OneStandard
  Files = {"a_1.deb", "b_1.deb"}
SPECIFICATION FairSpec
PROPERTIES EveryRunEnds
