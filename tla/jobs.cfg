SPECIFICATION FairSpec
CONSTANTS
  w1 = w1
  w2 = w2
  a1 = a1
  Workers = {w1, w2}
  Runs = {a1}
  Kinds = {"enhancement", "evaluation"}
  MaxJobs = 2
  MaxMishaps = 1
  Faults = {"crash", "raise", "database", "operator"}
INVARIANTS
  SectionsInOrder
  RunsMatchJobs
  WorkIsPaid
PROPERTIES
  SectionsWrittenOnce
  PersonaOutcomeFinal
  JobsFinish
