SPECIFICATION FairSpec
CONSTANTS
  p1 = p1
  p2 = p2
  Loops <- TwoStatusLoops
  GuideJobs = {1, 2}
  StatusJobs = {s1}
  Items = {1, 2}
  MaxHead = 2
  MaxChecks = 3
  MaxFaults = 1
  MaxEvents = 2
  StatusDuringPublish = FALSE
  Nobody = Nobody
INVARIANTS TypeOK CheckMatchesThreads GuideIsNotLost SuccessMeansResolved
PROPERTIES WrongCheckIsRepaired
