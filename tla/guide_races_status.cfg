SPECIFICATION Spec
CONSTANTS
  p1 = p1
  p2 = p2
  Loops <- OnePod
  GuideJobs = {1}
  StatusJobs = {s1}
  Items = {1}
  MaxHead = 1
  MaxChecks = 2
  MaxFaults = 0
  MaxEvents = 2
  StatusDuringPublish = TRUE
  Nobody = Nobody
INVARIANTS CheckMatchesThreads
