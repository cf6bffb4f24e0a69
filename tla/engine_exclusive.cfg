SPECIFICATION FairSpec
CONSTANTS
  MaxRows = 2
  Keys = {k1, k2}
  Pods = {p1, p2}
  Lanes = {"standard"}
  MaxAttempts = 2
  LeaseOutlivesRun = TRUE
  MaxOutages = 1
  MaxDbErrors = 1
  NoKey = NoKey
  Nobody = Nobody
INVARIANTS TypeOK OneWorkerPerRow SnapshotIsCurrent NoStrandedRow UniqueDelivery
PROPERTIES EveryRowSettles SettledIsFinal ImplementsDurableJobs
