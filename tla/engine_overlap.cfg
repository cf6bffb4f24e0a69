SPECIFICATION FairSpec
CONSTANTS
  MaxRows = 1
  Keys = {k1}
  Pods = {p1, p2}
  Lanes = {"standard"}
  MaxAttempts = 2
  LeaseOutlivesRun = FALSE
  MaxOutages = 0
  MaxDbErrors = 0
  NoKey = NoKey
  Nobody = Nobody
PROPERTIES ReadyRowsAreLeased
