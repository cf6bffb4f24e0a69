SPECIFICATION StatusLaneSpec
CONSTANTS
  MaxRows = 2
  Keys = {k1, k2}
  Pods = {p1}
  Lanes = {"standard", "status"}
  MaxAttempts = 2
  LeaseOutlivesRun = TRUE
  MaxOutages = 1
  MaxDbErrors = 1
  NoKey = NoKey
  Nobody = Nobody
PROPERTIES StatusRowsDoNotWait
