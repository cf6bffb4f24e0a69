SPECIFICATION ReviewSpec
CONSTANTS
  r1 = r1
  r2 = r2
  Requests = {r1}
  Kinds <- ReviewAlone
  JobKind <- MCJobKind
  Ask <- MCAsk
  Keys <- MCKeys
  Findings = {}
  MaxRows = 2
  MaxRequests = 1
  MaxHead = 1
  MaxChecks = 1
  MaxRechecks = 1
  MaxEvents = 0
  MaxCallErrors = 0
  MaxFaults = 2
  Pods = {p1}
  Lanes = {"standard"}
  MaxAttempts = 3
  LeaseOutlivesRun = TRUE
  MaxOutages = 2
  MaxDbErrors = 0
  NoKey = NoKey
  Nobody = Nobody
INVARIANTS PendingCheckIsCarried
