SPECIFICATION ReviewSpec
CONSTANTS
  r1 = r1
  r2 = r2
  Requests = {r1,r2}
  Kinds <- ReviewOrAgent
  JobKind <- MCJobKind
  Ask <- MCAsk
  Keys <- MCKeys
  Findings = {f1}
  MaxRows = 3
  MaxRequests = 1
  MaxHead = 2
  MaxChecks = 3
  MaxRechecks = 1
  MaxEvents = 1
  MaxCallErrors = 1
  MaxFaults = 2
  Pods = {p1}
  Lanes = {"standard"}
  MaxAttempts = 2
  LeaseOutlivesRun = TRUE
  MaxOutages = 2
  MaxDbErrors = 1
  NoKey = NoKey
  Nobody = Nobody
INVARIANTS ReviewTypeOK ApprovalsFollowPass OrphansAreOfOutages
PROPERTIES CheckIsKept
ACTION_CONSTRAINT AgesWhenRead
