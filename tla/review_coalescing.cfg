SPECIFICATION ReviewSpec
CONSTANTS
  r1 = r1
  r2 = r2
  Requests = {r1, r2}
  Kinds <- ReviewAndCommand
  JobKind <- MCJobKind
  Ask <- MCAsk
  Keys <- MCKeys
  Findings = {f1, f2}
  MaxRows = 3
  MaxRequests = 2
  MaxHead = 1
  MaxChecks = 2
  MaxRechecks = 1
  MaxEvents = 0
  MaxCallErrors = 0
  MaxFaults = 2
  Pods = {p1, p2}
  Lanes = {"standard"}
  MaxAttempts = 2
  LeaseOutlivesRun = TRUE
  MaxOutages = 0
  MaxDbErrors = 0
  NoKey = NoKey
  Nobody = Nobody
SYMMETRY Symmetry
INVARIANTS RequestsLeadToReview
ACTION_CONSTRAINT AgesWhenRead
