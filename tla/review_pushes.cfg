SPECIFICATION FairReviewSpec
CONSTANTS
  r1 = r1
  r2 = r2
  Requests = {r1}
  Kinds <- ReviewAlone
  JobKind <- MCJobKind
  Ask <- MCAsk
  Keys <- MCKeys
  Findings = {}
  MaxRows = 3
  MaxRequests = 1
  MaxHead = 2
  MaxChecks = 1
  MaxRechecks = 2
  MaxEvents = 3
  MaxCallErrors = 0
  MaxFaults = 2
  Pods = {p1}
  Lanes = {"standard"}
  MaxAttempts = 2
  LeaseOutlivesRun = TRUE
  MaxOutages = 0
  MaxDbErrors = 0
  NoKey = NoKey
  Nobody = Nobody
INVARIANTS ApprovalsFollowPass PendingCheckIsCarried SuccessIsOfItsHead
PROPERTIES EveryCheckFinishes
