SPECIFICATION StaleSpec
CONSTANTS
  Pods = {s1}
  Providers = {minimax}
  Cooldowns = {2}
  Prs = {p1}
  Heads = {1, 2}
  OtherSays = {"fatal", "settled"}
  Statuses <- MCStatuses
  MaxPerScan = 1
  MaxAttempts = 2
  MaxTalk = 3
  MaxUpsets = 1
INVARIANTS StaleTypeOK DeferralsAreFree
PROPERTIES AnsweredIsClosedOnFollowUp ResponseIsFollowedUp LingeringPrIsClosed
CHECK_DEADLOCK FALSE
