SPECIFICATION Spec
CONSTANTS
  v1 = v1
  v2 = v2
  Findings <- TwoFindings
  MissingTests = {2}
  Reviewers = {v1, v2}
  MaxIncidents = 1
  MaxHead = 2
  MaxQuote = 2
  MaxReviews = 3
  MaxThreads = 1
  MaxAnswers = 1
SYMMETRY Symmetry
INVARIANTS TypeOK ApprovalMeetsNoOpenFinding
PROPERTIES OpenEndsForCause RefutedStaysRefuted EvaluationsAdvance
