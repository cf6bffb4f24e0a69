SPECIFICATION GateSpec
CONSTANTS
  Criteria = {1, 2}
  Manual = {}
  Peripheral = {2}
  Proofs <- MCProofs
  MenuSize = 2
  FatalOutcomes = {"crash"}
  LineFacts <- MCLineFacts
  MaxSpan = 2
  Pushes <- MCPushes
  Answers <- MCAnswers
  Checks <- MCChecks
  EarlierRounds = {1}
  MaxChanges = 1
  MaxRows = 2
  MaxFaults = 1
INVARIANTS GateTypeOK ProvenStaysProven CachedPassIsRepeated RecordedRunDecodes VerdictHasItems DriftIsHarmless
PROPERTIES PassIsProven
CHECK_DEADLOCK FALSE
