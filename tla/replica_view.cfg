SPECIFICATION Spec
CONSTANTS
  F = 1
  Views = {0, 1, 2}
  Seqs = {0, 1, 2}
  Digests = {"a", "b"}
  Inputs <- ViewInputs
  MaxAppends = 6
  MaxCrashes = 1
INVARIANTS TypeOK AckedSurvives ViewDurable VotesBacked
CHECK_DEADLOCK FALSE
