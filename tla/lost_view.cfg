SPECIFICATION Spec
CONSTANTS
  F = 1
  Views = {0, 1}
  Seqs = {0, 1}
  Digests = {"a"}
  Inputs <- LostInputs
  MaxAppends = 6
  MaxCrashes = 1
PROPERTY ViewRecovered
CHECK_DEADLOCK FALSE
