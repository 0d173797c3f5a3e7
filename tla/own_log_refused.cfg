SPECIFICATION Spec
CONSTANTS
  F = 1
  Views = {0, 1, 2}
  Seqs = {0, 1, 2}
  Digests = {"a", "b"}
  Inputs <- SlotInputs
  MaxAppends = 6
  MaxCrashes = 1
INVARIANT OwnLogReplays
CHECK_DEADLOCK FALSE
