SPECIFICATION Spec
CONSTANTS
  F = 1
  Views = {0, 1, 2}
  Seqs = {0, 1, 2}
  Digests = {"a", "b"}
  Inputs <- InheritInputs
  MaxAppends = 8
  MaxCrashes = 0
INVARIANT LockInherited
CHECK_DEADLOCK FALSE
