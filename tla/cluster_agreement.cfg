SPECIFICATION Spec
CONSTANTS
  F = 1
  Digests = {"a", "b"}
  Byzantine = {0}
  Injected <- EquivocatingLeader
  Reflected = {2, 3}
  Repeats = TRUE
INVARIANTS TypeOK HonestVotesOnce Agreement PreparedBehindDecision
PROPERTY ImplementsDecisionLog
CHECK_DEADLOCK FALSE
