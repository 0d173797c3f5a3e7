SPECIFICATION FairSpec
CONSTANTS
  F = 0
  Views = {0, 1, 2}
  Seqs = {0, 1, 2}
  Digests = {"a", "b"}
  Inputs <- SoloInputs
  MaxAppends = 6
  MaxCrashes = 2
INVARIANTS CertificatesBacked NoConflictAboveStable DecisionKept RefusalsExplained
PROPERTIES RecoveryKeepsProgress RestartServes
CHECK_DEADLOCK FALSE
