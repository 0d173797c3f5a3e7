SPECIFICATION FairSpec
CONSTANTS
  F = 1
  Digests = {"a", "b"}
  Byzantine = {3}
  Injected <- SilentNode
  Reflected = {}
  Repeats = FALSE
PROPERTY ProposalCommits
CHECK_DEADLOCK FALSE
