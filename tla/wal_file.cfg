SPECIFICATION Spec
CONSTANTS
  Seqs = {1, 2, 3}
  MaxAppends = 4
  MaxInodes = 4
  MaxCrashes = 2
  EntriesReachDisk = TRUE
INVARIANTS TypeOK AckedDurable HandleIsLog
PROPERTY ImplementsDurableLog
CHECK_DEADLOCK FALSE
