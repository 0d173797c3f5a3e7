SPECIFICATION Spec
CONSTANTS
  Managers = {m1, m2}
  Validators = {1, 2, 3, 4}
  Faulty = {4}
  Sets <- MCSets
  Genesis <- MCGenesis
INVARIANTS TypeOK 
CHECK_DEADLOCK FALSE
