\* The wife's room with four terminals.  A death and the credits end the model.
SPECIFICATION Spec
CONSTANTS
  Terminals <- FourTerminals
  Away = "away"
CHECK_DEADLOCK FALSE
INVARIANTS
  LitAreDone
  EndsForTheLiving
PROPERTIES
  LockStep
