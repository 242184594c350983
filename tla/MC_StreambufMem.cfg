SPECIFICATION Spec
CONSTANTS
  Delta = 4
  Sizes = {1, 2, 3, 5}
  MaxBytes = 12
INVARIANTS
  TypeOK
  ReadableIsFifo
PROPERTIES
  OnlyMovesSpoil
CHECK_DEADLOCK FALSE
