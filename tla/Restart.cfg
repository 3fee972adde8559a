SPECIFICATION Spec
CONSTANTS
  User = {1, 2}
  BaseLen = 1
  MaxOps = 2
  MaxStarts = 2
INVARIANTS
  
  
  IdsMeanOneOperation
PROPERTIES
  SavedUntilDeleted
CHECK_DEADLOCK FALSE
