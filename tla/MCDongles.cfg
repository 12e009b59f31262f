SPECIFICATION Spec
CONSTANTS
  Users = {1, 2, 3}
  Max = 2
  Timeout = 2
INVARIANTS
  TypeOK
PROPERTIES
  
  SilentAreRemoved
