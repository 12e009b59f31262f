SPECIFICATION Spec
CONSTANTS
  Nets = {0, 1}
  Users = {"u"}
  Bases = {1, 2}
  Mods = {"B"}
  Sessions = {1, 2}
  None = None
  Short <- Self
  AddrOf <- Tens
  Comes <- ComesTo
INVARIANTS
  TypeOK
  CallsReachTheLiving
  PresentIsFound
  LastRecordCounts
PROPERTIES
  IsDirectory
