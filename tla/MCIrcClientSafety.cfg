SPECIFICATION Spec
CONSTANTS
  Users = {u1}
  Pingers = {p1}
  Others = {o1}
  RetryWait = 1
  NickWait = 1
  ReplyWait = 1
  PingWait = 1
  MaxQ = 2
  Spare = 2
INVARIANTS
  NoUseAfterFree
  SessionStartsClean
PROPERTY
  IsUplink
CHECK_DEADLOCK FALSE
