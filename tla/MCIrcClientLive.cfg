SPECIFICATION FairSpec
CONSTANTS
  Users = {u1}
  Pingers = {}
  Others = {o1}
  RetryWait = 2
  NickWait = 1
  ReplyWait = 1
  PingWait = 1
  MaxQ = 1
  Spare = 1
PROPERTIES
  NoSilentStall
  CloseEndsThreads
CHECK_DEADLOCK FALSE
