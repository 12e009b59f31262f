SPECIFICATION FairSpec
CONSTANTS
  N = 2
  r1 = r1
  r2 = r2
  l1 = l1
  l2 = l2
  Remote = {r1, r2}
  Local = {l1, l2}
  Dest <- ToFirst
  Src <- FromSecond
  None = None
  Stray = Stray
  RemoteWait = 1
  LocalWait = 1
  EchoWait = 1
  VmWait = 1
  Longest = 1
  Callers = {l2}
  Recorders = {l1}
INVARIANTS
  TypeOK
  TrackedOnAir
  TalkerIsForwarded
  RecordingHasFile
PROPERTIES
  OneAtATime
  SilenceFreesAll
