SPECIFICATION Spec
CONSTANTS
  N = 2
  Active = {1}
  Timer = 1
  Quad = {v4}
  Gate = Gate
  None = None
INVARIANTS
  RadioKnows
PROPERTIES
  NoticesAreHeard
  NoticeIsPlayed
