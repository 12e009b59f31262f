SPECIFICATION Spec
CONSTANTS
  N = 2
  Systems = {"ref", "xlx", "rpt"}
  RemoteMods = {"A", "B"}
  Addrs = {"a1", "a2"}
  Named = {"ref"}
  Repeaters = {"rpt"}
  InPorts = {"XRF", "odd"}
  AutoLink = {1}
  Timed = {1, 2}
  Timeout = 1
  Kind <- KindOf
  Hosts <- RefMoves
  Origins <- AtHost
INVARIANT
  ExclusiveModule
PROPERTIES
  SilentLinksRunOut
  IsLinks
