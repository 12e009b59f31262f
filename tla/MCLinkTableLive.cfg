SPECIFICATION FairSpec
CONSTANTS
  N = 2
  Systems = {"ref", "twin", "dcs", "rpt"}
  RemoteMods = {"A", "B"}
  Addrs = {"a1", "a2"}
  Named = {"ref", "dcs"}
  Repeaters = {"rpt"}
  InPorts = {"XRF"}
  AutoLink = {}
  Timed = {2}
  Timeout = 1
  Kind <- KindOf
  Hosts <- DcsMoves
  Origins <- Away
INVARIANT
  DcsRowBacked
PROPERTIES
  LoginKept
  LossIsNoticed
