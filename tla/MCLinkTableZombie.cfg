SPECIFICATION FairSpec
CONSTANTS
  N = 2
  Systems = {"ref"}
  RemoteMods = {"A", "B"}
  Addrs = {"a1", "a2"}
  Named = {"ref"}
  Repeaters = {}
  InPorts = {"XRF"}
  AutoLink = {1, 2}
  Timed = {}
  Timeout = 1
  Kind <- KindOf
  Hosts <- Settled
  Origins <- Away
PROPERTY
  LossIsNoticed
