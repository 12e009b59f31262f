SPECIFICATION Spec
CONSTANTS
  None = None
  N = 3
  Systems = {"xrf", "rpt", "dcs"}
  Named = {"xrf"}
  Single = {"dcs"}
  Callers = {"rpt"}
  RemoteMods = {1}
  Private = {}
  Dongles = {"user"}
  Theirs = {"x1", "d1"}
  Ours = {"g1", "r1"}
  Local = {"l1"}
  FrameNos = {1}
  Kind <- KindOf
  Addrs = {"one", "other", "user"}
  Proto <- ProtoOf
  From <- FromOf
  Origin <- OriginOf
  FromMod <- FromModOf
  Rpt1 <- Rpt1Of
  Src <- SrcOf
  Reach <- Reaches
INVARIANTS
  TypeOK
  RelayedAfterHeader
  OwnCallsign
  GatewayAfterHeader
