\* A protected service whose two paths meet in a site.
SPECIFICATION Spec
CONSTANTS
  l1 = l1  l2 = l2  l3 = l3  l4 = l4  l5 = l5  l6 = l6
  k1 = k1  k2 = k2  k3 = k3  k4 = k4  k5 = k5  s1 = s1  s2 = s2  m1 = m1  m2 = m2
  NoLink = NoLink
  Nodes <- BridgeNodes  OMS <- BridgeOMS  Assets <- BridgeAssets
  Amplifiers = {}  Fibers = {}
  Src <- BridgeSrc  Dst <- BridgeDst  Elements <- BridgeElements  Roadm <- BridgeRoadm  Rank <- BridgeRank
  Modes = {m1, m2}
  NumSlots = 3
  GridChecked = FALSE
  MaxImpairment = 0
  LightpathIds = {l1, l2, l3, l4, l5, l6}
  LinkIds = {k1, k2, k3, k4, k5}
  ServiceIds = {s1, s2}
  Routers = {"rA", "rB", "rC", "rX"}
  Bitrate <- Bitrates  Demand <- UnitDemands  MarginOk <- FewNeighbours
  Site <- BridgeSites
  Tolerance = 0
  InitialModels <- BridgeStarts
  Plans <- None
  FailSets <- None
  ActuatorMayFail = FALSE
  MaxSnapshots = 1
  IdBound = 1
INVARIANT SurvivesSingleFailure
