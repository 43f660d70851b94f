\* What an audited model promises, on the ring.
SPECIFICATION Spec
CONSTANTS
  l1 = l1  l2 = l2  l3 = l3  l4 = l4  l5 = l5  l6 = l6
  k1 = k1  k2 = k2  k3 = k3  k4 = k4  k5 = k5  s1 = s1  s2 = s2  m1 = m1  m2 = m2
  NoLink = NoLink
  Nodes <- RingNodes  OMS <- RingOMS  Assets <- RingAssets
  Amplifiers = {"amp_ac"}  Fibers = {}
  Src <- RingSrc  Dst <- RingDst  Elements <- RingElements  Roadm <- RingRoadm  Rank <- RingRank
  Modes = {m1, m2}
  NumSlots = 3
  GridChecked = FALSE
  MaxImpairment = 0
  LightpathIds = {l1, l2, l3, l4, l5, l6}
  LinkIds = {k1, k2, k3, k4, k5}
  ServiceIds = {s1, s2}
  Routers = {"rA", "rB", "rC"}
  Bitrate <- Bitrates  Demand <- UnitDemands  MarginOk <- FewNeighbours
  Site <- Sites
  Tolerance = 0
  InitialModels <- RingStarts
  Plans <- RingPlans
  FailSets <- RingFailSets
  ActuatorMayFail = FALSE
  MaxSnapshots = 1
  IdBound = 3
INVARIANTS TransientIsResolved FailoverNeverCongests SurvivesSingleFailure
