\* Optical histories of three lightpaths with every injection and a recompute that may stop.
SPECIFICATION Spec
CONSTANTS
  l1 = l1  l2 = l2  l3 = l3  k1 = k1  k2 = k2  s1 = s1  m1 = m1  m2 = m2
  NoLink = NoLink
  Nodes <- MCNodes  OMS <- MCOMS  Assets <- MCAssets
  Amplifiers = {"amp_ba"}  Fibers = {"fib_bc"}
  Src <- MCSrc  Dst <- MCDst  Elements <- MCElements  Roadm <- MCRoadm  Rank <- MCRank
  Modes = {m1, m2}
  NumSlots = 2
  GridChecked = FALSE
  MaxImpairment = 1
  LightpathIds = {l1, l2, l3}
  LinkIds = {}  ServiceIds = {}  Routers = {}
  LightpathSpecs <- OpticalSpecs
  LinkSpecs <- None  ServiceSpecs <- None  Paths <- None  PlanInputs <- None
  IdOrder <- MCIdOrder
  FailSets <- OpticalFailSets
SYMMETRY OpticalSymmetry
INVARIANTS TypeOK QotFresh SentinelJustified OnlyMissingIsEnough RecomputeSettles
PROPERTIES NeverResurrected BystandersUntouched
