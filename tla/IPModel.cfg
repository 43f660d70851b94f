\* IP links, services and plan operations over two lightpaths.
SPECIFICATION Spec
CONSTANTS
  l1 = l1  l2 = l2  l3 = l3  k1 = k1  k2 = k2  s1 = s1  m1 = m1  m2 = m2
  NoLink = NoLink
  Nodes <- MCNodes  OMS <- MCOMS  Assets <- MCAssets
  Amplifiers = {"amp_ba"}  Fibers = {"fib_bc"}
  Src <- MCSrc  Dst <- MCDst  Elements <- MCElements  Roadm <- MCRoadm  Rank <- MCRank
  Modes = {m1, m2}
  NumSlots = 2
  GridChecked = FALSE
  MaxImpairment = 0
  LightpathIds = {l1, l2}
  LinkIds = {k1, k2}  ServiceIds = {s1}  Routers = {"rA", "rB", "rC"}
  LightpathSpecs <- IPSpecs
  LinkSpecs <- IPLinks  ServiceSpecs <- IPServices  Paths <- IPPaths  PlanInputs <- IPPlans
  IdOrder <- MCIdOrder
  FailSets <- IPFailSets
INVARIANTS LinksBound ServicePathsContiguous ReloadRestores
PROPERTY FailedOpLeavesModelUnchanged
