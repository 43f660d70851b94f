\* A demand groomed onto a lightpath that was there, next to one that gets lit.
SPECIFICATION Spec
CONSTANTS
  A = A  B = B  C = C  D = D  E = E
  NoLink = NoLink  NewRun = NewRun
  Nodes <- MCNodes  OMS <- MCOMS  Assets <- MCAssets
  Amplifiers = {}  Fibers = {}
  Src <- MCSrc  Dst <- MCDst  Elements <- MCElements  Roadm <- MCRoadm  Rank <- MCRank
  Modes = {"slow", "fast"}
  NumSlots = 2
  GridChecked = FALSE
  MaxImpairment = 0
  LightpathIds <- MCLightpathIds  LinkIds <- MCLightpathIds  ServiceIds <- Ids  Routers <- MCRouters
  Bitrate <- MCBitrate  Demand <- MCDemand  MarginOk <- MCMarginOk
  Srlgs <- NoGroups  RiskGroups <- NoGroups
  LengthKm <- MCLengthKm  NodeRank <- MCNodeRank  CandidateCap = 3  EmissionCap = 8
  RequiredGsnr <- MCRequired  DesignMargin = 1  CompositionBound = 1  MaxComposedHops = 3
  FillPolicy = "full"
  Gsnr <- MCGsnr  ComposedGsnr <- MCComposed
  RouterAt <- MCRouterAt  PathBudget = 8  FrontierCap = 4
  AtRisk = 1
  PackModels <- MCPackModels  PackLists <- MCPackLists  Spare <- MCSpare  Avoids <- MCAvoids
CHECK_DEADLOCK FALSE
INVARIANT GroomedStaysUp
