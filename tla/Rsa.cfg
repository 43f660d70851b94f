\* Every order of three demands out of ten, over a lit, a cut and a half-lit network.
SPECIFICATION Spec
CONSTANTS
  l1 = l1  l2 = l2  l3 = l3  k1 = k1  s1 = s1  NoLink = NoLink
  Nodes <- MCNodes  OMS <- MCOMS  Assets <- MCAssets
  Amplifiers = {}  Fibers = {}
  Src <- MCSrc  Dst <- MCDst  Elements <- MCElements  Roadm <- MCRoadm  Rank <- MCRank
  Modes = {"slow", "mid", "fast"}
  NumSlots = 2
  GridChecked = FALSE
  MaxImpairment = 0
  LightpathIds = {l1, l2, l3}  LinkIds = {k1}  ServiceIds = {s1}  Routers = {}
  Bitrate <- MCBitrate  Demand <- NoDemand  MarginOk <- AnyMargin
  Srlgs <- MCSrlgs  RiskGroups <- MCRiskGroups
  LengthKm <- MCLengthKm  NodeRank <- MCNodeRank  CandidateCap = 3  EmissionCap = 8
  RequiredGsnr <- MCRequired  DesignMargin = 1  CompositionBound = 1  MaxComposedHops = 2
  FillPolicy = "full"
  Gsnr <- MCGsnr  ComposedGsnr <- MCComposed
  RouteCap = 2
  RsaModels <- MCModels  DemandLists <- MCDemandLists
CHECK_DEADLOCK FALSE
INVARIANTS NoSlotClash SpectrumAccounted AcceptedModesHold IndependentLegs ExhaustiveIsProof PlacementsAvoid
