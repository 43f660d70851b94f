\* Two branches share caches of two entries, one network slot less than layers.
SPECIFICATION Spec
CONSTANTS
  NoLink = NoLink
  Nodes <- MCNodes  OMS <- MCOMS  Assets = {}
  Amplifiers = {}  Fibers = {}
  Src <- MCSrc  Dst <- MCDst  Elements <- NoElements  Roadm <- NoRoadm  Rank <- MCRank
  Modes = {"m"}
  NumSlots = 2
  GridChecked = FALSE
  MaxImpairment = 1
  LightpathIds = {"l"}  LinkIds = {"k"}  ServiceIds = {"s"}  Routers = {"r"}
  Branches = {"live", "branch"}
  Kind <- MCKind  DropKind <- MCDropKind  MarginOf <- MCMarginOf
  QotPaths <- MCPaths  Combs <- MCCombs  EdgeSlots = {1}
  MaxHops = 2  QotMax = 1  HarvestMax = 1  IncrementMax = 2  NetworkMax = 2
  Degraded <- MCDegraded
  MaxResults = 2  Ttl = 0  MaxPuts = 2  MaxNow = 1
INVARIANTS AnswerIsExact AnswerIsKept
CHECK_DEADLOCK FALSE
