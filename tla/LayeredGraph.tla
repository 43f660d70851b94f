----------------------------- MODULE LayeredGraph -----------------------------
(***************************************************************************)
(* Grooming and new lightpaths in one search (model/multilayer_graph.py,   *)
(* multilayer_disjoint.py, placement_common.py).                           *)
(*                                                                         *)
(* A path of the code's auxiliary graph alternates reused lightpaths with  *)
(* runs of new sections on one wavelength layer.  Here a route is that     *)
(* sequence of legs between access sites, and the ports of a layer, which  *)
(* a simple path visits once, are a condition on its runs (Liftable).      *)
(* networkx leaves routes of one weight to its queue, CHOOSE stands for    *)
(* it; _RAW_PATH_CAP, a guard against draining the generator, is left out. *)
(***************************************************************************)
EXTENDS Probe, Routing

CONSTANTS
  RouterAt,       \* partial map from Nodes: the router of a site
  PathBudget,     \* _PATH_BUDGET, distinct routes probed per policy
  FrontierCap,    \* _DEFAULT_K, placements kept per policy
  NewRun          \* the id of a leg that reuses no lightpath

ASSUME LayeredAssumption ==
  /\ DOMAIN RouterAt \subseteq Nodes /\ RouterAt \in [DOMAIN RouterAt -> Routers]
  /\ PathBudget \in Nat \ {0} /\ FrontierCap \in Nat \ {0}
  /\ NewRun \notin LightpathIds

-------------------------------------------------------------------------------
(* Legs.                                                                   *)

\* A leg, before its slot and mode are known.
Leg(id, seq) ==
  [id |-> id, oms |-> seq, slot |-> NoSlot, mode |-> NoMode, gsnr |-> 0, estimated |-> FALSE]

From(leg) == Src[leg.oms[1]]
To(leg)   == Dst[leg.oms[Len(leg.oms)]]
IsNew(leg) == leg.id = NewRun

NewLegs(legs)    == Filtered(legs, {leg \in Range(legs) : IsNew(leg)})
ReusedLegs(legs) == Filtered(legs, {leg \in Range(legs) : ~ IsNew(leg)})

AllRuns == {Leg(NewRun, r) : r \in OmsRoutes(OMS)}

BoundLinks(m, id) == {k \in DOMAIN m.ipLinks : m.ipLinks[k].lightpath = id}

CapacityOrNone(m, k) ==
  IF m.ipLinks[k].lightpath \in DOMAIN m.qot THEN Capacity(m, k) ELSE 0

UnloadedResidual(m, id) ==                                           \* mutant
  IF BoundLinks(m, id) = {} THEN 0 ELSE Min({CapacityOrNone(m, k) : k \in BoundLinks(m, id)})

\* Headroom of a lightpath: of its tightest link, or of its mode when no link
\* is bound.  Without a recorded QoT there is none.
Residual(m, id) ==
  IF BoundLinks(m, id) # {}
  THEN Min({CapacityOrNone(m, k) - OfferedLoad(m, k) : k \in BoundLinks(m, id)})
  ELSE IF id \in DOMAIN m.qot /\ ModeFeasible(m.qot[id]) THEN Bitrate[m.lightpaths[id].mode]
  ELSE 0

\* What an avoid-set can hit on a path: its sections, their elements and the
\* sites at their ends.  The elements of a section leave out its drop ROADM.
Exposed(seq) == UNION {TouchedBy(o) : o \in Range(seq)}

\* Members of the avoided groups; failed assets are not folded in here.
ForbiddenAssets(avoid) ==
  avoid.assets \cup Members(Srlgs, avoid.srlgs) \cup Members(RiskGroups, avoid.riskGroups)

\* build_layered_graph: the lightpaths worth grooming onto with their headroom,
\* and the layers of the sections a new run may cross.
Reusable(m, forbidden, atLeast) ==
  {id \in Lit(m) : /\ Exposed(m.lightpaths[id].oms) \cap forbidden = {}
                   /\ Residual(m, id) > 0 /\ Residual(m, id) >= atLeast}

LayeredGraph(m, forbidden, atLeast) ==
  [residual |-> [id \in Reusable(m, forbidden, atLeast) |-> Residual(m, id)],
   layers   |-> MaximalSlotClasses(BuildSpectrumState(m),
                                   {o \in OMS : Exposed(<<o>>) \cap forbidden = {}})]

LegsOf(m, g) ==
  {Leg(id, m.lightpaths[id].oms) : id \in DOMAIN g.residual}
    \cup {leg \in AllRuns : \E layer \in g.layers : Range(leg.oms) \subseteq layer}

-------------------------------------------------------------------------------
(* Routes.                                                                 *)

PortsOf(leg, end) == {end[o] : o \in Range(leg.oms)}

\* Every new run rides one layer, and two runs on a layer share no port: the
\* WLout port of a site that sends, the WLin port of one that receives.
Liftable(route, layers) ==
  \E on \in [{i \in DOMAIN route : IsNew(route[i])} -> layers] :
    /\ \A i \in DOMAIN on : Range(route[i].oms) \subseteq on[i]
    /\ \A i, j \in DOMAIN on : i # j /\ on[i] = on[j] =>
         /\ PortsOf(route[i], Src) \cap PortsOf(route[j], Src) = {}
         /\ PortsOf(route[i], Dst) \cap PortsOf(route[j], Dst) = {}

RoutesOn(g, legs, src, dst) ==
  {r \in SimpleWalks(legs, [leg \in legs |-> From(leg)], [leg \in legs |-> To(leg)]) :
     From(r[1]) = src /\ To(r[Len(r)]) = dst /\ Liftable(r, g.layers)}

\* _W_LPE 1.0 for a reused lightpath, _W_NEW_LP 5.0 and _W_WLE 0.1 per section
\* for a new one, in tenths.
Weight(route) ==
  Total([i \in DOMAIN route |-> IF IsNew(route[i]) THEN 50 + Len(route[i].oms) ELSE 10], DOMAIN route)

Cheapest(routes) == CHOOSE r \in routes : \A q \in routes : Weight(r) <= Weight(q)

ByWeight(routes) ==
  Folded(LAMBDA done, i : Append(done, Cheapest(routes \ Range(done))),
         <<>>, [i \in 1 .. Cardinality(routes) |-> i])

\* The groom_only policy has no caller under src/.
UnderPolicy(policy, route) == policy = "new_only" => \A i \in DOMAIN route : IsNew(route[i])

-------------------------------------------------------------------------------
(* Placements: [legs, restored].                                           *)

\* Two runs of one placement that share a section take different slots there.
Taken(legs) ==
  [o \in OMS |-> {legs[i].slot : i \in {i \in DOMAIN legs : IsNew(legs[i]) /\ o \in Range(legs[i].oms)}}]

OnSlot(state, done, leg) ==
  IF IsNew(leg) THEN [leg EXCEPT !.slot = FirstFitSlot(Merged(state, Taken(done)), leg.oms)]
  ELSE leg

AssignSlots(state, route) ==
  Folded(LAMBDA done, leg : Append(done, OnSlot(state, done, leg)), <<>>, route)

HasSlots(legs) == \A i \in DOMAIN legs : IsNew(legs[i]) => legs[i].slot # NoSlot

\* The comb a run is probed under; siblings are lit too when it is the actual one.
ProbeComb(state, legs, leg) ==
  Loading(state, leg.oms, leg.slot)
    \cup {other.slot : other \in {o \in Range(legs) : IsNew(o) /\ Range(o.oms) \cap Range(leg.oms) # {}}}

Judge(seen, leg, comb) ==
  LET gsnr == WorseDirection(seen, leg.oms, leg.slot, comb)
  IN  [leg EXCEPT !.mode = BestFeasibleMode(gsnr), !.gsnr = gsnr,
                  !.estimated = CanCompose(seen, leg.oms, comb)]

\* Runs are probed in travel order, until one has no mode or no way back.
ProbeLeg(acc, leg, comb) ==
  LET judged == Judge(acc.table, leg, comb)
  IN  IF ~ Propagatable(leg.oms) THEN [acc EXCEPT !.raises = TRUE]
      ELSE [acc EXCEPT !.legs = Append(@, judged), !.ok = judged.mode # NoMode,
                       !.table = Calibrated(@, leg.oms, comb)]

JudgeNext(state, legs, acc, leg) ==
  IF acc.raises \/ ~ acc.ok THEN acc
  ELSE IF IsNew(leg) THEN ProbeLeg(acc, leg, ProbeComb(state, legs, leg))
  ELSE [acc EXCEPT !.legs = Append(@, leg)]

Judged(seen, state, legs) ==
  Folded(LAMBDA acc, leg : JudgeNext(state, legs, acc, leg),
         [table |-> seen, legs |-> <<>>, ok |-> TRUE, raises |-> FALSE], legs)

\* The rate that fits: of the demand, the groomed lightpaths and the new ones.
RestoredRate(g, legs, gbps) ==
  Min({gbps} \cup {IF IsNew(leg) THEN Bitrate[leg.mode] ELSE g.residual[leg.id] : leg \in Range(legs)})

\* A new run must end at routers and a reused lightpath carry an IP link.
Materializable(m, placement) ==
  \A leg \in Range(placement.legs) :
    IF IsNew(leg) THEN {From(leg), To(leg)} \subseteq DOMAIN RouterAt
    ELSE BoundLinks(m, leg.id) # {}

\* stop_when, composed with what the harvest is filtered by afterwards.
StopsSearch(m, placement, gbps) == placement.restored >= gbps /\ Materializable(m, placement)

Harvest(seen) == [table |-> seen, probed |-> 0, out |-> <<>>, stop |-> FALSE, raises |-> FALSE]

Accept(h, m, g, judged, gbps, early) ==
  LET probed == [h EXCEPT !.probed = @ + 1, !.table = judged.table, !.raises = judged.raises]
      keep(p) == IF p.restored <= 0 THEN probed
                 ELSE [probed EXCEPT !.out = Append(@, p), !.stop = early /\ StopsSearch(m, p, gbps)]
  IN  IF judged.raises \/ ~ judged.ok THEN probed
      ELSE keep([legs |-> judged.legs, restored |-> RestoredRate(g, judged.legs, gbps)])

\* One turn of the loop of place_demands; a route without slots is not counted.
TryRoute(h, m, g, state, route, gbps, early) ==
  LET onSlots(legs) == IF HasSlots(legs) THEN Accept(h, m, g, Judged(h.table, state, legs), gbps, early)
                       ELSE h
  IN  IF h.stop \/ h.raises \/ Len(h.out) = FrontierCap \/ h.probed = PathBudget THEN h
      ELSE onSlots(AssignSlots(state, route))

PlaceDemands(h, m, g, routes, gbps, early) ==
  LET state == BuildSpectrumState(m)
  IN  Folded(LAMBDA acc, r : TryRoute(acc, m, g, state, r, gbps, early), h, routes)

\* What two placements over one route have in common, slots and modes apart.
RouteKey(placement) == Mapped(placement.legs, LAMBDA leg : <<leg.id, leg.oms>>)

\* Both policies, the second one only when the first did not stop the search.
HarvestOver(seen, m, g, routes, gbps, early) ==
  LET fresh == Filtered(routes, {r \in Range(routes) : UnderPolicy("new_only", r)})
      first == PlaceDemands(Harvest(seen), m, g, routes, gbps, early)
      again(h) == PlaceDemands(Harvest(h.table), m, g, fresh, gbps, early)
      merge(h, n) ==
        [n EXCEPT !.out = h.out \o Filtered(@, {p \in Range(@) :
                            RouteKey(p) \notin {RouteKey(q) : q \in Range(h.out)}})]
      both(h) == IF h.stop \/ h.raises THEN h ELSE merge(h, again(h))
  IN  both(first)

HarvestPlacements(seen, m, g, src, dst, gbps, early) ==
  LET over(routes) == HarvestOver(seen, m, g, routes, gbps, early)
  IN  over(ByWeight(RoutesOn(g, LegsOf(m, g), src, dst)))

-------------------------------------------------------------------------------
(* Disjoint placements.                                                    *)

OpaqueSections(legs) == FlattenSeq(Mapped(NewLegs(legs), LAMBDA leg : leg.oms))    \* mutant

\* Reused lightpaths flattened to their sections, then the new runs.
Sections(legs) ==
  FlattenSeq(Mapped(ReusedLegs(legs) \o NewLegs(legs), LAMBDA leg : leg.oms))

PlacementKeys(placement, basis, level, ends) ==
  PathBasisKeys(Sections(placement.legs), basis, level, ends)

\* disjoint_pairs, its first answer: <<>> when there is none.
DisjointPlacements(cands, basis, level, bestEffort, ends) ==
  LET best(scored) == IF scored = {} THEN <<>> ELSE FirstPair(scored)
      pairOf(p) == IF p = <<>> \/ (p[1] > 0 /\ ~ bestEffort) THEN <<>> ELSE <<cands[p[2]], cands[p[3]]>>
  IN  pairOf(best(ScoredPairs(Mapped(cands, LAMBDA c : PlacementKeys(c, basis, level, ends)))))

\* The SOLUTION / PARTIAL / NO_SOLUTION rule shared by the three callers.
Status(hasAny, satisfied) ==
  IF satisfied THEN "solution" ELSE IF hasAny THEN "partial" ELSE "no_solution"
===============================================================================
