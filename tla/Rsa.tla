--------------------------------- MODULE Rsa ---------------------------------
(***************************************************************************)
(* solve_rsa (model/allocation.py): route each demand in turn, take the    *)
(* lowest slot free along a route and the fastest mode its GSNR supports.  *)
(* The solve works on its own copy of the spectrum; the model it reads     *)
(* never changes.  One step answers one demand.                            *)
(***************************************************************************)
EXTENDS Probe, Routing

CONSTANTS
  RouteCap,         \* _ROUTE_CAP, candidate routes per demand
  RsaModels,        \* the models a solve may start from
  DemandLists       \* sequences of demands

ASSUME RsaAssumption == RouteCap \in Nat \ {0} /\ \A m \in RsaModels : IsModel(m)

NoRate == 0         \* required_gbps is None

\* A demand: [id, src, dst, rate, protected, basis, level, bestEffort, avoid].

VARIABLES
  net,              \* the model under study
  todo,             \* demands not answered yet
  work,             \* the solve's own spectrum state
  table,            \* sections with a calibrated increment
  placed,           \* assignments in the order they were made
  unplaced,         \* demand ids refused with a reason
  raised            \* an evaluator's ValueError left the solve

vars == <<net, todo, work, table, placed, unplaced, raised>>

-------------------------------------------------------------------------------
(* One route.                                                              *)

NoAssignment == [oms |-> <<>>, slot |-> NoSlot, mode |-> NoMode]

\* _assign_on_route: nothing without a free slot, a mode, or the rate asked.
AssignOnRoute(calibrated, state, route, rate) ==
  LET slot == FirstFitSlot(state, route)
      comb == Loading(state, route, slot)
      mode == BestFeasibleMode(WorseDirection(calibrated, route, slot, comb))
  IN  IF slot = NoSlot THEN NoAssignment
      ELSE IF mode = NoMode THEN NoAssignment
      ELSE IF Bitrate[mode] < rate THEN NoAssignment
      ELSE [oms |-> route, slot |-> slot, mode |-> mode]

\* A route with a free slot is probed, and its probe needs a reverse path.
Probed(state, route) == FirstFitSlot(state, route) # NoSlot

Raises(state, route) == Probed(state, route) /\ ~ Propagatable(route)

TableAfter(calibrated, state, routes) ==
  calibrated \cup
    UNION {Calibrated({}, r, Loading(state, r, FirstFitSlot(state, r))) :
             r \in {r \in routes : Probed(state, r)}}

Leg(d, which, a) ==
  [demand |-> d, leg |-> which, oms |-> a.oms, slot |-> a.slot, mode |-> a.mode]

-------------------------------------------------------------------------------
(* One demand.  A search says which legs it found (none when refused), what *)
(* it calibrated on the way and whether a probe raised.                    *)

Answer(legs, seen, raises) == [legs |-> legs, table |-> seen, raises |-> raises]

\* The routes that take an assignment, each with its place in the list.
Assigned(routes, rate) ==
  {option \in {[at |-> i, got |-> AssignOnRoute(TableAfter(table, work, {routes[j] : j \in 1 .. i - 1}),
                                               work, routes[i], rate)] : i \in DOMAIN routes} :
     option.got # NoAssignment}

\* Lowest slot; the shorter route on a tie.
NoWorse(x, y) ==
  \/ x.got.slot < y.got.slot
  \/ x.got.slot = y.got.slot /\ x.at <= y.at

BestLegs(d, options) ==
  {<<Leg(d, "working", x.got)>> : x \in {x \in options : \A y \in options : NoWorse(x, y)}}

OnRoutes(d, routes) ==
  {Answer(legs, TableAfter(table, work, Range(routes)), \E r \in Range(routes) : Raises(work, r)) :
     legs \in IF Assigned(routes, d.rate) = {} THEN {<<>>}
             ELSE BestLegs(d, Assigned(routes, d.rate))}

SearchRoutes(d) == OnRoutes(d, ComputePaths(d.src, d.dst, RouteCap, TRUE, d.avoid, net.failed))

\* The second leg, on a copy of the spectrum that holds the first.
OnSecond(d, a, route, trial, seen) ==
  LET legs(b) == IF b = NoAssignment THEN <<>>
                 ELSE <<Leg(d, "working", a), Leg(d, "protection", b)>>
  IN  Answer(legs(AssignOnRoute(seen, trial, route, d.rate)),
             TableAfter(seen, trial, {route}), Raises(trial, route))

OnPair(d, pair, a, seen) ==
  IF Raises(work, pair.a) THEN Answer(<<>>, seen, TRUE)
  ELSE IF a = NoAssignment THEN Answer(<<>>, seen, FALSE)
  ELSE OnSecond(d, a, pair.b, Reserve(work, pair.a, a.slot), seen)

DisjointPair(d) ==
  ComputeDisjointPaths(d.src, d.dst, d.basis, d.level, d.bestEffort, TRUE,
                       ForbiddenOms(d.avoid, net.failed))

SearchPair(d) ==
  LET from(pair) ==
        IF pair.status = "no_solution" THEN Answer(<<>>, table, FALSE)
        ELSE OnPair(d, pair, AssignOnRoute(table, work, pair.a, d.rate),
                    TableAfter(table, work, {pair.a}))
  IN  from(DisjointPair(d))

Searches(d) == IF d.protected THEN {SearchPair(d)} ELSE SearchRoutes(d)

ReserveLegs(state, legs) ==
  [o \in OMS |-> state[o] \cup {legs[i].slot : i \in {i \in DOMAIN legs : o \in Range(legs[i].oms)}}]

-------------------------------------------------------------------------------

\* build_spectrum_state raises on an off-grid carrier before any demand.
Init ==
  /\ net \in RsaModels /\ ~ HasOffGrid(net)
  /\ todo \in DemandLists
  /\ work = BuildSpectrumState(net)
  /\ table = {} /\ placed = <<>> /\ unplaced = {} /\ raised = FALSE

Place(d, search) ==
  /\ ~ search.raises /\ search.legs # <<>>
  /\ work' = ReserveLegs(work, search.legs)
  /\ placed' = placed \o search.legs
  /\ todo' = Tail(todo) /\ table' = search.table
  /\ UNCHANGED <<net, unplaced, raised>>

\* A tentative first leg that is not rolled back.
RefuseLeaky(d, search) ==                                            \* mutant
  /\ ~ search.raises /\ search.legs = <<>>
  /\ unplaced' = unplaced \cup {d.id}
  /\ \E pair \in {DisjointPair(d)} :
       work' = IF d.protected /\ pair.status # "no_solution"
               THEN Reserve(work, pair.a, AssignOnRoute(table, work, pair.a, d.rate).slot)
               ELSE work
  /\ todo' = Tail(todo) /\ table' = search.table
  /\ UNCHANGED <<net, placed, raised>>

\* Refused: nothing stays reserved, not even the leg that did fit.
Refuse(d, search) ==
  /\ ~ search.raises /\ search.legs = <<>>
  /\ unplaced' = unplaced \cup {d.id}
  /\ todo' = Tail(todo) /\ table' = search.table
  /\ UNCHANGED <<net, work, placed, raised>>

\* The ValueError of an ambiguous or missing reverse path ends the solve.
Raise(search) ==
  /\ search.raises
  /\ raised' = TRUE /\ todo' = <<>>
  /\ UNCHANGED <<net, work, table, placed, unplaced>>

Next ==
  /\ todo # <<>>
  /\ \E search \in Searches(Head(todo)) :
       Place(Head(todo), search) \/ Refuse(Head(todo), search) \/ Raise(search)

Spec == Init /\ [][Next]_vars

-------------------------------------------------------------------------------
(* Properties.                                                             *)

SameChannel(a, b) == a.slot = b.slot /\ OMS \cap Range(a.oms) \cap Range(b.oms) # {}

\* No two assignments of a solve, nor an assignment and a lightpath of the
\* model, use one slot on one section: neither two demands, nor the two legs of
\* one, nor a route whose slot is free on some of its sections only.
NoSlotClash ==
  /\ \A i, j \in DOMAIN placed : i # j => ~ SameChannel(placed[i], placed[j])
  /\ \A i \in DOMAIN placed : \A id \in Lit(net) : ~ SameChannel(placed[i], net.lightpaths[id])

\* The spectrum the next demand sees is what the model and the answers so far
\* light: a refused demand (_place_protected's trial) leaves nothing behind.
SpectrumAccounted == work = ReserveLegs(BuildSpectrumState(net), placed)

\* A mode accepted on the full comb still meets its threshold on the channels
\* lit at the end, even when its GSNR was composed (FillPolicy, spectrum.py).
AcceptedModesHold ==
  FillPolicy = "full" =>
    \A i \in DOMAIN placed :
      LET p == placed[i]
      IN  RequiredGsnr[p.mode] <= Gsnr(p.oms, p.slot, OccupiedAlong(work, p.oms))

\* The legs of a protected demand fail apart: but for the sites they both have
\* to end at, no asset, no site on the node level, and no group is on both.
IndependentLegs ==
  \A i \in DOMAIN placed : placed[i].leg = "protection" =>
    LET d == placed[i].demand
        a == placed[i - 1].oms
        b == placed[i].oms
        ends == {d.src, d.dst}
        shared == (Footprint(a) \cap Footprint(b)) \ EndRoadms(ends)
        hits(groups) == {g \in DOMAIN groups : groups[g] \cap PhysicalOf(a, ends) # {}
                                               /\ groups[g] \cap PhysicalOf(b, ends) # {}}
    IN  \/ d.bestEffort
        \/ /\ d.basis \in {"physical", "union"} => shared = {}
           /\ d.basis \in {"physical", "union"} /\ d.level = "node" =>
                NodesOf(a) \cap NodesOf(b) \subseteq ends
           /\ d.basis \in {"srlg", "union"} => hits(Srlgs) = {}
           /\ d.basis \in {"risk_group", "union"} => hits(RiskGroups) = {}

\* When no disjoint pair is reported and the search says it was exhaustive,
\* there is none, whatever the caps and the order of parallel sections.
ExhaustiveIsProof ==
  \A d \in {todo[i] : i \in DOMAIN todo \cap {1}} :
    \A forbidden \in {ForbiddenOms(d.avoid, net.failed)}, basis \in Bases, level \in KeyLevels :
      \A answer \in {ComputeDisjointPaths(d.src, d.dst, basis, level, FALSE, TRUE, forbidden)} :
        answer.status = "no_solution" /\ answer.exhaustive =>
          \A a, b \in RoutesBetween(d.src, d.dst, OMS \ forbidden) :
            a # b => SharedKeys(a, b, basis, level) # {}

\* Nothing a route crosses is failed or avoided (its drop ROADM apart).
PlacementsAvoid ==
  \A i \in DOMAIN placed :
    LET avoid == placed[i].demand.avoid
        bad == net.failed \cup avoid.assets \cup Members(Srlgs, avoid.srlgs)
                 \cup Members(RiskGroups, avoid.riskGroups)
    IN  (OmsAssets(placed[i].oms) \cup NodesOf(placed[i].oms)) \cap bad = {}
===============================================================================
