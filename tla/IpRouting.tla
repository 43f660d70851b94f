------------------------------ MODULE IpRouting ------------------------------
(***************************************************************************)
(* The IP layer read off a model (model/ip_routing.py and                  *)
(* NetworkModel.ip_link_capacity_gbps): link status, the path a service    *)
(* rides under 1:1 failover, and the load that puts on the links.  Pure    *)
(* functions of a model: they route nothing and change nothing.            *)
(***************************************************************************)
EXTENDS PlanOps

CONSTANTS
  Bitrate,      \* [Modes -> Nat], bitrate_gbps of a mode
  Demand,       \* [ServiceIds -> Nat], demand_gbps of a service
  MarginOk(_)   \* GNPy: whether a measurement leaves a margin >= 0

ASSUME RoutingAssumption ==
  /\ Bitrate \in [Modes -> Nat \ {0}]
  /\ Demand \in [ServiceIds -> Nat]

\* QoTState.mode_feasible; the margin of a failure sentinel is -inf.
ModeFeasible(q) == q.kind = "measured" /\ MarginOk(q)

\* What ip_link_capacity_gbps returns for a link with a recorded QoT.
Capacity(m, k) ==
  LET lp == m.ipLinks[k].lightpath
  IN  IF ModeFeasible(m.qot[lp]) THEN Bitrate[m.lightpaths[lp].mode] ELSE 0

LinkStatus(m, k) ==
  IF k \notin DOMAIN m.ipLinks \/ m.ipLinks[k].lightpath \notin Lit(m) THEN "removed"
  ELSE IF m.ipLinks[k].lightpath \notin DOMAIN m.qot THEN "unknown"
  ELSE IF Capacity(m, k) > 0 THEN "up" ELSE "down"

PathUsable(m, path) ==
  /\ path # <<>>
  /\ \A k \in Range(path) : LinkStatus(m, k) \in {"up", "unknown"}

\* The path service s rides: working, else its reserved protection, else none.
ActivePath(m, s) ==
  IF PathUsable(m, m.services[s].working) THEN m.services[s].working
  ELSE IF PathUsable(m, m.services[s].protection) THEN m.services[s].protection
  ELSE <<>>

DroppedServices(m)  == {s \in DOMAIN m.services : ActivePath(m, s) = <<>>}

-------------------------------------------------------------------------------
(* Demand that is lost.                                                    *)

DroppedDemand(m) == Total(Demand, DroppedServices(m))

-------------------------------------------------------------------------------
(* Load: a service counts once for each time its path crosses the link.    *)

Crossings(path, k) == Cardinality({i \in DOMAIN path : path[i] = k})

LoadOn(m, k, pathOf) ==
  Total([s \in DOMAIN m.services |-> Demand[s] * Crossings(pathOf[s], k)], DOMAIN m.services)

ActiveLoad(m, k)  == LoadOn(m, k, [s \in DOMAIN m.services |-> ActivePath(m, s)])
OfferedLoad(m, k) == LoadOn(m, k, [s \in DOMAIN m.services |-> m.services[s].working])

LargestReservation(m, k) ==                    \* mutant: reservations shared
  LET reserving == {s \in DOMAIN m.services : Crossings(m.services[s].protection, k) > 0}
  IN  IF reserving = {} THEN 0 ELSE Max({Demand[s] : s \in reserving})

Reserved(m, k)    == LoadOn(m, k, [s \in DOMAIN m.services |-> m.services[s].protection])

\* simulate_ip_routing's congested_links: up, and offered more than capacity.
CongestedLinks(m) ==
  {k \in DOMAIN m.ipLinks : LinkStatus(m, k) = "up" /\ ActiveLoad(m, k) > Capacity(m, k)}
===============================================================================
