----------------------------- MODULE MCCommitPlan -----------------------------
(***************************************************************************)
(* Small networks for CommitPlan.  The ring has sites A, B and C, paired   *)
(* sections between them and a section B->D without an opposite one.  The  *)
(* bridge has two routes from A to B that meet only in site C.             *)
(***************************************************************************)
EXTENDS CommitPlan, TLC

CONSTANTS l1, l2, l3, l4, l5, l6, k1, k2, k3, k4, k5, s1, s2, m1, m2

Lp(oms, mode, slot) == [oms |-> oms, mode |-> mode, slot |-> slot]
Lk(a, z, lightpath) == [a |-> a, z |-> z, lightpath |-> lightpath]
Svc(src, dst, working, protection) ==
  [src |-> src, dst |-> dst, working |-> working, protection |-> protection]

-------------------------------------------------------------------------------
(* The ring.                                                               *)

RingNodes  == {"A", "B", "C", "D"}
RingOMS    == {"ab", "ba", "ac", "ca", "cb", "bc", "bd"}
RingAssets == {"roadm_A", "roadm_B", "roadm_C", "fib_ab", "amp_ac", "amp_cb"}

RingSrc == [o \in RingOMS |-> CASE o \in {"ab", "ac"} -> "A" [] o \in {"ba", "bc", "bd"} -> "B"
                                [] OTHER -> "C"]
RingDst == [o \in RingOMS |-> CASE o \in {"ba", "ca"} -> "A" [] o \in {"ab", "cb"} -> "B"
                                [] o \in {"ac", "bc"} -> "C" [] OTHER -> "D"]
RingRoadm == [n \in {"A", "B", "C"} |->
                CASE n = "A" -> "roadm_A" [] n = "B" -> "roadm_B" [] OTHER -> "roadm_C"]
RingElements == [o \in RingOMS |->
  {RingRoadm[RingSrc[o]]} \cup
    (CASE o = "ab" -> {"fib_ab"} [] o = "ac" -> {"amp_ac"} [] o = "cb" -> {"amp_cb"}
       [] OTHER -> {})]
RingRank == [x \in RingOMS \cup RingAssets |->
  CASE x = "amp_ac" -> 1 [] x = "amp_cb" -> 2 [] x = "fib_ab" -> 3 [] x = "roadm_A" -> 4
    [] x = "roadm_B" -> 5 [] x = "roadm_C" -> 6 [] x = "ab" -> 7 [] x = "ac" -> 8
    [] x = "ba" -> 9 [] x = "bc" -> 10 [] x = "bd" -> 11 [] x = "ca" -> 12 [] OTHER -> 13]

Bitrates == [m \in {m1, m2} |-> IF m = m1 THEN 1 ELSE 2]
Sites    == [r \in {"rA", "rB", "rC"} |->
               CASE r = "rA" -> "A" [] r = "rB" -> "B" [] OTHER -> "C"]
UnitDemands == [s \in {s1, s2} |-> 1]

\* The faster mode closes with at most two channels on its sections.
FewNeighbours(q) == q.mode = m1 \/ Cardinality(q.comb) <= 2

\* Two working lightpaths on ab, a two-link protection by C.
RingBase(protectionMode) ==
  AddIPLink(AddIPLink(AddIPLink(AddIPLink(
    AddLightpath(AddLightpath(AddLightpath(AddLightpath(EmptyModel,
      l1, Lp(<<"ab">>, m1, 0)), l2, Lp(<<"ac">>, protectionMode, 0)),
      l3, Lp(<<"cb">>, m2, 0)), l4, Lp(<<"ab">>, m1, 1)),
    k1, Lk("rA", "rB", l1)), k2, Lk("rA", "rC", l2)),
    k3, Lk("rC", "rB", l3)), k4, Lk("rA", "rB", l4))

RingService1(m) == AddService(m, s1, Svc("rA", "rB", <<k1>>, <<k2, k3>>))
RingStarts ==
  {Recompute(AddService(RingService1(RingBase(m2)), s2, Svc("rB", "rA", <<k4>>, <<k3, k2>>)), FALSE),
   Recompute(AddService(RingService1(RingBase(m1)), s2, Svc("rB", "rA", <<k4>>, <<>>)), FALSE)}

RingPlans ==
  {\* make before break, and back
   <<Provision(l5, Lp(<<"ab">>, m1, 2), k5, "rA", "rB"), Reroute(s1, <<k5>>, "working"), Teardown(l1)>>,
   <<Provision(l1, Lp(<<"ab">>, m1, 0), k1, "rA", "rB"), Reroute(s1, <<k1>>, "working"), Teardown(l5)>>,
   \* break before make
   <<Teardown(l4), Provision(l5, Lp(<<"ab">>, m1, 2), k5, "rA", "rB"), Reroute(s2, <<k5>>, "working")>>,
   \* reservations and capacity
   <<Reroute(s2, <<k3, k2>>, "protection")>>, <<SetMode(l2, m1)>>, <<SetMode(l2, m2)>>,
   \* a protection over the working section
   <<Reroute(s1, <<k4>>, "protection")>>,
   \* a working path over the sections of the protection; a protection taken away
   <<Provision(l5, Lp(<<"ac", "cb">>, m1, 1), k5, "rA", "rB"), Reroute(s2, <<k5>>, "working")>>,
   <<Teardown(l2)>>,
   \* infeasible, then clashing
   <<ProvisionUnbound(l5, Lp(<<"ab">>, m2, 2)), ProvisionUnbound(l6, Lp(<<"ab">>, m1, 0))>>,
   \* a path that cannot be propagated backward
   <<ProvisionUnbound(l6, Lp(<<"bd">>, m1, 0))>>,
   <<>>}

RingFailSets == {{"fib_ab"}, {"amp_ac"}}

-------------------------------------------------------------------------------
(* The bridge: working A-E-C-B, protection A-C-X-B with the link between C *)
(* and X lit from X to C.                                                  *)

BridgePairs == {<<"A", "E">>, <<"E", "C">>, <<"C", "B">>, <<"A", "C">>, <<"X", "C">>, <<"X", "B">>}
BridgeNodes == {"A", "B", "C", "E", "X"}
BridgeOMS   == BridgePairs \cup {<<p[2], p[1]>> : p \in BridgePairs}
BridgeSrc   == [o \in BridgeOMS |-> o[1]]
BridgeDst   == [o \in BridgeOMS |-> o[2]]
BridgeRoadm == [n \in BridgeNodes |-> <<"roadm", n>>]
BridgeAssets == {BridgeRoadm[n] : n \in BridgeNodes}
BridgeElements == [o \in BridgeOMS |-> {BridgeRoadm[o[1]]}]
BridgeIndex == [n \in BridgeNodes |->
  CASE n = "A" -> 1 [] n = "B" -> 2 [] n = "C" -> 3 [] n = "E" -> 4 [] OTHER -> 5]
BridgeRank == [x \in BridgeOMS \cup BridgeAssets |->
  IF x \in BridgeAssets THEN BridgeIndex[x[2]]
  ELSE 10 * BridgeIndex[x[1]] + BridgeIndex[x[2]]]
BridgeSites == [r \in {"rA", "rB", "rC", "rX"} |->
  CASE r = "rA" -> "A" [] r = "rB" -> "B" [] r = "rC" -> "C" [] OTHER -> "X"]

BridgeStarts ==
  {Recompute(AddService(
    AddIPLink(AddIPLink(AddIPLink(AddIPLink(
      AddLightpath(AddLightpath(AddLightpath(AddLightpath(EmptyModel,
        l1, Lp(<< <<"A", "E">>, <<"E", "C">>, <<"C", "B">> >>, m1, 0)),
        l2, Lp(<< <<"A", "C">> >>, m1, 0)), l3, Lp(<< <<"X", "C">> >>, m1, 0)),
        l4, Lp(<< <<"X", "B">> >>, m1, 0)),
      k1, Lk("rA", "rB", l1)), k2, Lk("rA", "rC", l2)),
      k3, Lk("rX", "rC", l3)), k4, Lk("rX", "rB", l4)),
    s1, Svc("rA", "rB", <<k1>>, <<k2, k3, k4>>)), FALSE)}

None == {}
===============================================================================
