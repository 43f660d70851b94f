---------------------------- MODULE MCNetworkModel ----------------------------
(***************************************************************************)
(* A three-site ring fragment for NetworkModel.  Sites A, B and C; paired  *)
(* sections A-B and B-C with separate amplifier chains per direction, and  *)
(* a section C->A with no opposite section, whose backward propagation     *)
(* raises.  Site A is a bare transceiver: it has no ROADM.                  *)
(***************************************************************************)
EXTENDS StateFile, TLC

CONSTANTS l1, l2, l3, k1, k2, s1, m1, m2

MCNodes  == {"A", "B", "C"}
MCOMS    == {"ab", "ba", "bc", "cb", "ca"}
MCAssets == {"amp_ab", "amp_ba", "fib_bc", "roadm_B", "roadm_C"}

MCSrc == [o \in MCOMS |-> CASE o = "ab" -> "A" [] o \in {"ba", "bc"} -> "B"
                            [] o \in {"cb", "ca"} -> "C"]
MCDst == [o \in MCOMS |-> CASE o \in {"ab", "cb"} -> "B" [] o \in {"ba", "ca"} -> "A"
                            [] o = "bc" -> "C"]
MCRoadm == [n \in {"B", "C"} |-> IF n = "B" THEN "roadm_B" ELSE "roadm_C"]
MCElements ==
  [o \in MCOMS |-> CASE o = "ab" -> {"amp_ab"}
                     [] o = "ba" -> {"roadm_B", "amp_ba"}
                     [] o = "bc" -> {"roadm_B", "fib_bc"}
                     [] OTHER    -> {"roadm_C"}]
MCRank == [x \in MCOMS \cup MCAssets |->
  CASE x = "amp_ab" -> 0 [] x = "amp_ba" -> 1 [] x = "fib_bc" -> 2
    [] x = "roadm_B" -> 4 [] x = "roadm_C" -> 5
    [] x = "ab" -> 6 [] x = "ba" -> 7 [] x = "bc" -> 8 [] x = "cb" -> 9 [] x = "ca" -> 10]

Lp(seq, mode, slot) == [oms |-> seq, mode |-> mode, slot |-> slot]

\* Optical histories: one- and two-section paths that meet on ab and on bc, a
\* path that cannot be propagated backward and an off-grid carrier.
OpticalSpecs == {Lp(<<"ab">>, m1, 0), Lp(<<"ab", "bc">>, m1, 1), Lp(<<"bc">>, m1, 0),
                 Lp(<<"ca">>, m1, 0), Lp(<<"cb">>, m1, 2)}
OpticalFailSets == {{"amp_ab"}, {"amp_ab", "roadm_C"}}

\* IP histories: single-section lightpaths under two links.  An id always
\* names a link between the same two routers, over either lightpath.
IPSpecs == {Lp(<<"ab">>, m1, 0), Lp(<<"bc">>, m1, 0)}
IPLinks ==
  {[id |-> k1, link |-> [a |-> "rA", z |-> "rB", lightpath |-> l]] : l \in {l1, l2}}
    \cup {[id |-> k2, link |-> [a |-> "rC", z |-> "rB", lightpath |-> l2]]}
IPServices ==
  {[src |-> "rA", dst |-> "rC", working |-> <<>>, protection |-> <<>>],
   [src |-> "rA", dst |-> "rC", working |-> <<k1, k2>>, protection |-> <<>>]}
IPPaths == {<<k1>>, <<k1, k2>>, <<k2, k1>>}
IPPlans ==
  {Teardown(l1), SetMode(l2, m2), SetMode(l1, "no_such_mode"),
   Reroute(s1, <<k1, k2>>, "working"), Reroute(s1, <<k1, k2>>, "protection"),
   Reroute(s1, <<k1, k2>>, "backup"),
   ProvisionUnbound(l1, Lp(<<"ab">>, m1, 0)),
   Provision(l1, Lp(<<"ab">>, m1, 0), k1, "rA", "rB"),
   Provision(l2, Lp(<<"bc">>, m1, 0), k2, "rC", "rB")}

\* A plan whose IP link names a router the model does not have.
UnknownRouterPlans == {Provision(l1, Lp(<<"ab">>, m1, 0), k1, "rA", "r_unknown")}

\* A section of the links fails: its sentinel goes to the file, the failure does not.
IPFailSets == {{"amp_ab"}}

\* The ids in use, in their order in a state file.
MCIdOrder == SelectSeq(<<l1, l2, l3>>, LAMBDA id : id \in LightpathIds)

OpticalSymmetry == Permutations(LightpathIds)

None == {}
===============================================================================
