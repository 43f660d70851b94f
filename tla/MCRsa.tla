-------------------------------- MODULE MCRsa --------------------------------
(***************************************************************************)
(* Five sites for Rsa.  A reaches D over C, over E, and over B by two      *)
(* parallel sections per hop whose order by length does not follow their   *)
(* conduits; B has no sections back, so probing a route over it raises.    *)
(***************************************************************************)
EXTENDS Rsa

CONSTANTS l1, l2, l3, k1, s1

MCNodes == {"A", "B", "C", "D", "E"}
TwoWay == [o \in {"ac", "cd", "ae", "ed", "ca", "dc", "ea", "de"} |->
  CASE o = "ac" -> <<"A", "C">> [] o = "ca" -> <<"C", "A">>
    [] o = "cd" -> <<"C", "D">> [] o = "dc" -> <<"D", "C">>
    [] o = "ae" -> <<"A", "E">> [] o = "ea" -> <<"E", "A">>
    [] o = "ed" -> <<"E", "D">> [] o = "de" -> <<"D", "E">>]
OneWay == [o \in {"ab1", "ab2", "bd1", "bd2"} |->
  IF o \in {"ab1", "ab2"} THEN <<"A", "B">> ELSE <<"B", "D">>]
EndsOf == TwoWay @@ OneWay

MCOMS == DOMAIN EndsOf
MCSrc == [o \in MCOMS |-> EndsOf[o][1]]
MCDst == [o \in MCOMS |-> EndsOf[o][2]]
MCRoadm == ("B" :> "roadm_B") @@ ("C" :> "roadm_C") @@ ("E" :> "roadm_E") @@ ("D" :> "roadm_D")
MCAssets == {"roadm_B", "roadm_C", "roadm_D", "roadm_E", "amp_ac", "amp_ed", "duct_D", "fib_1", "fib_2", "fib_3", "fib_4"}
MCElements == [o \in MCOMS |->
  {MCRoadm[n] : n \in {MCSrc[o]} \cap DOMAIN MCRoadm} \cup
  CASE o = "ac" -> {"amp_ac"} [] o = "ed" -> {"amp_ed"}
    [] o \in {"dc", "de"} -> {"duct_D"}
    [] o = "ab1" -> {"fib_1"} [] o = "ab2" -> {"fib_2"}
    [] o = "bd1" -> {"fib_3"} [] o = "bd2" -> {"fib_4"} [] OTHER -> {}]
Order == <<"ab1", "ab2", "bd1", "bd2", "ac", "ae", "ca", "cd", "dc", "de", "ea", "ed",
           "roadm_B", "roadm_C", "roadm_D", "roadm_E", "amp_ac", "amp_ed", "duct_D", "fib_1", "fib_2", "fib_3", "fib_4">>
MCRank == [x \in MCOMS \cup MCAssets |-> CHOOSE i \in DOMAIN Order : Order[i] = x]
MCNodeRank == [n \in MCNodes |->
  CASE n = "A" -> 1 [] n = "B" -> 2 [] n = "C" -> 3 [] n = "D" -> 4 [] n = "E" -> 5]
MCLengthKm == [o \in MCOMS |-> CASE o \in {"ac", "ca", "cd", "dc"} -> 1
                                 [] o \in {"ab1", "bd1"} -> 4 [] o \in {"ab2", "bd2"} -> 5
                                 [] OTHER -> 2]

\* The first section of each hop shares a conduit with the other hop's second.
MCSrlgs == ("s_odd" :> {"fib_1", "fib_4"}) @@ ("s_even" :> {"fib_2", "fib_3"})
             @@ ("s_ce" :> {"amp_ac", "amp_ed"})
MCRiskGroups == ("r_south" :> {"roadm_E", "fib_1"})

MCBitrate == [m \in {"slow", "mid", "fast"} |-> CASE m = "slow" -> 1 [] m = "mid" -> 2 [] m = "fast" -> 3]
MCRequired == [m \in {"slow", "mid", "fast"} |-> MCBitrate[m]]

\* Two units of noise per section and per channel; composing misses one.
MCGsnr(seq, slot, comb) == 10 - 2 * Len(seq) - 2 * Cardinality(comb)
MCComposed(seq, slot) == MCGsnr(seq, slot, Slots) + (IF Len(seq) > 1 THEN 1 ELSE 0)

AnyMargin(q) == TRUE
NoDemand == [s \in {s1} |-> 0]

Clear == [assets |-> {}, srlgs |-> {}, riskGroups |-> {}]
DemandOf(id, src, dst, rate, protected, basis, level, bestEffort, avoid) ==
  [id |-> id, src |-> src, dst |-> dst, rate |-> rate, protected |-> protected,
   basis |-> basis, level |-> level, bestEffort |-> bestEffort, avoid |-> avoid]
Plain(id, src, dst, rate, avoid) ==
  DemandOf(id, src, dst, rate, FALSE, "physical", "link", FALSE, avoid)

Asked ==
  {Plain(1, "A", "D", NoRate, Clear),
   Plain(2, "A", "D", 2, [Clear EXCEPT !.assets = {"roadm_E"}]),
   Plain(3, "D", "A", 2, [Clear EXCEPT !.assets = {"E"}]),
   Plain(4, "C", "E", NoRate, Clear),
   DemandOf(5, "A", "D", NoRate, TRUE, "physical", "link", FALSE, Clear),
   DemandOf(6, "D", "A", NoRate, TRUE, "physical", "node", FALSE, Clear),
   DemandOf(7, "A", "D", NoRate, TRUE, "union", "link", TRUE, [Clear EXCEPT !.riskGroups = {"r_south"}]),
   DemandOf(8, "A", "D", NoRate, TRUE, "srlg", "link", FALSE, [Clear EXCEPT !.assets = {"C", "E"}]),
   DemandOf(9, "C", "E", NoRate, TRUE, "union", "node", FALSE, Clear),
   DemandOf(10, "A", "D", 1, TRUE, "risk_group", "link", FALSE, [Clear EXCEPT !.srlgs = {"s_odd"}])}
MCDemandLists == {l \in [1 .. 3 -> Asked] : \A i, j \in 1 .. 3 : i # j => l[i] # l[j]}

Light(m, id, seq, slot) == AddLightpath(m, id, [oms |-> seq, mode |-> "slow", slot |-> slot])
MCModels ==
  {EmptyModel,
   Light(EmptyModel, l1, <<"cd">>, 0),
   Light(Light(Light(EmptyModel, l1, <<"ed">>, 0), l2, <<"ed">>, 1), l3, <<"cd">>, 0),
   MarkFailed(EmptyModel, {"amp_ac", "roadm_B"})}
===============================================================================
