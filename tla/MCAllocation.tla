----------------------------- MODULE MCAllocation -----------------------------
(***************************************************************************)
(* A ring of four sites for Allocation, routers at all but D, and a spur   *)
(* from A to E that has no section back, so probing a route to E raises.   *)
(***************************************************************************)
EXTENDS Allocation

CONSTANTS A, B, C, D, E

Ring == {<<A, B>>, <<B, C>>, <<C, D>>, <<D, A>>}
MCNodes == {A, B, C, D, E}
MCOMS == Ring \cup {<<p[2], p[1]>> : p \in Ring} \cup {<<A, E>>}
MCSrc == [o \in MCOMS |-> o[1]]
MCDst == [o \in MCOMS |-> o[2]]
MCRoadm == [n \in MCNodes |-> <<"roadm", n>>]
MCAssets == {MCRoadm[n] : n \in MCNodes}
MCElements == [o \in MCOMS |-> {MCRoadm[o[1]]}]
MCNodeRank == [n \in MCNodes |->
  CASE n = A -> 1 [] n = B -> 2 [] n = C -> 3 [] n = D -> 4 [] OTHER -> 5]
MCRank == [x \in MCOMS \cup MCAssets |->
  IF x \in MCAssets THEN MCNodeRank[x[2]] ELSE 10 * MCNodeRank[x[1]] + MCNodeRank[x[2]]]
MCLengthKm == [o \in MCOMS |-> 1]
MCRouterAt == [n \in MCNodes \ {D} |-> <<"router", n>>]
MCRouters == {MCRouterAt[n] : n \in DOMAIN MCRouterAt}

\* One unit of noise per section, two between C and D, one per channel; a
\* composition misses one unit per section after the first.
Noise(o) == IF {o[1], o[2]} = {C, D} THEN 2 ELSE 1
MCGsnr(seq, slot, comb) ==
  7 - FoldLeft(LAMBDA sum, o : sum + Noise(o), 0, seq) - Cardinality(comb)
MCComposed(seq, slot) == MCGsnr(seq, slot, Slots) + Len(seq) - 1
MCRequired == [m \in {"slow", "fast"} |-> IF m = "slow" THEN 1 ELSE 3]
MCBitrate  == [m \in {"slow", "fast"} |-> IF m = "slow" THEN 2 ELSE 4]
MCMarginOk(q) == q.margin >= 0

\* Service 0 is there from the start; the others are demands.
Ids == 0 .. 8
MCDemand == [s \in Ids |-> CASE s \in {3, 8} -> 1 [] s = 4 -> 3 [] OTHER -> 2]
DemandOf(id, src, dst, protected, basis, level, bestEffort) ==
  [id |-> id, src |-> src, dst |-> dst, protected |-> protected, basis |-> basis,
   level |-> level, bestEffort |-> bestEffort]
Plain(id, src, dst) == DemandOf(id, src, dst, FALSE, "physical", "link", FALSE)

Asked ==
  {Plain(1, A, C), Plain(3, A, B), Plain(4, C, A),
   Plain(5, A, D), Plain(6, A, E), Plain(8, B, A),
   DemandOf(2, A, C, TRUE, "physical", "link", FALSE),
   DemandOf(7, A, B, TRUE, "physical", "node", FALSE),
   Plain(0, B, C)}
\* Three demands in turn: one that lights something first, one that may groom last.
Openers == {d \in Asked : d.id \in {0, 1, 2, 4, 7}}
Closers == {d \in Asked : d.id \in {1, 3, 5, 6, 8}}
MCPackLists ==
  {l \in Openers \X Asked \X Closers : Cardinality({l[i].id : i \in 1 .. 3}) = 3}

\* Protected by shared-risk groups alone, of which there are none, and by the
\* least overlap of sections.
SharingLists ==
  {<<DemandOf(2, A, C, TRUE, "srlg", "link", FALSE)>>,
   <<DemandOf(2, A, C, TRUE, "physical", "link", TRUE)>>}

NoGroups == EmptyMap
MCSpare == [n \in MCNodes |-> IF n = B THEN 3 ELSE 4]

Id(i) == [prefix |-> "base", service |-> 0, i |-> i, n |-> 1]
Light(m, id, seq, mode, slot, margin) ==
  [AddLightpath(m, id, [oms |-> seq, mode |-> mode, slot |-> slot]) EXCEPT
     !.qot = Put(m.qot, id, [kind |-> "measured", gsnr |-> 0, margin |-> margin])]
Bind(m, k, a, z, id) ==
  AddIPLink(m, k, [a |-> MCRouterAt[a], z |-> MCRouterAt[z], lightpath |-> id])

\* A lightpath from A to B with a link and half of it used, one on C-D-A with
\* no link, and one that an earlier solve left behind under its own id.
Left == Template("cand", 1, 1)
Survivors ==
  AddService(
    Bind(Light(Light(EmptyModel, Id(1), << <<A, B>> >>, "fast", 0, 1),
               Id(2), << <<C, D>>, <<D, A>> >>, "slow", 0, 0),
         Id(1), A, B, Id(1)),
    0, [src |-> MCRouterAt[A], dst |-> MCRouterAt[B], working |-> <<Id(1)>>, protection |-> <<>>])
Leftover ==
  Bind(Light(EmptyModel, Left, << <<B, C>> >>, "slow", 1, 0), Left, B, C, Left)
\* Nothing is free between D and C: every route from A to C crosses B.
Crowded ==
  Light(Light(EmptyModel, Id(1), << <<D, C>> >>, "slow", 0, 0), Id(2), << <<D, C>> >>, "slow", 1, 0)
CrowdedModels == {Crowded}

MCPackModels == {EmptyModel, Survivors, Leftover}

\* Nothing, the ROADM of a site that services pass and end at, or a group.
MCRiskGroups == [g \in {"r"} |-> {<<B, C>>, MCRoadm[D]}]
MCAvoids ==
  {[assets |-> {}, srlgs |-> {}, riskGroups |-> {}],
   [assets |-> {MCRoadm[B]}, srlgs |-> {}, riskGroups |-> {}],
   [assets |-> {}, srlgs |-> {}, riskGroups |-> {"r"}]}

MCLightpathIds ==
  [prefix : {"base", "cand", "prot", "score-cand"}, service : Ids, i : 1 .. 3, n : 1 .. 3]
===============================================================================
