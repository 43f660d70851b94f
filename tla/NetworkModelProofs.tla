-------------------------- MODULE NetworkModelProofs --------------------------
(***************************************************************************)
(* Proofs about NetworkModel for every topology, every set of inputs and   *)
(* every history of calls.                                                 *)
(***************************************************************************)
EXTENDS StateFile, NetworkStateProofs

-------------------------------------------------------------------------------
(* The theorems.                                                           *)

\* The imported topology satisfies the invariant.
LEMMA InitInv == Init => Coherent(model)
BY EmptyModelInv DEF Init

\* The links of n are links of m, as they were.
LinksKept(m, n) ==
  \A k \in DOMAIN n.ipLinks : k \in DOMAIN m.ipLinks /\ n.ipLinks[k] = m.ipLinks[k]

\* Every optical call keeps the model coherent, relights at most one
\* lightpath, and touches the IP layer only by unbinding links.
LEMMA OpticalStepInv ==
  ASSUME Coherent(model), OpticalStep
  PROVE  /\ Coherent(model') /\ Relit(model, model')
         /\ LinksKept(model, model') /\ model'.services = model.services
<1> DEFINE Kept == /\ Coherent(model') /\ Relit(model, model')
                   /\ LinksKept(model, model') /\ model'.services = model.services
<1>1. ASSUME NEW id \in LightpathIds, NEW lp \in LightpathSpecs, AddLightpathStep(id, lp)
      PROVE  Kept
  <2>1. lp \in Lightpath /\ CanAddLightpath(model, id, lp)
    BY <1>1, InputAssumption DEF AddLightpathStep
  <2>2. /\ Coherent(model') /\ Lights(model, model', id)
        /\ model'.ipLinks = model.ipLinks /\ model'.services = model.services
    BY <1>1, <2>1, AddLightpathInv DEF AddLightpathStep
  <2> QED BY <2>2 DEF Relit, LinksKept
<1>2. ASSUME NEW id \in LightpathIds, RemoveLightpathStep(id)
      PROVE  Kept
  <2>1. /\ Coherent(model') /\ (model' = model \/ Darkens(model, model', id))
        /\ LinksKept(model, model') /\ model'.services = model.services
    BY <1>2, RemoveLightpathInv DEF RemoveLightpathStep, LinksKept
  <2>2. Relit(model, model)
    BY Untouched
  <2> QED BY <2>1, <2>2 DEF Relit
<1>3. ASSUME /\ Coherent(model') /\ Steady(model, model')
             /\ model'.ipLinks = model.ipLinks /\ model'.services = model.services
      PROVE  Kept
  BY <1>3 DEF Relit, LinksKept
<1> HIDE DEF Kept
<1>4. ASSUME NEW id \in LightpathIds, NEW mode \in Modes, SetLightpathModeStep(id, mode)
      PROVE  Kept
  BY <1>3, <1>4, SetLightpathModeInv DEF SetLightpathModeStep
<1>5. ASSUME NEW a \in Impairable, NEW l \in Levels, model' = Impair(model, a, l)
      PROVE  Kept
  BY <1>3, <1>5, ImpairInv
<1>6. ASSUME NEW S \in FailSets, MarkFailedStep(S) \/ InjectFailureStep(S)
      PROVE  Kept
  BY <1>3, <1>6, MarkFailedInv, InjectFailureInv, InputAssumption
     DEF MarkFailedStep, InjectFailureStep
<1>7. ASSUME NEW S \in FailSets \cup {{}}, ClearFailedStep(S)
      PROVE  Kept
  BY <1>3, <1>7, ClearFailedInv DEF ClearFailedStep
<1>8. ASSUME SettleStep \/ RecomputeIfPossibleStep
      PROVE  Kept
  BY <1>3, <1>8, RecomputeInv DEF SettleStep, RecomputeIfPossibleStep
<1>9. ASSUME NEW a \in Impairable, NEW nf \in BOOLEAN, NEW d \in BOOLEAN,
             NEW l \in Levels, InjectDegradation(a, nf, d, l)
      PROVE  Kept
  <2> DEFINE nfApplied   == IF nf THEN Impair(model, a, l) ELSE model
             bothApplied == IF d THEN Impair(nfApplied, a, l) ELSE nfApplied
             Cleared(n)  == /\ Coherent(n) /\ Steady(model, n)
                            /\ n.ipLinks = model.ipLinks /\ n.services = model.services
  <2>1. nf \/ d
    BY <1>9 DEF InjectDegradation
  <2>2. Cleared(nfApplied) /\ (nf => DOMAIN nfApplied.qot = {})
    BY ImpairInv DEF Steady
  <2>3. model' = nfApplied \/ model' = Recompute(bothApplied, FALSE)
    BY <1>9 DEF InjectDegradation
  <2> HIDE DEF nfApplied
  <2>4. Coherent(Impair(nfApplied, a, l)) /\ Steady(nfApplied, Impair(nfApplied, a, l))
        /\ Impair(nfApplied, a, l).ipLinks = nfApplied.ipLinks
        /\ Impair(nfApplied, a, l).services = nfApplied.services
        /\ DOMAIN Impair(nfApplied, a, l).qot = {}
    BY <2>2, ImpairInv
  <2>5. Cleared(bothApplied) /\ DOMAIN bothApplied.qot = {}
    <3>1. CASE d
      BY <2>2, <2>4, <3>1 DEF Steady
    <3>2. CASE ~ d
      BY <2>1, <2>2, <3>2
    <3> QED BY <3>1, <3>2
  <2> HIDE DEF bothApplied
  <2>6. CASE model' = Recompute(bothApplied, FALSE)
    <3>1. /\ Coherent(model') /\ Steady(bothApplied, model')
          /\ model'.ipLinks = bothApplied.ipLinks /\ model'.services = bothApplied.services
      BY <2>5, <2>6, RecomputeInv
    <3>2. Steady(model, model')
      BY <2>5, <3>1 DEF Steady, IsMeasured
    <3> QED BY <1>3, <2>5, <3>1, <3>2
  <2> QED BY <1>3, <2>2, <2>3, <2>6
<1>10. Kept
  BY <1>1, <1>2, <1>4, <1>5, <1>6, <1>7, <1>8, <1>9
     DEF OpticalStep, ApplyNfDelta, ApplyLossDelta, Impairable
<1> QED BY <1>10 DEF Kept

\* Every IP-layer call and plan operation keeps the model coherent and relights
\* at most one lightpath.
LEMMA IPStepInv ==
  ASSUME Coherent(model), IPStep
  PROVE  Coherent(model') /\ Relit(model, model')
<1>0. ASSUME Coherent(model'), SameOptics(model, model')
      PROVE  Coherent(model') /\ Relit(model, model')
  BY <1>0, SameOpticsSteady DEF Relit
<1>1. ASSUME NEW s \in LinkSpecs, AddIPLinkStep(s.id, s.link)
      PROVE  Coherent(model') /\ Relit(model, model')
  <2>1. s.id \in LinkIds /\ s.link \in IPLink
    BY InputAssumption
  <2> QED BY <1>0, <1>1, <2>1, AddIPLinkInv DEF AddIPLinkStep
<1>2. ASSUME NEW id \in LinkIds, RemoveIPLinkStep(id)
      PROVE  Coherent(model') /\ Relit(model, model')
  BY <1>0, <1>2, RemoveIPLinkInv DEF RemoveIPLinkStep
<1>3. ASSUME NEW id \in ServiceIds, NEW s \in ServiceSpecs, AddServiceStep(id, s)
      PROVE  Coherent(model') /\ Relit(model, model')
  BY <1>0, <1>3, AddServiceInv, InputAssumption DEF AddServiceStep
<1>4. ASSUME NEW id \in ServiceIds, NEW path \in Paths,
             SetWorkingPathStep(id, path) \/ SetProtectionPathStep(id, path)
      PROVE  Coherent(model') /\ Relit(model, model')
  BY <1>0, <1>4, SetPathInv, InputAssumption DEF SetWorkingPathStep, SetProtectionPathStep
<1>5. ASSUME NEW op \in PlanInputs, ApplyOpStep(op)
      PROVE  Coherent(model') /\ Relit(model, model')
  BY <1>5, ApplyOpInv, InputAssumption DEF ApplyOpStep
<1> QED BY <1>1, <1>2, <1>3, <1>4, <1>5 DEF IPStep

\* Every step keeps the model coherent and relights at most one lightpath.
LEMMA StepInv == Coherent(model) /\ [Next]_vars => Coherent(model') /\ Relit(model, model')
<1>1. Coherent(model) /\ UNCHANGED vars => Coherent(model') /\ Relit(model, model')
  BY Untouched DEF vars
<1> QED BY <1>1, OpticalStepInv, IPStepInv DEF Next

\* The inductive invariant of the model holds in every reachable state.
THEOREM InductiveInvariant == Spec => []Coherent(model)
<1>1. Coherent(model) /\ [Next]_vars => Coherent(model)'
  BY StepInv
<1> QED BY InitInv, <1>1, PTL DEF Spec

\* Type correctness: after any history of calls every registry is well-typed
\* and QoT is recorded only for lit lightpaths.
THEOREM TypeCorrectness == Spec => []TypeOK
<1>1. Coherent(model) => TypeOK
  BY DEF Coherent, TypeOK
<1> QED BY <1>1, InductiveInvariant, PTL

\* No history of calls leaves an IP link riding a lightpath that is gone.
THEOREM LinksStayBound == Spec => []LinksBound
<1>1. Coherent(model) => LinksBound
  BY DEF Coherent, LinksRideLit, LinksBound
<1> QED BY <1>1, InductiveInvariant, PTL

\* No history of calls leaves a measured QoT that propagating now would not
\* return, in any topology and for any set of lightpaths.
THEOREM QotStaysFresh == Spec => []QotFresh
<1>1. Coherent(model) => QotFresh
  BY DEF Coherent, QotInv, FreshQot, QotFresh
<1> QED BY <1>1, InductiveInvariant, PTL

\* A failure sentinel outlives no failure: what it marks down is still cut.
THEOREM SentinelsStayJustified == Spec => []SentinelJustified
<1>1. Coherent(model) => SentinelJustified
  BY DEF Coherent, QotInv, Justified, SentinelJustified
<1> QED BY <1>1, InductiveInvariant, PTL

\* From every reachable model the incremental recompute of a validation gate
\* leaves exactly the QoT of a full one.
THEOREM IncrementalRecomputeIsFull == Spec => []OnlyMissingIsEnough
<1>1. Coherent(model) => OnlyMissingIsEnough
  BY OnlyMissingLemma DEF OnlyMissingIsEnough
<1> QED BY <1>1, InductiveInvariant, PTL

\* No step records a measurement for a lightpath that crosses a failed asset:
\* no recompute and no clear_failed brings a cut path back.
THEOREM CutPathsStayDown == Spec => NeverResurrected
<1>1. Coherent(model) /\ [Next]_vars =>
        [\A id \in DOMAIN model'.qot :
           IsMeasured(model', id) /\ ~ IsMeasured(model, id)
             => Crossed(model', id, model'.failed) = {}]_vars
  <2> SUFFICES ASSUME Coherent(model), [Next]_vars, NEW id \in DOMAIN model'.qot,
                      IsMeasured(model', id), ~ IsMeasured(model, id)
               PROVE  Crossed(model', id, model'.failed) = {}
    OBVIOUS
  <2>1. Relit(model, model')
    BY StepInv
  <2> QED BY <2>1 DEF Relit, Steady, Lights, Darkens, IsMeasured
<1> QED BY <1>1, InductiveInvariant, PTL DEF Spec, NeverResurrected

\* Adding or removing lightpaths leaves the record of one that shares no
\* section with them alone, also when a plan operation does it.
THEOREM BystandersKeepTheirQot == Spec => BystandersUntouched
<1>1. Coherent(model) /\ [Next]_vars =>
        [\A id \in DOMAIN model.qot :
           Bystander(id) => /\ id \in DOMAIN model'.qot
                            /\ model'.qot[id] = model.qot[id]]_vars
  <2> SUFFICES ASSUME Coherent(model), [Next]_vars, NEW id \in DOMAIN model.qot, Bystander(id)
               PROVE  id \in DOMAIN model'.qot /\ model'.qot[id] = model.qot[id]
    OBVIOUS
  <2>1. PICK j : Lights(model, model', j) \/ Darkens(model, model', j)
    BY StepInv DEF Relit, Steady, Bystander
  <2>2. CASE Lights(model, model', j)
    <3>1. Range(model'.lightpaths[j].oms) \cap OmsOf(model, id) = {}
      BY <2>2 DEF Bystander, Lights, OmsOf
    <3> QED BY <2>2, <3>1 DEF Lights, Sharing
  <2>3. CASE Darkens(model, model', j)
    <3>1. id # j /\ Range(model.lightpaths[j].oms) \cap OmsOf(model, id) = {}
      BY <2>3 DEF Bystander, Darkens, OmsOf
    <3> QED BY <2>3, <3>1 DEF Darkens, Sharing
  <2> QED BY <2>1, <2>2, <2>3
<1> QED BY <1>1, InductiveInvariant, PTL DEF Spec, BystandersUntouched

-------------------------------------------------------------------------------
(* A recompute that does not raise.                                        *)

\* Every lit lightpath is a walk over its sections.
Walks(m) == \A id \in Lit(m) : Chained(m.lightpaths[id].oms)

\* add_lightpath is the only way in, and it checks.
THEOREM LightpathsAreWalks == Spec => []Walks(model)
<1>1. Init => Walks(model)
  BY DEF Init, EmptyModel, Walks, Lit, EmptyMap
<1>2. Coherent(model) /\ Walks(model) /\ [Next]_vars => Walks(model)'
  BY StepInv DEF Walks, Relit, Steady, Lights, Darkens
<1> QED BY <1>1, <1>2, InductiveInvariant, PTL DEF Spec

\* Along a walk the footprint misses none of the sites it visits: every site
\* but the last is the source of a section, whose elements start at its ROADM.
LEMMA FootprintTouches ==
  ASSUME NEW seq \in Seq(OMS), seq # <<>>, Chained(seq)
  PROVE  Touched(seq) = Footprint(seq)
<1>1. /\ Len(seq) \in Nat \ {0} /\ DOMAIN seq = 1 .. Len(seq)
      /\ Range(seq) \subseteq OMS
      /\ \A o \in Range(seq) : \E i \in 1 .. Len(seq) : o = seq[i]
      /\ \A i \in 1 .. Len(seq) : seq[i] \in Range(seq)
  BY DEF Range
<1>2. ASSUME NEW o \in Range(seq), Src[o] \in DOMAIN Roadm
      PROVE  Roadm[Src[o]] \in OmsAssets(seq)
  BY <1>1, <1>2, TopologyAssumption DEF OmsAssets
<1>3. ASSUME NEW o \in Range(seq), Dst[o] \in DOMAIN Roadm
      PROVE  Roadm[Dst[o]] \in Footprint(seq)
  <2>1. PICK i \in 1 .. Len(seq) : o = seq[i]
    BY <1>1
  <2>2. CASE i = Len(seq)
    BY <1>3, <2>1, <2>2 DEF Footprint, TerminalRoadm
  <2>3. CASE i # Len(seq)
    <3>1. i \in 1 .. Len(seq) - 1 /\ i + 1 \in 1 .. Len(seq)
      <4>1. Len(seq) \in Nat /\ i \in 1 .. Len(seq) /\ i # Len(seq)
        BY <1>1, <2>1, <2>3
      <4> QED BY <4>1, SMT
    <3>2. Dst[o] = Src[seq[i + 1]] /\ seq[i + 1] \in Range(seq)
      BY <1>1, <2>1, <3>1 DEF Chained
    <3> QED BY <1>2, <1>3, <3>2 DEF Footprint
  <2> QED BY <2>2, <2>3
<1>4. Touched(seq) \subseteq Footprint(seq)
  BY <1>2, <1>3 DEF Touched, Sites, Footprint
<1>5. TerminalRoadm(seq) \subseteq Touched(seq)
  <2>1. Dst[seq[Len(seq)]] \in Sites(seq)
    BY <1>1 DEF Sites
  <2> QED BY <2>1 DEF TerminalRoadm, Touched
<1> QED BY <1>4, <1>5 DEF Touched, Footprint

\* A recompute that does not raise leaves every lightpath with a record, and a
\* sentinel exactly where something on its path, drop ROADM included, is down.
THEOREM RecomputesSettle == Spec => []RecomputeSettles
<1>1. ASSUME Coherent(model), Walks(model), ~ RecomputeRaises(model, TRUE)
      PROVE  LET settled == Recompute(model, TRUE) IN
             \A id \in Lit(model) :
               /\ id \in DOMAIN settled.qot
               /\ IsSentinel(settled, id)
                    <=> Touched(model.lightpaths[id].oms) \cap model.failed # {}
  <2> DEFINE settled == Recompute(model, TRUE)
  <2> SUFFICES ASSUME NEW id \in Lit(model)
               PROVE  /\ id \in DOMAIN settled.qot
                      /\ IsSentinel(settled, id)
                           <=> Touched(model.lightpaths[id].oms) \cap model.failed # {}
    OBVIOUS
  <2>1. settled.qot = Derived(model, TRUE)
    BY <1>1, RecomputeQot
  <2> HIDE DEF settled
  <2>2. id \in Reached(model, TRUE)
    BY <1>1 DEF RecomputeRaises, Reached
  <2>3. /\ id \in DOMAIN settled.qot
        /\ settled.qot[id] = IF Crossed(model, id, model.failed) # {}
                             THEN Sentinel(Crossed(model, id, model.failed))
                             ELSE IF id \in DOMAIN model.qot THEN model.qot[id]
                             ELSE Propagate(model, id)
    BY <2>1, <2>2 DEF Derived
  <2>4. IsSentinel(settled, id) <=> Crossed(model, id, model.failed) # {}
    <3>1. CASE Crossed(model, id, model.failed) # {}
      BY <2>3, <3>1 DEF IsSentinel, Sentinel
    <3>2. CASE Crossed(model, id, model.failed) = {} /\ id \in DOMAIN model.qot
      BY <1>1, <2>3, <3>2 DEF Coherent, QotInv, Justified, IsSentinel
    <3>3. CASE Crossed(model, id, model.failed) = {} /\ id \notin DOMAIN model.qot
      BY <2>3, <3>3 DEF IsSentinel, Propagate
    <3> QED BY <3>1, <3>2, <3>3
  <2>5. Touched(model.lightpaths[id].oms) = Footprint(model.lightpaths[id].oms)
    <3>1. model.lightpaths[id] \in Lightpath
      BY <1>1 DEF Coherent, IsModel, IsMap, Lit
    <3>2. /\ model.lightpaths[id].oms \in Seq(OMS) /\ model.lightpaths[id].oms # <<>>
          /\ Chained(model.lightpaths[id].oms)
      BY <1>1, <3>1 DEF Lightpath, Walks
    <3> QED BY <3>2, FootprintTouches
  <2> QED BY <2>3, <2>4, <2>5 DEF Crossed
<1>2. Coherent(model) /\ Walks(model) => RecomputeSettles
  BY <1>1 DEF RecomputeSettles
<1> QED BY <1>2, InductiveInvariant, LightpathsAreWalks, PTL

-------------------------------------------------------------------------------
(* A plan operation that raises.                                           *)

\* Every link that callers' plans bind ends at routers of the model.
PlansNameRouters ==
  \A op \in PlanInputs : op.op = "provision" => op.a \in Routers /\ op.z \in Routers

\* As long as plans name routers, an operation that raises leaves the model as
\* it was: the pre-checks of apply_op see everything add_ip_link could refuse.
THEOREM FailedOpsAreAtomic ==
  ASSUME PlansNameRouters
  PROVE  Spec => FailedOpLeavesModelUnchanged
<1>1. ASSUME Coherent(model), NEW op \in PlanInputs,
             ~ ApplyOp(model, op).ok
      PROVE  ApplyOp(model, op).model = model
  <2>1. CASE /\ op.op = "provision"
             /\ op.id \in LightpathIds /\ op.lp \in Lightpath
             /\ op.linkId \in LinkIds \cup {NoLink}
    <3> DEFINE added == AddLightpath(model, op.id, op.lp)
               link  == BoundLink(op)
    <3>1. ApplyOp(model, op) =
            IF LinkIdTaken(model, op) \/ ~ CanAddLightpath(model, op.id, op.lp)
            THEN PlanError(model)
            ELSE IF op.linkId = NoLink THEN Applied(added)
            ELSE IF CanAddIPLink(added, op.linkId, link)
            THEN Applied(AddIPLink(added, op.linkId, link)) ELSE PlanError(added)
      BY <2>1 DEF ApplyOp, ApplyProvision
    <3>2. ASSUME CanAddLightpath(model, op.id, op.lp)
          PROVE  op.id \in Lit(added) /\ added.ipLinks = model.ipLinks
      BY <1>1, <2>1, <3>2, AddLightpathInv DEF Lights
    <3>3. link.a \in Routers /\ link.z \in Routers /\ link.lightpath = op.id
      BY <1>1, <2>1 DEF PlansNameRouters, BoundLink
    <3> HIDE DEF added, link
    <3>4. ASSUME CanAddLightpath(model, op.id, op.lp), ~ LinkIdTaken(model, op),
                 op.linkId # NoLink
          PROVE  CanAddIPLink(added, op.linkId, link)
      BY <3>2, <3>3, <3>4 DEF CanAddIPLink, LinkIdTaken
    <3> QED BY <1>1, <3>1, <3>4 DEF PlanError, Applied
  <2>2. CASE op.op = "teardown"
    BY <1>1, <2>2 DEF ApplyOp, ApplyTeardown, PlanError, Applied
  <2>3. CASE op.op = "reroute"
    BY <1>1, <2>3 DEF ApplyOp, ApplyReroute, PlanError, Applied
  <2>4. CASE op.op = "set_mode"
    BY <1>1, <2>4 DEF ApplyOp, ApplySetMode, PlanError, Applied
  <2> QED BY <2>1, <2>2, <2>3, <2>4, InputAssumption DEF IsOp
<1>2. Coherent(model) /\ [Next]_vars =>
        [\A op \in PlanInputs :
           ~ ApplyOp(model, op).ok /\ ApplyOpStep(op) => UNCHANGED model]_vars
  BY <1>1 DEF ApplyOpStep
<1> QED BY <1>2, InductiveInvariant, PTL DEF Spec, FailedOpLeavesModelUnchanged

-------------------------------------------------------------------------------
(* Service paths.                                                          *)

\* The ends callers give a link, whenever they add it.
Ends ==
  {<<s.id, {s.link.a, s.link.z}>> : s \in LinkSpecs}
    \cup {<<op.linkId, {op.a, op.z}>> : op \in {o \in PlanInputs : o.op = "provision"}}

\* A link id names one pair of routers: a link that was removed comes back
\* between the same two.  Callers owe this; nothing in the model checks it.
StableEnds == \A e, f \in Ends : e[1] = f[1] => e[2] = f[2]

\* path walks from src to dst over links as callers give them, present or not.
Connects(src, dst, path) ==
  \E walk \in [0 .. Len(path) -> Routers] :
    /\ walk[0] = src /\ walk[Len(path)] = dst
    /\ \A i \in 1 .. Len(path) : <<path[i], {walk[i - 1], walk[i]}>> \in Ends

KnownLinks(m) ==
  \A k \in DOMAIN m.ipLinks : <<k, {m.ipLinks[k].a, m.ipLinks[k].z}>> \in Ends

PathsConnect(s) ==
  \A path \in {s.working, s.protection} \ {<<>>} : Connects(s.src, s.dst, path)

\* Strengthening of ServicePathsContiguous: it says something of paths whose
\* links are partly gone, so it survives their return.
Connected(m) == KnownLinks(m) /\ \A s \in DOMAIN m.services : PathsConnect(m.services[s])

\* Over present links, contiguous and connected are the same.
LEMMA ContiguousConnects ==
  ASSUME NEW m, KnownLinks(m), NEW src, NEW dst, NEW path \in Seq(LinkIds),
         Contiguous(m, src, dst, path)
  PROVE  Connects(src, dst, path)
<1>1. PICK walk \in [0 .. Len(path) -> Routers] :
        /\ walk[0] = src /\ walk[Len(path)] = dst
        /\ \A i \in 1 .. Len(path) :
             {walk[i - 1], walk[i]} = {m.ipLinks[path[i]].a, m.ipLinks[path[i]].z}
  BY DEF Contiguous
<1>2. ASSUME NEW i \in 1 .. Len(path) PROVE path[i] \in DOMAIN m.ipLinks
  <2>1. path[i] \in Range(path)
    BY DEF Range
  <2> QED BY <2>1 DEF Contiguous, AllPresent
<1>3. \A i \in 1 .. Len(path) : <<path[i], {walk[i - 1], walk[i]}>> \in Ends
  BY <1>1, <1>2 DEF KnownLinks
<1> QED BY <1>1, <1>3 DEF Connects

LEMMA ConnectsContiguous ==
  ASSUME StableEnds, NEW m, KnownLinks(m), NEW src, NEW dst, NEW path \in Seq(LinkIds),
         Connects(src, dst, path), AllPresent(m, path)
  PROVE  Contiguous(m, src, dst, path)
<1>1. PICK walk \in [0 .. Len(path) -> Routers] :
        /\ walk[0] = src /\ walk[Len(path)] = dst
        /\ \A i \in 1 .. Len(path) : <<path[i], {walk[i - 1], walk[i]}>> \in Ends
  BY DEF Connects
<1>2. ASSUME NEW i \in 1 .. Len(path)
      PROVE  {walk[i - 1], walk[i]} = {m.ipLinks[path[i]].a, m.ipLinks[path[i]].z}
  <2> DEFINE e == <<path[i], {walk[i - 1], walk[i]}>>
             f == <<path[i], {m.ipLinks[path[i]].a, m.ipLinks[path[i]].z}>>
  <2>1. path[i] \in DOMAIN m.ipLinks
    BY DEF Range, AllPresent
  <2>2. e \in Ends /\ f \in Ends /\ e[1] = f[1]
    BY <1>1, <2>1 DEF KnownLinks
  <2>3. e[2] = f[2]
    BY <2>2 DEF StableEnds
  <2> QED BY <2>3
<1> QED BY <1>1, <1>2 DEF Contiguous

\* Links that were there, or come back with the ends callers give them.
LEMMA KnownLinksKept ==
  ASSUME NEW m, NEW n, KnownLinks(m), LinksKept(m, n)
  PROVE  KnownLinks(n)
BY DEF KnownLinks, LinksKept

LEMMA KnownLinkAdded ==
  ASSUME NEW m, NEW n, KnownLinks(m), NEW id, NEW link,
         <<id, {link.a, link.z}>> \in Ends, n.ipLinks = Put(m.ipLinks, id, link)
  PROVE  KnownLinks(n)
BY DEF KnownLinks, Put

\* The paths a caller may set connect the routers of their service.
LEMMA SetPathConnects ==
  ASSUME NEW m, Coherent(m), Connected(m), NEW id, NEW path \in Seq(LinkIds),
         CanSetPath(m, id, path),
         NEW services \in {WithWorking(m, id, path), WithProtection(m, id, path)}
  PROVE  \A s \in DOMAIN services : PathsConnect(services[s])
<1>1. IsMap(m.services, ServiceIds, Service) /\ id \in DOMAIN m.services
  BY DEF Coherent, IsModel, CanSetPath
<1>2. Connects(m.services[id].src, m.services[id].dst, path)
  BY ContiguousConnects DEF Connected, CanSetPath
<1>3. \A s \in DOMAIN m.services : m.services[s] \in Service /\ PathsConnect(m.services[s])
  BY <1>1 DEF IsMap, Connected
<1>4. /\ DOMAIN services = DOMAIN m.services
      /\ \A s \in DOMAIN m.services \ {id} : services[s] = m.services[s]
      /\ \/ services[id] = [m.services[id] EXCEPT !.working = path]
         \/ services[id] = [m.services[id] EXCEPT !.protection = path]
  BY <1>1 DEF IsMap, WithWorking, WithProtection
<1>5. /\ services[id].src = m.services[id].src /\ services[id].dst = m.services[id].dst
      /\ services[id].working \in {path, m.services[id].working}
      /\ services[id].protection \in {path, m.services[id].protection}
  BY <1>1, <1>3, <1>4 DEF Service
<1>6. PathsConnect(services[id])
  BY <1>1, <1>2, <1>3, <1>5 DEF PathsConnect
<1> QED BY <1>3, <1>4, <1>6

\* Every step keeps the paths connected.
LEMMA StepConnected ==
  ASSUME Coherent(model), Connected(model), [Next]_vars
  PROVE  Connected(model')
<1>1. ASSUME LinksKept(model, model'), model'.services = model.services
      PROVE  Connected(model')
  BY <1>1, KnownLinksKept DEF Connected
<1>2. ASSUME NEW s \in LinkSpecs, AddIPLinkStep(s.id, s.link)
      PROVE  Connected(model')
  <2>1. s.id \in LinkIds /\ s.link \in IPLink
    BY InputAssumption
  <2>2. /\ model'.ipLinks = Put(model.ipLinks, s.id, s.link)
        /\ model'.services = model.services
    BY <1>2, <2>1, AddIPLinkInv DEF AddIPLinkStep
  <2>3. <<s.id, {s.link.a, s.link.z}>> \in Ends
    BY DEF Ends
  <2>4. KnownLinks(model')
    BY <2>2, <2>3, KnownLinkAdded DEF Connected
  <2> QED BY <2>2, <2>4 DEF Connected
<1>3. ASSUME NEW id \in LinkIds, RemoveIPLinkStep(id)
      PROVE  Connected(model')
  <2>1. /\ model'.ipLinks = Drop(model.ipLinks, {id})
        /\ model'.services = model.services
    BY <1>3, RemoveIPLinkInv DEF RemoveIPLinkStep
  <2>2. LinksKept(model, model')
    BY <2>1 DEF LinksKept, Drop, Restrict
  <2> QED BY <1>1, <2>1, <2>2
<1>4. ASSUME NEW id \in ServiceIds, NEW s \in ServiceSpecs, AddServiceStep(id, s)
      PROVE  Connected(model')
  <2>1. s \in Service /\ CanAddService(model, id, s)
    BY <1>4, InputAssumption DEF AddServiceStep
  <2>2. /\ model'.ipLinks = model.ipLinks
        /\ model'.services = Put(model.services, id, s)
    BY <1>4, <2>1, AddServiceInv DEF AddServiceStep
  <2>3. s.working \in Seq(LinkIds) /\ s.protection \in Seq(LinkIds)
    BY <2>1 DEF Service
  <2>4. PathsConnect(s)
    BY <2>1, <2>3, ContiguousConnects DEF PathsConnect, CanAddService, Connected
  <2>5. KnownLinks(model')
    BY <2>2 DEF Connected, KnownLinks
  <2> QED BY <2>2, <2>4, <2>5 DEF Connected, Put
<1>5. ASSUME NEW id \in ServiceIds, NEW path \in Paths,
             SetWorkingPathStep(id, path) \/ SetProtectionPathStep(id, path)
      PROVE  Connected(model')
  <2>1. path \in Seq(LinkIds) /\ CanSetPath(model, id, path)
    BY <1>5, InputAssumption DEF SetWorkingPathStep, SetProtectionPathStep
  <2>2. /\ model'.ipLinks = model.ipLinks
        /\ model'.services \in {WithWorking(model, id, path), WithProtection(model, id, path)}
    BY <1>5, <2>1, SetPathInv DEF SetWorkingPathStep, SetProtectionPathStep
  <2>3. \A s \in DOMAIN model'.services : PathsConnect(model'.services[s])
    BY <2>1, <2>2, SetPathConnects
  <2> QED BY <2>2, <2>3 DEF Connected, KnownLinks
<1>6. ASSUME NEW op \in PlanInputs, ApplyOpStep(op)
      PROVE  Connected(model')
  <2>1. LinksAfter(model, model', op) /\ ServicesAfter(model, model', op)
    BY <1>6, ApplyOpInv, InputAssumption DEF ApplyOpStep
  <2>2. KnownLinks(model')
    <3>1. CASE LinksKept(model, model')
      BY <3>1, KnownLinksKept DEF Connected
    <3>2. CASE /\ op.op = "provision"
               /\ model'.ipLinks = Put(model.ipLinks, op.linkId, BoundLink(op))
      <4>1. <<op.linkId, {BoundLink(op).a, BoundLink(op).z}>> \in Ends
        BY <3>2 DEF Ends, BoundLink
      <4> QED BY <3>2, <4>1, KnownLinkAdded DEF Connected
    <3> QED BY <2>1, <3>1, <3>2 DEF LinksAfter, LinksKept
  <2>3. \A s \in DOMAIN model'.services : PathsConnect(model'.services[s])
    BY <2>1, SetPathConnects DEF ServicesAfter, Connected
  <2> QED BY <2>2, <2>3 DEF Connected
<1>7. CASE OpticalStep
  BY <1>1, <1>7, OpticalStepInv
<1>8. CASE UNCHANGED vars
  BY <1>8 DEF vars
<1> QED BY <1>2, <1>3, <1>4, <1>5, <1>6, <1>7, <1>8 DEF Next, IPStep

\* As long as a link id names one pair of routers, every service path whose
\* links are all present connects the routers of its service, whatever was torn
\* down, unbound and bound again in between.
THEOREM ServicePathsStayContiguous ==
  ASSUME StableEnds
  PROVE  Spec => []ServicePathsContiguous
<1>1. Init => Connected(model)
  BY DEF Init, EmptyModel, EmptyMap, Connected, KnownLinks
<1>2. Coherent(model) /\ Connected(model) /\ [Next]_vars => Connected(model)'
  BY StepConnected
<1>3. ASSUME Coherent(model), Connected(model), NEW s \in DOMAIN model.services,
             NEW path \in {model.services[s].working, model.services[s].protection} \ {<<>>},
             AllPresent(model, path)
      PROVE  Contiguous(model, model.services[s].src, model.services[s].dst, path)
  <2>1. model.services[s] \in Service
    BY <1>3 DEF Coherent, IsModel, IsMap
  <2>2. path \in Seq(LinkIds)
    BY <2>1 DEF Service
  <2>3. Connects(model.services[s].src, model.services[s].dst, path)
    BY <1>3 DEF Connected, PathsConnect
  <2> QED BY <1>3, <2>2, <2>3, ConnectsContiguous DEF Connected
<1>4. Coherent(model) /\ Connected(model) => ServicePathsContiguous
  BY <1>3 DEF ServicePathsContiguous
<1> QED BY <1>1, <1>2, <1>4, InductiveInvariant, PTL DEF Spec

-------------------------------------------------------------------------------
(* The state file.                                                         *)

\* Every lightpath is on the grid of a model that carries one.
OnSlots(m) == GridChecked => \A id \in Lit(m) : m.lightpaths[id].slot \in Slots

\* add_lightpath checks the grid, and no call moves a lightpath to another slot.
LEMMA LightpathsOnSlots == Spec => []OnSlots(model)
<1>1. Init => OnSlots(model)
  BY DEF Init, EmptyModel, OnSlots, Lit, EmptyMap
<1>2. Coherent(model) /\ OnSlots(model) /\ [Next]_vars => OnSlots(model)'
  BY StepInv DEF OnSlots, Relit, Steady, Lights, Darkens
<1> QED BY <1>1, <1>2, InductiveInvariant, PTL DEF Spec

\* A document whose lightpaths add_lightpath would take one by one.
Addable(doc) ==
  /\ IsMap(doc.lightpaths, LightpathIds, Lightpath)
  /\ \A id \in DOMAIN doc.lightpaths :
       /\ Chained(doc.lightpaths[id].oms)
       /\ GridChecked => doc.lightpaths[id].slot \in Slots

\* The lightpaths of doc in ids are lit, and nothing else is in the model.
Holds(acc, doc, ids) ==
  /\ acc = [model |-> acc.model, ok |-> TRUE]
  /\ Coherent(acc.model)
  /\ Lit(acc.model) = ids \cap DOMAIN doc.lightpaths
  /\ \A id \in Lit(acc.model) : acc.model.lightpaths[id] = doc.lightpaths[id]
  /\ DOMAIN acc.model.qot = {}
  /\ acc.model.ipLinks = EmptyMap /\ acc.model.services = EmptyMap

\* One record of the file: add_lightpath takes it and finds no QoT to drop.
LEMMA RecordAdded ==
  ASSUME NEW doc, Addable(doc), NEW acc, NEW ids, Holds(acc, doc, ids),
         NEW id \in LightpathIds, id \notin ids
  PROVE  Holds(AddRecord(acc, id, doc), doc, ids \cup {id})
<1> DEFINE lp == doc.lightpaths[id]
           m  == acc.model
           n  == AddLightpath(m, id, lp)
<1>1. CASE id \notin DOMAIN doc.lightpaths
  <2>1. AddRecord(acc, id, doc) = acc
    BY <1>1 DEF AddRecord
  <2>2. (ids \cup {id}) \cap DOMAIN doc.lightpaths = ids \cap DOMAIN doc.lightpaths
    BY <1>1
  <2> QED BY <2>1, <2>2 DEF Holds
<1>2. CASE id \in DOMAIN doc.lightpaths
  <2>1. lp \in Lightpath
    BY <1>2 DEF Addable, IsMap
  <2>2. CanAddLightpath(m, id, lp)
    <3>1. lp.mode \in Modes /\ Range(lp.oms) \subseteq OMS
      BY <2>1 DEF Lightpath, Range
    <3>2. id \notin Lit(m)
      BY DEF Holds
    <3> QED BY <1>2, <3>1, <3>2 DEF CanAddLightpath, Addable
  <2>3. /\ Coherent(n) /\ Lights(m, n, id)
        /\ n.ipLinks = m.ipLinks /\ n.services = m.services
    BY <2>1, <2>2, AddLightpathInv DEF Holds
  <2>4. n.lightpaths[id] = lp
    <3>1. IsRecord(m) /\ id \notin Lit(m)
      BY <2>2, ModelIsRecord DEF Holds, Coherent, CanAddLightpath
    <3>2. Is(n, Put(m.lightpaths, id, lp), m.before \cup (Lit(m) \X {id}),
             Drop(m.qot, Sharing(m, lp.oms, id)), m.ipLinks, m.services, m.failed, m.impair)
      BY <3>1, AddLightpathIs
    <3> HIDE DEF n
    <3>3. n.lightpaths = Put(m.lightpaths, id, lp)
      BY <3>2, IsFields
    <3> QED BY <3>3 DEF Put
  <2>5. AddRecord(acc, id, doc) = [model |-> n, ok |-> TRUE]
    <3>1. acc.ok = TRUE
      BY DEF Holds
    <3> HIDE DEF n, lp
    <3>2. AddRecord(acc, id, doc) = Guarded(acc, CanAddLightpath(m, id, lp), n)
      BY <1>2 DEF AddRecord, n, lp
    <3> QED BY <2>2, <3>1, <3>2 DEF Guarded
  <2> HIDE DEF n, lp
  <2>6. Lit(n) = (ids \cup {id}) \cap DOMAIN doc.lightpaths
    BY <1>2, <2>3 DEF Lights, Holds
  <2>7. \A j \in Lit(n) : n.lightpaths[j] = doc.lightpaths[j]
    BY <2>3, <2>4 DEF Lights, Holds, lp
  <2>8. DOMAIN n.qot = {} /\ n.ipLinks = EmptyMap /\ n.services = EmptyMap
    BY <2>3 DEF Lights, Holds
  <2> QED BY <2>3, <2>5, <2>6, <2>7, <2>8 DEF Holds
<1> QED BY <1>1, <1>2

\* h is the load after each of the first k ids of the order.
Adding(h, acc, doc, k) ==
  h[0] = acc /\ \A n \in 1 .. k : h[n] = AddRecord(h[n - 1], IdOrder[n], doc)

LEMMA AddingExists ==
  ASSUME NEW acc, NEW doc, NEW n \in Nat
  PROVE  \E h : OnTurns(h, n) /\ Adding(h, acc, doc, n)
<1> DEFINE Some(k) == \E h : OnTurns(h, k) /\ Adding(h, acc, doc, k)
           T == {k \in 0 .. n : Some(k)}
<1>1. 0 \in T
  <2> DEFINE h == [i \in 0 .. 0 |-> acc]
  <2>1. OnTurns(h, 0) /\ h[0] = acc
    BY DEF OnTurns
  <2> HIDE DEF h
  <2>2. Adding(h, acc, doc, 0)
    BY <2>1 DEF Adding
  <2> QED BY <2>1, <2>2
<1>2. ASSUME NEW k \in 1 .. n, k - 1 \in T
      PROVE  k \in T
  <2>1. PICK g : OnTurns(g, k - 1) /\ Adding(g, acc, doc, k - 1)
    BY <1>2
  <2>2. k \in Nat \ {0}
    OBVIOUS
  <2>3. PICK h : Prolongs(h, g, k, AddRecord(g[k - 1], IdOrder[k], doc))
    BY <2>2, Longer
  <2>4. ASSUME NEW i \in 1 .. k
        PROVE  h[i] = AddRecord(h[i - 1], IdOrder[i], doc)
    <3>1. i - 1 \in 0 .. k - 1 /\ (i = k \/ (i \in 0 .. k - 1 /\ i \in 1 .. k - 1))
      OBVIOUS
    <3> QED BY <2>1, <2>3, <3>1 DEF Adding, Prolongs
  <2>5. Adding(h, acc, doc, k)
    <3>1. 0 \in 0 .. k - 1
      OBVIOUS
    <3> QED BY <2>1, <2>3, <2>4, <3>1 DEF Adding, Prolongs
  <2> QED BY <2>3, <2>5 DEF Prolongs
<1> HIDE DEF Some
<1>3. n \in T
  <2> HIDE DEF T
  <2> QED BY <1>1, <1>2, UpTo
<1> QED BY <1>3 DEF Some

\* AddRecords ends such a load.
LEMMA AddRecordsIs ==
  ASSUME NEW acc, NEW doc
  PROVE  \E h : Adding(h, acc, doc, Len(IdOrder)) /\ AddRecords(acc, doc) = h[Len(IdOrder)]
<1> DEFINE n == Len(IdOrder)
           F(f) == [i \in 0 .. n |-> IF i = 0 THEN acc ELSE AddRecord(f[i - 1], IdOrder[i], doc)]
           after == CHOOSE f : f = F(f)
<1>1. AddRecords(acc, doc) = after[n]
  BY DEF AddRecords
<1>2. n \in Nat
  BY IdOrderAssumption
<1>3. PICK h : OnTurns(h, n) /\ Adding(h, acc, doc, n)
  BY <1>2, AddingExists
<1>4. h = F(h)
  <2>1. ASSUME NEW i \in 0 .. n
        PROVE  h[i] = IF i = 0 THEN acc ELSE AddRecord(h[i - 1], IdOrder[i], doc)
    <3>1. i = 0 \/ i \in 1 .. n
      OBVIOUS
    <3> QED BY <1>3, <3>1 DEF Adding
  <2> QED BY <1>3, <2>1, Zenon DEF OnTurns
<1>5. after = F(after)
  BY <1>4
<1> HIDE DEF after
<1>6. \A i \in 0 .. n : after[i] = IF i = 0 THEN acc ELSE AddRecord(after[i - 1], IdOrder[i], doc)
  BY <1>5, Zenon
<1>7. 0 \in 0 .. n /\ \A i \in 1 .. n : i \in 0 .. n /\ i # 0
  BY <1>2
<1>8. Adding(after, acc, doc, n)
  BY <1>6, <1>7, Zenon DEF Adding
<1> QED BY <1>1, <1>8

\* The first pass lights every lightpath of the document.
LEMMA RecordsAdded ==
  ASSUME NEW doc, Addable(doc), NEW acc, Holds(acc, doc, {})
  PROVE  Holds(AddRecords(acc, doc), doc, LightpathIds)
<1> DEFINE n == Len(IdOrder)
           ids(k) == {IdOrder[i] : i \in 1 .. k}
<1>1. n \in Nat /\ DOMAIN IdOrder = 1 .. n /\ \A i \in 1 .. n : IdOrder[i] \in LightpathIds
  BY IdOrderAssumption
<1>2. PICK h : Adding(h, acc, doc, n) /\ AddRecords(acc, doc) = h[n]
  BY AddRecordsIs
<1> DEFINE T == {k \in 0 .. n : Holds(h[k], doc, ids(k))}
<1>3. 0 \in T
  <2>1. ids(0) = {} /\ 0 \in 0 .. n
    BY <1>1
  <2> HIDE DEF ids
  <2> QED BY <1>2, <2>1 DEF Adding
<1>4. ASSUME NEW k \in 1 .. n, k - 1 \in T
      PROVE  k \in T
  <2>1. /\ IdOrder[k] \in LightpathIds
        /\ h[k] = AddRecord(h[k - 1], IdOrder[k], doc)
    BY <1>1, <1>2 DEF Adding
  <2>2. ids(k) = ids(k - 1) \cup {IdOrder[k]}
    <3>1. \A i : i \in 1 .. k <=> (i \in 1 .. k - 1 \/ i = k)
      BY <1>1
    <3> QED BY <3>1
  <2>3. IdOrder[k] \notin ids(k - 1)
    <3>1. \A i \in 1 .. k - 1 : i \in 1 .. n /\ i # k
      BY <1>1
    <3>2. \A i \in 1 .. k - 1 : IdOrder[i] # IdOrder[k]
      BY <3>1, IdOrderAssumption
    <3> QED BY <3>2
  <2>4. Holds(h[k - 1], doc, ids(k - 1))
    BY <1>4
  <2> HIDE DEF ids
  <2>5. Holds(h[k], doc, ids(k))
    BY <2>1, <2>2, <2>3, <2>4, RecordAdded
  <2>6. k \in 0 .. n
    BY <1>1
  <2> QED BY <2>5, <2>6
<1>5. n \in T
  <2>1. n \in 0 .. n
    BY <1>1
  <2> HIDE DEF T, n
  <2> QED BY <1>1, <1>3, <1>4, <2>1, UpTo
<1>6. ids(n) = LightpathIds
  BY <1>1, IdOrderAssumption DEF Range
<1> HIDE DEF ids
<1> QED BY <1>2, <1>5, <1>6

\* Both passes bring back the lightpaths and the records.
LEMMA LightpathsReload ==
  ASSUME NEW m, Coherent(m), Walks(m), OnSlots(m),
         NEW l, l = LoadLightpaths([model |-> EmptyModel, ok |-> TRUE], Dump(m))
  PROVE  /\ l = [model |-> l.model, ok |-> TRUE]
         /\ IsRecord(l.model)
         /\ l.model.lightpaths = m.lightpaths /\ l.model.qot = m.qot
         /\ l.model.ipLinks = EmptyMap /\ l.model.services = EmptyMap
<1> DEFINE acc == [model |-> EmptyModel, ok |-> TRUE]
           doc == Dump(m)
<1>1. /\ doc.lightpaths = m.lightpaths /\ doc.qot = m.qot
      /\ doc.ipLinks = m.ipLinks /\ doc.services = m.services
  BY DEF Dump
<1>2. IsMap(m.lightpaths, LightpathIds, Lightpath) /\ IsMap(m.qot, Lit(m), QoTState)
  BY DEF Coherent, IsModel
<1> HIDE DEF doc
<1>3. Addable(doc)
  BY <1>1, <1>2 DEF Addable, Walks, OnSlots, Lit
<1>4. Holds(acc, doc, {})
  <2>1. acc.model = EmptyModel /\ acc = [model |-> acc.model, ok |-> TRUE]
    OBVIOUS
  <2>2. /\ EmptyModel.lightpaths = EmptyMap /\ EmptyModel.qot = EmptyMap
        /\ EmptyModel.ipLinks = EmptyMap /\ EmptyModel.services = EmptyMap
        /\ DOMAIN EmptyMap = {}
    BY DEF EmptyModel, EmptyMap
  <2> HIDE DEF acc
  <2> QED BY <2>1, <2>2, EmptyModelInv DEF Holds, Lit
<1> DEFINE added == AddRecords(acc, doc)
<1>5. Holds(added, doc, LightpathIds)
  BY <1>3, <1>4, RecordsAdded
<1>6. l = LoadLightpaths(acc, doc)
  BY DEF doc
<1> HIDE DEF acc, added
<1>7. added.ok = TRUE /\ added = [model |-> added.model, ok |-> TRUE]
  BY <1>5 DEF Holds
<1>8. l = [model |-> RestoreQot(added.model, DOMAIN doc.lightpaths, doc), ok |-> TRUE]
  BY <1>6, <1>7 DEF LoadLightpaths, added
<1> DEFINE a == added.model
           q == Overlay([id \in DOMAIN doc.lightpaths \cap DOMAIN doc.qot |-> doc.qot[id]], a.qot)
<1>9. q = m.qot
  <2>1. DOMAIN doc.lightpaths \cap DOMAIN doc.qot = DOMAIN m.qot
    BY <1>1, <1>2 DEF IsMap, Lit
  <2>2. DOMAIN a.qot = {}
    BY <1>5 DEF Holds
  <2>3. m.qot = [id \in DOMAIN m.qot |-> m.qot[id]]
    BY <1>2 DEF IsMap
  <2> QED BY <1>1, <2>1, <2>2, <2>3 DEF Overlay
<1>10. IsRecord(a) /\ a.ipLinks = EmptyMap /\ a.services = EmptyMap
  BY <1>5, ModelIsRecord DEF Holds, Coherent
<1>11. a.lightpaths = m.lightpaths
  <2>1. IsMap(a.lightpaths, LightpathIds, Lightpath)
    BY <1>5 DEF Holds, Coherent, IsModel
  <2>2. DOMAIN a.lightpaths = DOMAIN m.lightpaths
    BY <1>1, <1>2, <1>5 DEF Holds, Lit, IsMap
  <2>3. \A id \in DOMAIN m.lightpaths : a.lightpaths[id] = m.lightpaths[id]
    BY <1>1, <1>5, <2>2 DEF Holds, Lit
  <2> QED BY <1>2, <2>1, <2>2, <2>3 DEF IsMap
<1>12. Is([a EXCEPT !.qot = q], a.lightpaths, a.before, q, a.ipLinks, a.services, a.failed, a.impair)
  <2> HIDE DEF q, a
  <2> QED BY <1>10, SetField DEF IsRecord
<1>13. l.model = [a EXCEPT !.qot = q] /\ l = [model |-> l.model, ok |-> TRUE]
  <2>1. RestoreQot(a, DOMAIN doc.lightpaths, doc) = [a EXCEPT !.qot = q]
    BY DEF RestoreQot
  <2>2. \A x : [model |-> x, ok |-> TRUE].model = x
    OBVIOUS
  <2> QED BY <1>8, <2>1, <2>2, Zenon
<1> HIDE DEF q, a
<1> QED BY <1>9, <1>10, <1>11, <1>12, <1>13, IsFields

\* What is dumped from a model whose service paths are intact loads, and comes
\* back as it was: no order of lightpaths in the file loses a record.
THEOREM DumpsReload ==
  ASSUME StableEnds
  PROVE  Spec => []ReloadRestores
<1> DEFINE intact == \A s \in DOMAIN model.services :
                       AllPresent(model, model.services[s].working)
                         /\ AllPresent(model, model.services[s].protection)
<1>1. ASSUME Coherent(model), Walks(model), OnSlots(model), ServicePathsContiguous
      PROVE  ReloadRestores
  <2> DEFINE doc == Dump(model)
             l == LoadLightpaths([model |-> EmptyModel, ok |-> TRUE], doc)
             k == LoadLinks(l, doc)
             loaded == LoadServices(k, doc)
  <2>1. /\ doc.lightpaths = model.lightpaths /\ doc.qot = model.qot
        /\ doc.ipLinks = model.ipLinks /\ doc.services = model.services
    BY DEF Dump
  <2>2. /\ l = [model |-> l.model, ok |-> TRUE]
        /\ IsRecord(l.model)
        /\ l.model.lightpaths = model.lightpaths /\ l.model.qot = model.qot
        /\ l.model.ipLinks = EmptyMap /\ l.model.services = EmptyMap
    BY <1>1, LightpathsReload
  <2>3. LoadState(EmptyModel, Dump(model)) = loaded
    BY DEF LoadState
  <2> HIDE DEF l, doc
  <2>4. /\ IsMap(model.ipLinks, LinkIds, IPLink)
        /\ IsMap(model.services, ServiceIds, Service)
        /\ DOMAIN EmptyMap = {}
    BY <1>1 DEF Coherent, IsModel, EmptyMap
  <2>5. \A f, D, R : IsMap(f, D, R) => Overlay(f, EmptyMap) = f
    BY <2>4 DEF Overlay, IsMap
  <2>6. \A id \in DOMAIN doc.ipLinks : CanAddIPLink(l.model, id, doc.ipLinks[id])
    <3> SUFFICES ASSUME NEW id \in DOMAIN doc.ipLinks
                 PROVE  CanAddIPLink(l.model, id, doc.ipLinks[id])
      OBVIOUS
    <3>1. doc.ipLinks[id] \in IPLink /\ doc.ipLinks[id].lightpath \in Lit(l.model)
      BY <1>1, <2>1, <2>2, <2>4 DEF IsMap, Coherent, LinksRideLit, Lit
    <3>2. id \notin DOMAIN l.model.ipLinks
      BY <2>2, <2>4
    <3> QED BY <3>1, <3>2 DEF CanAddIPLink, IPLink
  <2>7. k = [model |-> [l.model EXCEPT !.ipLinks = model.ipLinks], ok |-> TRUE]
    <3>1. Overlay(doc.ipLinks, l.model.ipLinks) = model.ipLinks
      BY <2>1, <2>2, <2>4, <2>5
    <3>2. l.ok = TRUE
      BY <2>2
    <3> QED BY <2>6, <3>1, <3>2 DEF LoadLinks, Guarded
  <2> DEFINE n == [l.model EXCEPT !.ipLinks = model.ipLinks]
             p == [n EXCEPT !.services = model.services]
             fits == \A s \in DOMAIN doc.services : CanAddService(n, s, doc.services[s])
  <2>8. /\ IsRecord(n) /\ n.lightpaths = model.lightpaths /\ n.qot = model.qot
        /\ n.ipLinks = model.ipLinks /\ n.services = EmptyMap
    <3>1. Is(n, l.model.lightpaths, l.model.before, l.model.qot, model.ipLinks,
             l.model.services, l.model.failed, l.model.impair)
      BY <2>2, SetField DEF IsRecord
    <3> HIDE DEF n
    <3> QED BY <2>2, <3>1, IsFields
  <2> HIDE DEF k, n
  <2>9. loaded = [model |-> IF fits THEN p ELSE n, ok |-> fits]
    <3>1. Overlay(doc.services, n.services) = model.services
      BY <2>1, <2>4, <2>5, <2>8
    <3>2. k.ok = TRUE /\ k.model = n
      BY <2>7 DEF n
    <3>3. fits \in BOOLEAN
      OBVIOUS
    <3>4. loaded = Guarded(k, fits, p)
      BY <3>1, <3>2 DEF LoadServices
    <3> HIDE DEF fits, p
    <3> QED BY <3>2, <3>3, <3>4 DEF Guarded
  <2>10. fits = intact
    <3>1. \A path : AllPresent(n, path) <=> AllPresent(model, path)
      BY <2>8 DEF AllPresent
    <3>2. \A src, dst, path : Contiguous(n, src, dst, path) <=> Contiguous(model, src, dst, path)
      <4>1. n.ipLinks = model.ipLinks
        BY <2>8
      <4> QED BY <3>1, <4>1, Zenon DEF Contiguous
    <3>3. ASSUME NEW s \in DOMAIN model.services
          PROVE  CanAddService(n, s, model.services[s])
                   <=> /\ AllPresent(model, model.services[s].working)
                       /\ AllPresent(model, model.services[s].protection)
      <4> DEFINE svc == model.services[s]
      <4>1. \A path \in {svc.working, svc.protection} \ {<<>>} :
              AllPresent(model, path) => Contiguous(model, svc.src, svc.dst, path)
        BY <1>1 DEF ServicePathsContiguous
      <4>2. s \notin DOMAIN n.services
        BY <2>4, <2>8
      <4> HIDE DEF svc
      <4>3. CanAddService(n, s, svc)
              <=> /\ AllPresent(n, svc.working) /\ AllPresent(n, svc.protection)
                  /\ svc.working # <<>> => Contiguous(n, svc.src, svc.dst, svc.working)
                  /\ svc.protection # <<>> => Contiguous(n, svc.src, svc.dst, svc.protection)
        BY <4>2 DEF CanAddService
      <4> QED BY <3>1, <3>2, <4>1, <4>3 DEF svc
    <3> QED BY <2>1, <3>3
  <2> HIDE DEF loaded, fits
  <2>11. loaded.ok = intact
    BY <2>9, <2>10
  <2>12. ASSUME intact
         PROVE  Dump(loaded.model) = Dump(model)
    <3>1. loaded.model = p
      BY <2>9, <2>10, <2>12
    <3>2. Is(p, n.lightpaths, n.before, n.qot, n.ipLinks, model.services, n.failed, n.impair)
      BY <2>8, SetField DEF IsRecord
    <3> HIDE DEF p
    <3>3. /\ p.lightpaths = n.lightpaths /\ p.qot = n.qot
          /\ p.ipLinks = n.ipLinks /\ p.services = model.services
      BY <3>2, IsFields
    <3> QED BY <2>8, <3>1, <3>3 DEF Dump
  <2> HIDE DEF intact
  <2>13. loaded.ok = intact /\ (intact => Dump(loaded.model) = Dump(model))
    BY <2>11, <2>12
  <2> QED BY <2>3, <2>13 DEF ReloadRestores, intact
<1>2. Coherent(model) /\ Walks(model) /\ OnSlots(model) /\ ServicePathsContiguous => ReloadRestores
  BY <1>1
<1>3. Spec => []ServicePathsContiguous
  BY ServicePathsStayContiguous
<1> QED BY <1>2, <1>3, InductiveInvariant, LightpathsAreWalks, LightpathsOnSlots, PTL
===============================================================================
