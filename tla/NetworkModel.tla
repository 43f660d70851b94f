----------------------------- MODULE NetworkModel -----------------------------
(***************************************************************************)
(* One live model object and every call that mutates it: the mutators of   *)
(* model/network.py and model/optical_network.py, the injections of        *)
(* model/whatif.py, the QoT recompute of gnpy_adapter/adapter.py and the   *)
(* plan operations of model/plan.py.  The program is sequential: a         *)
(* behaviour is a history of calls in any order.  A call whose checks fail *)
(* raises and is no step, except where it has already changed something.   *)
(***************************************************************************)
EXTENDS PlanOps

CONSTANTS
  LightpathSpecs,   \* lightpaths callers ask for: [oms, mode, slot] records
  LinkSpecs,        \* IP links callers ask for: [id, link] records
  ServiceSpecs,     \* services callers ask for
  Paths,            \* IP paths callers ask for
  FailSets,         \* sets of assets that fail or are cleared together
  PlanInputs        \* plan operations callers apply

VARIABLE model

vars == <<model>>

ASSUME InputAssumption ==
  /\ LightpathSpecs \subseteq Lightpath
  /\ LinkSpecs \subseteq [id : LinkIds, link : IPLink]
  /\ \A op \in PlanInputs : IsOp(op)
  /\ FailSets \subseteq SUBSET Failable
  /\ Paths \subseteq Seq(LinkIds)
  /\ ServiceSpecs \subseteq Service

Init == model = EmptyModel

-------------------------------------------------------------------------------
(* The optical mutators.                                                   *)

AddLightpathStep(id, lp) ==
  /\ CanAddLightpath(model, id, lp)
  /\ model' = AddLightpath(model, id, lp)

RemoveLightpathStep(id) == model' = RemoveLightpath(model, id)

SetLightpathModeStep(id, mode) ==
  /\ id \in Lit(model)
  /\ model' = SetLightpathMode(model, id, mode)

ApplyNfDelta(amp, level) ==
  /\ amp \in Amplifiers
  /\ model' = Impair(model, amp, level)

ApplyLossDelta(fiber, level) ==
  /\ fiber \in Fibers
  /\ model' = Impair(model, fiber, level)

MarkFailedStep(assets)    == model' = MarkFailed(model, assets)
InjectFailureStep(assets) == model' = InjectFailure(model, assets)
ClearFailedStep(assets)   == model' = ClearFailed(model, assets)

\* settle (a full recompute) and recompute_if_possible (only_missing): the
\* latter swallows whatever the loop raised, the former lets it out; either
\* way the model keeps what the loop had done.
SettleStep              == model' = Recompute(model, FALSE)
RecomputeIfPossibleStep == model' = Recompute(model, TRUE)

\* inject_degradation: nf_delta needs an amplifier and loss_delta a fiber;
\* with both given the second raises after the first was applied.
InjectDegradation(asset, byNf, byLoss, level) ==
  LET nfApplied   == IF byNf THEN Impair(model, asset, level) ELSE model
      bothApplied == IF byLoss THEN Impair(nfApplied, asset, level) ELSE nfApplied
  IN  /\ byNf \/ byLoss
      /\ byNf => asset \in Amplifiers
      /\ level # model.impair[asset]
      /\ model' = IF byLoss /\ asset \notin Fibers
                  THEN nfApplied
                  ELSE Recompute(bothApplied, FALSE)

-------------------------------------------------------------------------------
(* The IP layer and the plan operations.                                   *)

AddIPLinkStep(id, link) ==
  /\ CanAddIPLink(model, id, link)
  /\ model' = AddIPLink(model, id, link)

RemoveIPLinkStep(id) == model' = RemoveIPLink(model, id)

AddServiceStep(id, s) ==
  /\ CanAddService(model, id, s)
  /\ model' = AddService(model, id, s)

SetWorkingPathStep(id, path) ==
  /\ CanSetPath(model, id, path)
  /\ model' = SetWorkingPath(model, id, path)

SetProtectionPathStep(id, path) ==
  /\ CanSetPath(model, id, path)
  /\ model' = SetProtectionPath(model, id, path)

ApplyOpStep(op) == model' = ApplyOp(model, op).model

OpticalStep ==
  \/ \E id \in LightpathIds, lp \in LightpathSpecs : AddLightpathStep(id, lp)
  \/ \E id \in LightpathIds : RemoveLightpathStep(id)
  \/ \E id \in LightpathIds, mode \in Modes : SetLightpathModeStep(id, mode)
  \/ \E a \in Amplifiers, l \in Levels : ApplyNfDelta(a, l)
  \/ \E a \in Fibers, l \in Levels : ApplyLossDelta(a, l)
  \/ \E S \in FailSets : MarkFailedStep(S)
  \/ \E S \in FailSets : InjectFailureStep(S)
  \/ \E S \in FailSets \cup {{}} : ClearFailedStep(S)
  \/ SettleStep
  \/ RecomputeIfPossibleStep
  \/ \E a \in Impairable, n, d \in BOOLEAN, l \in Levels : InjectDegradation(a, n, d, l)

IPStep ==
  \/ \E s \in LinkSpecs : AddIPLinkStep(s.id, s.link)
  \/ \E id \in LinkIds : RemoveIPLinkStep(id)
  \/ \E id \in ServiceIds, s \in ServiceSpecs : AddServiceStep(id, s)
  \/ \E id \in ServiceIds, path \in Paths : SetWorkingPathStep(id, path)
  \/ \E id \in ServiceIds, path \in Paths : SetProtectionPathStep(id, path)
  \/ \E op \in PlanInputs : ApplyOpStep(op)

Next == OpticalStep \/ IPStep

Spec == Init /\ [][Next]_vars

-------------------------------------------------------------------------------
(* Properties.                                                             *)

\* Type correctness of the whole model: recorded QoT only for lit lightpaths,
\* and an insertion order over the lit lightpaths alone.
TypeOK == IsModel(model)

\* Coupling 1: whatever the order of adds, teardowns and link removals, no IP
\* link rides a lightpath that is gone (remove_lightpath unbinds every link
\* before it drops the lightpath, also when reached through a plan).
LinksBound == LinksRideLit(model)

\* S1-7 and the add/remove invalidation: a measured QoT is what propagating
\* now would return: no history of adds, teardowns, mode changes, deltas and
\* (partial) recomputes leaves a stale margin behind.
QotFresh == FreshQot(model)

\* S8-6: a failure sentinel is recorded only for a lightpath that still
\* crosses an asset in the failed set.
SentinelJustified == Justified(model)

\* recompute_if_possible's claim: re-deriving a present entry is "redundant
\* work, not a correctness difference".  From every reachable model the
\* incremental recompute leaves exactly what the full one leaves, including
\* how far either gets before a lightpath it cannot propagate.
OnlyMissingIsEnough ==
  Recompute(model, TRUE).qot = Recompute(model, FALSE).qot

\* What a failure can hit on a path: its sections, their elements and the
\* ROADM of every site it visits, the one that drops it included.
Sites(seq)   == {Src[o] : o \in Range(seq)} \cup {Dst[o] : o \in Range(seq)}
Touched(seq) == OmsAssets(seq) \cup {Roadm[n] : n \in Sites(seq) \cap DOMAIN Roadm}

\* S8-1 and S8-3: a recompute that does not raise leaves every lightpath
\* with a record: a sentinel exactly when something its path touches, up to
\* the drop ROADM, has failed, even after a bare mark_failed.
RecomputeSettles ==
  ~ RecomputeRaises(model, TRUE) =>
    LET settled == Recompute(model, TRUE) IN
    \A id \in Lit(model) :
      /\ id \in DOMAIN settled.qot
      /\ IsSentinel(settled, id)
           <=> Touched(model.lightpaths[id].oms) \cap model.failed # {}

\* S1-8: a service path whose links are all present connects its routers.
ServicePathsContiguous ==
  \A s \in DOMAIN model.services :
    LET svc == model.services[s] IN
    \A path \in {svc.working, svc.protection} \ {<<>>} :
      AllPresent(model, path) => Contiguous(model, svc.src, svc.dst, path)

\* "a lightpath on a physically disjoint span is untouched": a step that adds
\* or removes other lightpaths, none of them sharing an OMS, keeps the record.
Bystander(id) ==
  /\ id \in Lit(model) \cap Lit(model')
  /\ Lit(model) # Lit(model')
  /\ \A o \in (Lit(model) \cup Lit(model')) \ (Lit(model) \cap Lit(model')) :
       OmsOf(IF o \in Lit(model) THEN model ELSE model', o) \cap OmsOf(model, id) = {}

BystandersUntouched ==
  [][\A id \in DOMAIN model.qot :
       Bystander(id) => /\ id \in DOMAIN model'.qot
                        /\ model'.qot[id] = model.qot[id]]_vars

\* S8-1: no step records a measurement for a lightpath that crosses a failed
\* asset: recompute and clear_failed never resurrect a cut path.
NeverResurrected ==
  [][\A id \in DOMAIN model'.qot :
       IsMeasured(model', id) /\ ~ IsMeasured(model, id)
         => Crossed(model', id, model'.failed) = {}]_vars

\* commit.actuate: "A failed op leaves the model unchanged for that op".
FailedOpLeavesModelUnchanged ==
  [][\A op \in PlanInputs :
       ~ ApplyOp(model, op).ok /\ ApplyOpStep(op) => UNCHANGED model]_vars

===============================================================================
