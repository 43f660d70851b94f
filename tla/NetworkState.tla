----------------------------- MODULE NetworkState -----------------------------
(***************************************************************************)
(* The multi-layer model object (model/network.py, model/optical_network.py) *)
(* as a value.  A model is a record, so clone() is assignment of a value,  *)
(* and each mutator is an operator from a model to the model it leaves     *)
(* behind.  The operators are shared by every module of the project: the   *)
(* object under mutation (NetworkModel), the plan operations (PlanOps) and *)
(* whatever keeps or compares whole models.                                *)
(*                                                                         *)
(* The physical topology is imported once and never edited, so it is       *)
(* given by constants.  GNPy is outside src/: a measured QoT is abstracted *)
(* to the inputs the propagation read (mode, channels lit next to it and   *)
(* the impairments of the assets it crossed in either direction), which is *)
(* all that freshness, invalidation and sentinels can be wrong about.      *)
(***************************************************************************)
EXTENDS Integers, Sequences, FiniteSets, FiniteSetsExt, Functions

CONSTANTS
  Nodes,          \* sites
  OMS,            \* optical multiplex sections, each one-directional
  Assets,         \* fibers, amplifiers and ROADMs
  Amplifiers,     \* the assets apply_nf_delta accepts
  Fibers,         \* the assets apply_loss_delta accepts
  Src, Dst,       \* [OMS -> Nodes], src_node_id and dst_node_id
  Elements,       \* [OMS -> SUBSET Assets], the element chain as a set
  Roadm,          \* partial map from Nodes: the registered "roadm_<node>"
  Rank,           \* [OMS \cup Assets -> Nat], the lexical order of ids
  Modes,          \* ids in the mode registry
  NumSlots,       \* size of the spectrum grid
  GridChecked,    \* whether the model carries a grid (add_lightpath checks it)
  MaxImpairment,  \* bound on the impairment level of one asset
  LightpathIds, LinkIds, ServiceIds, Routers

Failable == OMS \cup Assets
Slots    == 0 .. NumSlots - 1
OffGrid  == NumSlots              \* any frequency slot_of() rejects
Impairable == Amplifiers \cup Fibers

ASSUME TopologyAssumption ==
  /\ Src \in [OMS -> Nodes] /\ Dst \in [OMS -> Nodes]
  /\ Elements \in [OMS -> SUBSET Assets]
  /\ DOMAIN Roadm \subseteq Nodes /\ Roadm \in [DOMAIN Roadm -> Assets]
  \* the importer starts each element chain with the ROADM of its source
  /\ \A o \in OMS : Src[o] \in DOMAIN Roadm => Roadm[Src[o]] \in Elements[o]
  /\ Impairable \subseteq Assets /\ Amplifiers \cap Fibers = {}
  /\ Rank \in [Failable -> Nat]
  /\ \A a, b \in Failable : Rank[a] = Rank[b] => a = b

ASSUME SpectrumAssumption ==
  /\ NumSlots \in Nat \ {0} /\ MaxImpairment \in Nat
  /\ GridChecked \in BOOLEAN

-------------------------------------------------------------------------------
(* Partial maps: the dict registries of the model.                         *)

Put(f, k, v) == [x \in DOMAIN f \cup {k} |-> IF x = k THEN v ELSE f[x]]
Drop(f, ks)  == Restrict(f, DOMAIN f \ ks)
Overlay(f, g) == [x \in DOMAIN f \cup DOMAIN g |-> IF x \in DOMAIN f THEN f[x] ELSE g[x]]
IsMap(f, D, R) == DOMAIN f \subseteq D /\ f \in [DOMAIN f -> R]

\* The sum of f[x] over the x of a finite set.
Total(f, S) == MapThenSumSet(LAMBDA x : f[x], S)

\* A lightpath crosses at least one section: no caller asks for an empty path.
Lightpath == [oms : Seq(OMS) \ {<<>>}, mode : Modes, slot : Slots \cup {OffGrid}]
IPLink    == [a : Routers, z : Routers, lightpath : LightpathIds]
Service   == [src : Routers, dst : Routers,
              working : Seq(LinkIds), protection : Seq(LinkIds)]

\* A QoTState: inject_failure's -inf sentinel, or what a propagation read
\* (an asset off the path counts as unimpaired).
Levels    == 0 .. MaxImpairment
Sentinels == [kind : {"failed"}, limiting : Failable]
Measured  == [kind : {"measured"}, mode : Modes, comb : SUBSET Slots,
              impair : [Impairable -> Levels]]
QoTState  == Sentinels \cup Measured

Lit(m) == DOMAIN m.lightpaths

\* The fields of the model.  `before' is the insertion order of the lightpath
\* dict: <<a, b>> when a was inserted before b.
IsModel(m) ==
  /\ m = [lightpaths |-> m.lightpaths, before |-> m.before, qot |-> m.qot,
          ipLinks |-> m.ipLinks, services |-> m.services,
          failed |-> m.failed, impair |-> m.impair]
  /\ IsMap(m.lightpaths, LightpathIds, Lightpath)
  /\ m.before \subseteq Lit(m) \X Lit(m)
  /\ IsMap(m.qot, Lit(m), QoTState)
  /\ IsMap(m.ipLinks, LinkIds, IPLink)
  /\ IsMap(m.services, ServiceIds, Service)
  /\ m.failed \subseteq Failable
  /\ m.impair \in [Impairable -> Levels]

EmptyMap == [x \in {} |-> x]

\* A freshly imported topology: no lightpath, no IP link, nothing failed.
EmptyModel ==
  [lightpaths |-> EmptyMap, before |-> {}, qot |-> EmptyMap,
   ipLinks |-> EmptyMap, services |-> EmptyMap, failed |-> {},
   impair |-> [a \in Impairable |-> 0]]

OmsOf(m, id) == Range(m.lightpaths[id].oms)

-------------------------------------------------------------------------------
(* Footprints and reverse paths.                                           *)

\* add_lightpath's S1-4 check: each OMS ends where the next one starts.
Chained(seq) == \A i \in 1 .. Len(seq) - 1 : Dst[seq[i]] = Src[seq[i + 1]]

OmsAssets(seq) == Range(seq) \cup UNION {Elements[o] : o \in Range(seq)}

\* The drop ROADM, which the element chain of the last OMS leaves out.
TerminalRoadm(seq) ==
  {Roadm[n] : n \in {x \in DOMAIN Roadm : seq # <<>> /\ x = Dst[seq[Len(seq)]]}}

FootprintWithoutDrop(seq) == OmsAssets(seq)    \* mutant: forgets the drop ROADM

Footprint(seq) == OmsAssets(seq) \cup TerminalRoadm(seq)

Crossed(m, id, assets) == Footprint(m.lightpaths[id].oms) \cap assets

Twins(o)    == {p \in OMS : Src[p] = Src[o] /\ Dst[p] = Dst[o]}
Opposite(o) == {p \in OMS : Src[p] = Dst[o] /\ Dst[p] = Src[o]}

\* reverse_oms_sequence finds a reverse path: every leg has exactly one OMS
\* on its node pair and exactly one on the opposite pair.  Otherwise the
\* backward propagation raises.
Propagatable(seq) ==
  \A o \in Range(seq) : Twins(o) = {o} /\ \E p \in OMS : Opposite(o) = {p}

\* What gated_qot reads: the elements of the path and of its reverse.
Traversed(seq) ==
  UNION {Elements[p] : p \in Range(seq) \cup UNION {Opposite(o) : o \in Range(seq)}}

-------------------------------------------------------------------------------
(* Optical mutators.                                                       *)

InvalidateAll(m, seq, exclude) ==              \* mutant: the blunt clear
  [m EXCEPT !.qot = Drop(@, Lit(m) \ exclude)]

\* Drop the recorded QoT of every lightpath with an OMS of seq.
InvalidateSharing(m, seq, exclude) ==
  [m EXCEPT !.qot = Drop(@, {id \in Lit(m) \ exclude :
       Range(seq) \cap OmsOf(m, id) # {}})]

CanAddLightpath(m, id, lp) ==
  /\ id \notin Lit(m)
  /\ lp.mode \in Modes
  /\ Range(lp.oms) \subseteq OMS
  /\ Chained(lp.oms)
  /\ GridChecked => lp.slot \in Slots

AddLightpath(m, id, lp) ==
  InvalidateSharing(
    [m EXCEPT !.lightpaths = Put(@, id, lp),
              !.before = @ \cup (Lit(m) \X {id})],
    lp.oms, {id})

\* NetworkModel.remove_lightpath: unbind the IP links riding the lightpath,
\* then the optical half.  An unknown id is a no-op.
RemoveKeepingQot(m, id) ==                     \* mutant: its own QoT stays
  IF id \notin Lit(m) THEN m
  ELSE InvalidateSharing(
         [m EXCEPT !.ipLinks = Drop(@, {k \in DOMAIN @ : @[k].lightpath = id}),
                   !.lightpaths = Drop(@, {id}),
                   !.before = {p \in @ : id \notin {p[1], p[2]}}],
         m.lightpaths[id].oms, {})

OpticalRemoveOnly(m, id) ==                    \* mutant: inherited removal
  IF id \notin Lit(m) THEN m
  ELSE InvalidateSharing(
         [m EXCEPT !.lightpaths = Drop(@, {id}), !.qot = Drop(@, {id}),
                   !.before = {p \in @ : id \notin {p[1], p[2]}}],
         m.lightpaths[id].oms, {})

RemoveLightpath(m, id) ==
  IF id \notin Lit(m) THEN m
  ELSE InvalidateSharing(
         [m EXCEPT !.ipLinks = Drop(@, {k \in DOMAIN @ : @[k].lightpath = id}),
                   !.lightpaths = Drop(@, {id}), !.qot = Drop(@, {id}),
                   !.before = {p \in @ : id \notin {p[1], p[2]}}],
         m.lightpaths[id].oms, {})

SetModeKeepingQot(m, id, mode) ==              \* mutant: stale margin kept
  [m EXCEPT !.lightpaths[id].mode = mode]

SetLightpathMode(m, id, mode) ==
  [m EXCEPT !.lightpaths[id].mode = mode, !.qot = Drop(@, {id})]

\* apply_nf_delta / apply_loss_delta: move one asset's impairment to level
\* and clear every recorded QoT, sentinels included.
Impair(m, asset, level) ==
  [m EXCEPT !.impair[asset] = level, !.qot = EmptyMap]

-------------------------------------------------------------------------------
(* Failures and the QoT recompute.                                         *)

\* sorted(crossing)[0]: the sentinel names the lexically first crossed asset.
Marker(S) == CHOOSE a \in S : \A b \in S : Rank[a] <= Rank[b]
Sentinel(S) == [kind |-> "failed", limiting |-> Marker(S)]

IsSentinel(m, id) == id \in DOMAIN m.qot /\ m.qot[id].kind = "failed"
IsMeasured(m, id) == id \in DOMAIN m.qot /\ m.qot[id].kind = "measured"

MarkFailed(m, assets) == [m EXCEPT !.failed = @ \cup assets]

InjectFailure(m, assets) ==
  LET marked == MarkFailed(m, assets)
      downed == {id \in Lit(m) : Crossed(m, id, assets) # {}}
  IN  [marked EXCEPT !.qot = [id \in DOMAIN @ \cup downed |->
         IF id \in downed THEN Sentinel(Crossed(m, id, assets)) ELSE @[id]]]

ClearFailedOnly(m, assets) ==                  \* mutant: sentinels left behind
  [m EXCEPT !.failed = IF assets = {} THEN {} ELSE @ \ assets]

ClearFailed(m, assets) ==
  LET remaining == IF assets = {} THEN {} ELSE m.failed \ assets
      lifted == {id \in Lit(m) : IsSentinel(m, id) /\ Crossed(m, id, remaining) = {}}
  IN  [m EXCEPT !.failed = remaining, !.qot = Drop(@, lifted)]

\* The channels lit on the lightpath's own OMSs, its own slot included.
Comb(m, id) ==
  {m.lightpaths[o].slot :
     o \in {o \in Lit(m) : o = id \/ OmsOf(m, o) \cap OmsOf(m, id) # {}}} \cap Slots

\* What gated_qot(...) returns now, under the model's own committed loading.
Propagate(m, id) ==
  [kind |-> "measured", mode |-> m.lightpaths[id].mode, comb |-> Comb(m, id),
   impair |-> [a \in Impairable |->
     IF a \in Traversed(m.lightpaths[id].oms) THEN m.impair[a] ELSE 0]]

\* Lightpaths whose turn in the loop raises: their reverse path cannot be
\* resolved and they reach the propagation.
Blocked(m, onlyMissing) ==
  {id \in Lit(m) : /\ Crossed(m, id, m.failed) = {}
                   /\ ~ (onlyMissing /\ id \in DOMAIN m.qot)
                   /\ ~ Propagatable(m.lightpaths[id].oms)}

\* build_spectrum_state raises on an off-grid carrier, before the loop.
HasOffGrid(m) == \E id \in Lit(m) : m.lightpaths[id].slot = OffGrid

RecomputeRaises(m, onlyMissing) == HasOffGrid(m) \/ Blocked(m, onlyMissing) # {}

\* The lightpaths the loop finishes: those inserted before every blocked one.
Reached(m, onlyMissing) ==
  LET blocked == Blocked(m, onlyMissing)
  IN  IF HasOffGrid(m) THEN {}
      ELSE {id \in Lit(m) \ blocked : \A b \in blocked : <<id, b>> \in m.before}

RecomputePresentFirst(m, onlyMissing) ==       \* mutant: present entries win
  LET reached == Reached(m, onlyMissing)
  IN  [m EXCEPT !.qot = [id \in DOMAIN @ \cup reached |->
         IF id \notin reached THEN @[id]
         ELSE IF onlyMissing /\ id \in DOMAIN @ THEN @[id]
         ELSE IF Crossed(m, id, m.failed) # {} THEN Sentinel(Crossed(m, id, m.failed))
         ELSE Propagate(m, id)]]

RecomputeIgnoringFailures(m, onlyMissing) ==   \* mutant: resurrects cut paths
  LET reached == Reached(m, onlyMissing)
  IN  [m EXCEPT !.qot = [id \in DOMAIN @ \cup reached |->
         IF id \notin reached \/ (onlyMissing /\ id \in DOMAIN @)
         THEN @[id] ELSE Propagate(m, id)]]

\* recompute_qot_under_loading(loading_from_model(m), only_missing): crossing
\* a failed asset comes first, then the trust in a present entry.
Recompute(m, onlyMissing) ==
  LET reached == Reached(m, onlyMissing)
  IN  [m EXCEPT !.qot = [id \in DOMAIN @ \cup reached |->
         IF id \notin reached THEN @[id]
         ELSE IF Crossed(m, id, m.failed) # {} THEN Sentinel(Crossed(m, id, m.failed))
         ELSE IF onlyMissing /\ id \in DOMAIN @ THEN @[id]
         ELSE Propagate(m, id)]]

-------------------------------------------------------------------------------
(* The IP layer.                                                           *)

CanAddIPLink(m, id, link) ==
  /\ link.lightpath \in Lit(m)
  /\ link.a \in Routers /\ link.z \in Routers
  /\ id \notin DOMAIN m.ipLinks

AddIPLink(m, id, link) == [m EXCEPT !.ipLinks = Put(@, id, link)]

RemoveIPLink(m, id) == [m EXCEPT !.ipLinks = Drop(@, {id})]

AllPresent(m, path) == Range(path) \subseteq DOMAIN m.ipLinks

\* is_contiguous_path: the links form a walk from src to dst, each taken in
\* either orientation.
Contiguous(m, src, dst, path) ==
  /\ AllPresent(m, path)
  /\ \E walk \in [0 .. Len(path) -> Routers] :
       /\ walk[0] = src /\ walk[Len(path)] = dst
       /\ \A i \in 1 .. Len(path) :
            {walk[i - 1], walk[i]} = {m.ipLinks[path[i]].a, m.ipLinks[path[i]].z}

CanAddService(m, id, s) ==
  /\ id \notin DOMAIN m.services
  /\ AllPresent(m, s.working) /\ AllPresent(m, s.protection)
  /\ s.working # <<>> => Contiguous(m, s.src, s.dst, s.working)
  /\ s.protection # <<>> => Contiguous(m, s.src, s.dst, s.protection)

AddService(m, id, s) == [m EXCEPT !.services = Put(@, id, s)]

PathIsPresent(m, id, path) ==                  \* mutant: no contiguity check
  id \in DOMAIN m.services /\ AllPresent(m, path)

CanSetPath(m, id, path) ==
  /\ id \in DOMAIN m.services
  /\ Contiguous(m, m.services[id].src, m.services[id].dst, path)

SetWorkingPath(m, id, path)    == [m EXCEPT !.services[id].working = path]
SetProtectionPath(m, id, path) == [m EXCEPT !.services[id].protection = path]
-------------------------------------------------------------------------------
(* What every mutator keeps: the properties of NetworkModel, on any model. *)

\* A measured QoT is what propagating now would return.
FreshQot(m) ==
  \A id \in DOMAIN m.qot : IsMeasured(m, id) => m.qot[id] = Propagate(m, id)

\* A sentinel is recorded only on a lightpath that crosses a failed asset.
Justified(m) ==
  \A id \in DOMAIN m.qot : IsSentinel(m, id) => Crossed(m, id, m.failed) # {}

\* A measurement exists only for a path whose reverse can be resolved.
Resolvable(m) ==
  \A id \in DOMAIN m.qot : IsMeasured(m, id) => Propagatable(m.lightpaths[id].oms)

\* No IP link rides a lightpath that is gone.
LinksRideLit(m) == \A k \in DOMAIN m.ipLinks : m.ipLinks[k].lightpath \in Lit(m)

QotInv(m)   == FreshQot(m) /\ Justified(m) /\ Resolvable(m)
Coherent(m) == IsModel(m) /\ QotInv(m) /\ LinksRideLit(m)
===============================================================================
