------------------------------- MODULE Candidate -------------------------------
(***************************************************************************)
(* Turning a placement into lightpaths, IP links and a path of a service   *)
(* (model/objective.py), and the two menus that score placements on a      *)
(* clone (model/route_service.py, model/restoration.py).                   *)
(*                                                                         *)
(* A recorded QoT is [kind, gsnr, margin] here; the cost vector is the     *)
(* seven terms of evaluate_objective in integers.                          *)
(***************************************************************************)
EXTENDS LayeredGraph

CONSTANT AtRisk       \* at_risk_threshold_db

-------------------------------------------------------------------------------
(* Ids.  lp-<prefix>-<service>-<i>, with -<n> appended for n > 1.          *)

Template(prefix, service, i) == [prefix |-> prefix, service |-> service, i |-> i, n |-> 1]

MintTemplate(taken, template) == template                            \* mutant

MintUnique(taken, template) ==
  IF template \notin taken THEN template
  ELSE [template EXCEPT !.n = Min({n \in 2 .. Cardinality(taken) + 2 :
                                     [template EXCEPT !.n = n] \notin taken})]

-------------------------------------------------------------------------------
(* Materialization.                                                        *)

SeedOf(mode, gsnr) ==
  [kind |-> "measured", gsnr |-> gsnr, margin |-> gsnr - RequiredGsnr[mode] - DesignMargin]

SetQot(m, id, q) == [m EXCEPT !.qot = Put(@, id, q)]

\* set_qot_state for every entry of a list of seeds.
Reseed(m, seeds) == [m EXCEPT !.qot = Overlay(seeds, @)]

Segment(m, k) == [a |-> m.ipLinks[k].a, z |-> m.ipLinks[k].z, id |-> k]

\* The link a reused lightpath is taken through.
LinkOf(m, id) == CHOOSE k \in BoundLinks(m, id) : TRUE

\* What has been built so far: the model, the segments of the IP path, the
\* leg behind each minted lightpath and its seed, and whether apply_op raised.
Start(m) == [model |-> m, segments |-> <<>>, runs |-> EmptyMap, seeds |-> EmptyMap, ok |-> TRUE]

Reuse(b, id) == [b EXCEPT !.segments = Append(@, Segment(b.model, LinkOf(b.model, id)))]

\* _provision_and_seed_run, through the same apply_op as a real commit.
ProvisionRun(b, leg, lp, link) ==
  LET a == RouterAt[From(leg)]
      z == RouterAt[To(leg)]
      spec == [oms |-> leg.oms, mode |-> leg.mode, slot |-> leg.slot]
      done(applied) ==
        IF ~ applied.ok THEN [b EXCEPT !.ok = FALSE]
        ELSE [model |-> SetQot(applied.model, lp, SeedOf(leg.mode, leg.gsnr)),
              segments |-> Append(b.segments, [a |-> a, z |-> z, id |-> link]),
              runs |-> Put(b.runs, lp, leg), seeds |-> Put(b.seeds, lp, SeedOf(leg.mode, leg.gsnr)),
              ok |-> TRUE]
  IN  done(ApplyOp(b.model, Provision(lp, spec, link, a, z)))

ProvisionAll(b, legs, service, prefix) ==
  LET provision(acc, i, template) ==
        ProvisionRun(acc, legs[i], MintUnique(Lit(acc.model), template),
                     MintUnique(DOMAIN acc.model.ipLinks, template))
  IN  Folded(LAMBDA acc, i :
               IF acc.ok THEN provision(acc, i, Template(prefix, service, i)) ELSE acc,
             b, [i \in DOMAIN legs |-> i])

\* _stitch_ip_path: the first unused segment at the current router, in either
\* orientation, until the walk arrives or is stuck.
Stitch(segments, src, dst) ==
  LET usable(w) == {i \in DOMAIN segments \ w.used : w.at \in {segments[i].a, segments[i].z}}
      take(w, i) == [path |-> Append(w.path, segments[i].id), used |-> w.used \cup {i},
                     at |-> IF segments[i].a = w.at THEN segments[i].z ELSE segments[i].a]
      step(w) == IF w.at = dst \/ usable(w) = {} THEN w ELSE take(w, Min(usable(w)))
  IN  Folded(LAMBDA w, segment : step(w), [path |-> <<>>, used |-> {}, at |-> src], segments).path

\* Provision the new runs of a placement next to its reused lightpaths, and
\* seed them again: a later run may have dropped the record of an earlier one.
Materialize(m, placement, service, prefix) ==
  LET reused == Folded(LAMBDA b, leg : Reuse(b, leg.id), Start(m), ReusedLegs(placement.legs))
      reseeded(b) == [b EXCEPT !.model = Reseed(@, b.seeds)]
  IN  reseeded(ProvisionAll(reused, NewLegs(placement.legs), service, prefix))

\* The reroute of one side of the service onto the segments.
RerouteOnto(b, service, which) ==
  LET s == b.model.services[service]
      done(applied) == [b EXCEPT !.model = applied.model, !.ok = applied.ok]
  IN  IF ~ b.ok THEN b
      ELSE done(ApplyOp(b.model, Reroute(service, Stitch(b.segments, s.src, s.dst), which)))

\* apply_candidate, and provision_new_runs followed by its caller's reroute.
ApplyCandidate(m, placement, service, prefix, which) ==
  RerouteOnto(Materialize(m, placement, service, prefix), service, which)

-------------------------------------------------------------------------------
(* Verification of composed values.                                        *)

ExactGsnr(leg) == Gsnr(leg.oms, leg.slot, Slots)

ExactSeed(leg) == SeedOf(leg.mode, ExactGsnr(leg))

\* verify_and_reseed: a run accepted on a composed value is propagated on the
\* full comb and recorded with what that returns.
Verified(b) ==
  [id \in DOMAIN b.runs |-> IF b.runs[id].estimated THEN ExactSeed(b.runs[id]) ELSE b.seeds[id]]

Outside(leg) ==
  LET error == leg.gsnr - ExactGsnr(leg) IN error > CompositionBound \/ - error > CompositionBound

CompositionErrors(b) ==
  {[kind |-> "composition_error", id |-> id] :
     id \in {id \in DOMAIN b.runs : b.runs[id].estimated /\ Outside(b.runs[id])}}

VerifyErrorsOnly(b) == CompositionErrors(b)                          \* mutant

VerifyViolations(b) ==
  CompositionErrors(b) \cup
  {[kind |-> "mode_infeasible", id |-> id] :
     id \in {id \in DOMAIN b.runs : b.runs[id].estimated /\ ExactSeed(b.runs[id]).margin < 0}}

-------------------------------------------------------------------------------
(* Cost.                                                                   *)

Sum(S, Op(_)) == MapThenSumSet(Op, S)

ServiceLightpaths(m, s) ==
  LET path == m.services[s].working
  IN  [i \in {i \in DOMAIN path : path[i] \in DOMAIN m.ipLinks} |-> m.ipLinks[path[i]].lightpath]

LengthOf(m, id) == FoldLeft(LAMBDA km, o : km + LengthKm[o], 0, m.lightpaths[id].oms)

\* Overflow of a link that is up.
Overflow(m, k) ==
  IF k \in CongestedLinks(m) THEN ActiveLoad(m, k) - Capacity(m, k) ELSE 0

\* Recorded and under the threshold.
Thin(m) == {id \in DOMAIN m.qot : m.qot[id].kind = "failed" \/ m.qot[id].margin < AtRisk}

\* margin of a measured lightpath; the -inf of a sentinel counts as -1000.
MarginOf(q) == IF q.kind = "measured" THEN q.margin ELSE -1000

Cost(m) ==
  LET up == DOMAIN m.services \ DroppedServices(m)
      spectrum == BuildSpectrumState(m)
  IN  [spectrumUsed   |-> Sum(OMS, LAMBDA o : Cardinality(spectrum[o])),
       transponders   |-> 2 * Cardinality(Lit(m)),
       congested      |-> CongestedLinks(m),
       droppedTraffic |-> Sum(DroppedServices(m), LAMBDA s : Demand[s])
                            + Sum(DOMAIN m.ipLinks, LAMBDA k : Overflow(m, k)),
       addedLatency   |-> Sum(up, LAMBDA s :
                            Sum(DOMAIN ServiceLightpaths(m, s),
                                LAMBDA i : LengthOf(m, ServiceLightpaths(m, s)[i]))),
       totalMargin    |-> Sum(DOMAIN m.qot, LAMBDA id : MarginOf(m.qot[id])),
       servicesAtRisk |-> Cardinality({s \in up : Range(ServiceLightpaths(m, s)) \cap Thin(m) # {}})]

\* score_candidate: the placement on a clone, every record the model had put
\* back over what provisioning it has dropped.
ScoredUnrestored(m, placement, service) ==                           \* mutant
  ApplyCandidate(m, placement, service, "score-cand", "working")

Scored(m, placement, service) ==
  LET restored(b) == [b EXCEPT !.model = Reseed(@, m.qot)]
  IN  restored(ApplyCandidate(m, placement, service, "score-cand", "working"))

\* score_pair: both legs provisioned, only the working one routed.
ScoredPair(m, working, protection, service) ==
  LET first == ApplyCandidate(m, working, service, "score-work", "working")
      second == Materialize(first.model, protection, service, "score-prot")
  IN  [second EXCEPT !.model = Reseed(Reseed(@, Overlay(second.seeds, first.seeds)), m.qot),
                     !.seeds = Overlay(@, first.seeds), !.ok = @ /\ first.ok]

-------------------------------------------------------------------------------
(* The menus.  Nothing is consumed and the model is only read.             *)

SiteOf(router) == CHOOSE n \in DOMAIN RouterAt : RouterAt[n] = router

\* The placements route_service scores, with what the harvest calibrated.
MenuHarvest(seen, m, s, avoid) ==
  HarvestPlacements(seen, m, LayeredGraph(m, ForbiddenAssets(avoid), 0),
                    SiteOf(m.services[s].src), SiteOf(m.services[s].dst), Demand[s], FALSE)

\* A placement whose provisioning raises is left out of the menu.
Menu(m, s, placements) ==
  {[placement |-> p, cost |-> Cost(Scored(m, p, s).model)] :
     p \in {p \in placements : Materializable(m, p) /\ Scored(m, p, s).ok}}

MenuStatus(s, menu) ==
  Status(menu # {}, \E c \in menu : c.placement.restored = Demand[s])

\* route_service for a protected service: its first pair, scored together.
PairMenu(m, s, placements, basis, level, bestEffort) ==
  LET ends == {SiteOf(m.services[s].src), SiteOf(m.services[s].dst)}
      cands == Filtered(placements, {p \in Range(placements) : Materializable(m, p)})
      scored(pair) == IF pair = <<>> THEN {} ELSE {ScoredPair(m, pair[1], pair[2], s)}
  IN  {b \in scored(DisjointPlacements(cands, basis, level, bestEffort, ends)) : b.ok}

\* compute_restoration ranks by shortfall before cost: what it puts first.
FirstRestored(menu) ==
  {c \in menu : \A other \in menu : other.placement.restored <= c.placement.restored}
===============================================================================
