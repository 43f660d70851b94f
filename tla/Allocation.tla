------------------------------ MODULE Allocation ------------------------------
(***************************************************************************)
(* The packer of solve_allocation (_pack, model/allocation.py): demands in *)
(* turn, each routed over what the ones before it left on a clone of the   *)
(* model.  A step answers one demand: it lands on the clone with its       *)
(* lightpaths, links, service and QoT records, or is refused with a reason *)
(* and leaves no trace.                                                    *)
(***************************************************************************)
EXTENDS Candidate

CONSTANTS
  PackModels,     \* the models a solve may start from
  PackLists,      \* demands in the order of their weights
  Spare,          \* [Nodes -> Nat], spare_inventory
  Avoids          \* avoid-sets a restoration is asked with

ASSUME PackAssumption == Spare \in [Nodes -> Nat] /\ AtRisk \in Int

\* A demand: [id, src, dst, protected, basis, level, bestEffort]; it asks for
\* Demand[id] Gbps and becomes the service of that id.

VARIABLES
  net,            \* the model the solve was given; never written
  todo,           \* demands not answered yet
  work,           \* the clone being packed
  inv,            \* transponders left per site
  seeded,         \* all_seeded: the record of every lightpath lit so far
  table,          \* sections with a calibrated increment
  placed,         \* [demand, picks] in the order they landed
  unplaced,       \* [demand, reason]
  violations,     \* findings of the verify pass
  aborted         \* an exception left the solve

vars == <<net, todo, work, inv, seeded, table, placed, unplaced, violations, aborted>>

-------------------------------------------------------------------------------
(* Routing one demand.                                                     *)

Answer(reason, picks, seen, raises) ==
  [reason |-> reason, picks |-> picks, table |-> seen, raises |-> raises]

HoistedModel == net                                                  \* mutant

\* The graph is built anew for each demand, on what the last one left.
CurrentModel == work

HarvestAt(seen, d, atLeast) ==
  HarvestPlacements(seen, CurrentModel, LayeredGraph(CurrentModel, {}, atLeast), d.src, d.dst,
                    Demand[d.id], ~ d.protected)

Candidates(h) == Filtered(h.out, {p \in Range(h.out) : Materializable(CurrentModel, p)})

\* The capacity filter may narrow the search, never remove the only answer.
Unfiltered(d, h) == HarvestAt(h.table, d, 0)

\* A pair of disjoint candidates, or the first, cheapest one.
Picked(d, cands) ==
  IF d.protected THEN DisjointPlacements(cands, d.basis, d.level, d.bestEffort, {d.src, d.dst})
  ELSE Take(cands, 1)

AnswerFrom(d, h, cands) ==
  LET from(picks) == Answer(IF picks = <<>> THEN "no disjoint feasible pair" ELSE "found",
                            picks, h.table, FALSE)
  IN  IF h.raises THEN Answer("raised", <<>>, h.table, TRUE)
      ELSE IF cands = <<>> THEN Answer("no feasible route", <<>>, h.table, FALSE)
      ELSE from(Picked(d, cands))

Harvested(d, h) ==
  LET answer(x) == AnswerFrom(d, x, Candidates(x))
      best(a, b) == IF b.reason = "no feasible route" THEN [b EXCEPT !.reason = a.reason] ELSE b
      orElse(a) == IF a.reason \in {"found", "raised"} THEN a ELSE best(a, answer(Unfiltered(d, h)))
  IN  orElse(answer(h))

Routed(d) ==
  IF {d.src, d.dst} \subseteq DOMAIN RouterAt THEN Harvested(d, HarvestAt(table, d, Demand[d.id]))
  ELSE Answer("no router at endpoint", <<>>, table, FALSE)

-------------------------------------------------------------------------------
(* Transponders: one at each end of a new run.                             *)

EndsAt(legs, n) ==
  Cardinality({i \in DOMAIN legs : IsNew(legs[i]) /\ From(legs[i]) = n})
    + Cardinality({i \in DOMAIN legs : IsNew(legs[i]) /\ To(legs[i]) = n})

NeedOfFirst(picks) == [n \in Nodes |-> EndsAt(picks[1].legs, n)]     \* mutant

\* Of both legs together.
Need(picks) == [n \in Nodes |-> EndsAt(FlattenSeq(Mapped(picks, LAMBDA p : p.legs)), n)]

InventoryOk(need) == \A n \in Nodes : need[n] <= inv[n]

-------------------------------------------------------------------------------
(* Landing on the clone.                                                   *)

ServiceOf(d) ==
  [src |-> RouterAt[d.src], dst |-> RouterAt[d.dst], working |-> <<>>, protection |-> <<>>]

\* Working under "cand", protection under "prot", the second on top of the first.
Land(m, d, picks) ==
  LET working == ApplyCandidate(m, picks[1], d.id, "cand", "working")
      both(first) ==
        IF Len(picks) = 1 \/ ~ first.ok THEN <<first>>
        ELSE <<first, ApplyCandidate(first.model, picks[2], d.id, "prot", "protection")>>
  IN  both(working)

\* Of the one build or of both.
Merge(builds, Part(_)) ==
  IF Len(builds) = 1 THEN Part(builds[1]) ELSE Overlay(Part(builds[2]), Part(builds[1]))

RememberSeeds(verified, builds) == Overlay(Merge(builds, LAMBDA b : b.seeds), seeded)    \* mutant

\* What later demands replay: for this demand's runs, what verification left.
Remember(verified, builds) == Overlay(verified, seeded)

\* The replay of every seed puts back what provisioning dropped; verified
\* records go over it.
Corrected(m, verified) == Reseed(Reseed(m, seeded), verified)

-------------------------------------------------------------------------------

Init ==
  /\ net \in PackModels /\ ~ HasOffGrid(net)
  /\ todo \in PackLists
  /\ work = net /\ inv = Spare
  /\ seeded = EmptyMap /\ table = {} /\ violations = {} /\ aborted = FALSE
  /\ placed = <<>> /\ unplaced = {}

\* Why an answer does not land, "" when it does.
Reason(d, answer) ==
  IF answer.reason # "found" THEN answer.reason
  ELSE IF ~ InventoryOk(Need(answer.picks)) THEN "insufficient transponders"
  ELSE IF ~ CanAddService(work, d.id, ServiceOf(d))
  THEN "demand id collides with an existing service"
  ELSE ""

Refuse(d, answer) ==
  /\ ~ answer.raises /\ Reason(d, answer) # ""
  /\ unplaced' = unplaced \cup {[demand |-> d, reason |-> Reason(d, answer)]}
  /\ todo' = Tail(todo) /\ table' = answer.table
  /\ UNCHANGED <<net, work, inv, seeded, placed, violations, aborted>>

Record(d, answer, builds, verified) ==
  /\ work' = Corrected(builds[Len(builds)].model, verified)
  /\ seeded' = Remember(verified, builds)
  /\ violations' = violations \cup UNION {VerifyViolations(b) : b \in Range(builds)}
  /\ inv' = [n \in Nodes |-> inv[n] - Need(answer.picks)[n]]
  /\ placed' = Append(placed, [demand |-> d, picks |-> answer.picks])
  /\ todo' = Tail(todo) /\ table' = answer.table
  /\ UNCHANGED <<net, unplaced, aborted>>

Place(d, answer) ==
  /\ ~ answer.raises /\ Reason(d, answer) = ""
  /\ \E builds \in {Land(AddService(work, d.id, ServiceOf(d)), d, answer.picks)} :
       /\ \A b \in Range(builds) : b.ok
       /\ Record(d, answer, builds, Merge(builds, Verified))

\* An exception nobody catches: of a probe, or of apply_op.
Raises(d, answer) ==
  \/ answer.raises
  \/ /\ Reason(d, answer) = ""
     /\ \E b \in Range(Land(AddService(work, d.id, ServiceOf(d)), d, answer.picks)) : ~ b.ok

Abort(d, answer) ==
  /\ Raises(d, answer)
  /\ aborted' = TRUE /\ todo' = <<>>
  /\ UNCHANGED <<net, work, inv, seeded, table, placed, unplaced, violations>>

Next ==
  /\ todo # <<>>
  /\ \E answer \in {Routed(Head(todo))} :
       Place(Head(todo), answer) \/ Refuse(Head(todo), answer) \/ Abort(Head(todo), answer)

Spec == Init /\ [][Next]_vars

-------------------------------------------------------------------------------
(* Properties.                                                             *)

NewIds == Lit(work) \ Lit(net)

\* The transponders left and those the new lightpaths end on are the ones there
\* were, site by site, and no site goes below zero: over both legs of a pair.
InventoryConserved ==
  \A n \in Nodes :
    LET ends == EndsAt(FlattenSeq(Mapped(placed, LAMBDA p : FlattenSeq(Mapped(p.picks, LAMBDA q : q.legs)))), n)
    IN  inv[n] >= 0 /\ inv[n] + ends = Spare[n]

\* No two lightpaths of the clone use one slot on one section.
NoSlotClash ==
  \A a, b \in Lit(work) : a # b =>
    work.lightpaths[a].slot # work.lightpaths[b].slot \/ OmsOf(work, a) \cap OmsOf(work, b) = {}

\* Whatever later provisioning dropped and the replay wrote back, a lightpath
\* lit by the solve is recorded at the value of an exact propagation.
ExactRecords ==
  FillPolicy = "full" =>
    \A id \in NewIds :
      LET lp == work.lightpaths[id]
      IN  id \in DOMAIN work.qot /\ work.qot[id] = SeedOf(lp.mode, Gsnr(lp.oms, lp.slot, Slots))

SidesOf(d) == Range(work.services[d.id].working) \cup Range(work.services[d.id].protection)

\* A demand that landed on new lightpaths is up on both its sides, except over a
\* lightpath that the verify pass reported: no new one is down in silence.
DownIsReported ==
  \A i \in DOMAIN placed :
    \A k \in SidesOf(placed[i].demand) :
      work.ipLinks[k].lightpath \in NewIds =>
        LinkStatus(work, k) = "up" \/ work.ipLinks[k].lightpath \in {v.id : v \in violations}

\* A demand that was groomed onto a lightpath of the model keeps riding a link
\* that is up, whatever later demands light next to it.
GroomedStaysUp ==
  \A i \in DOMAIN placed :
    \A k \in Range(work.services[placed[i].demand.id].working) :
      work.ipLinks[k].lightpath \in Lit(net) => LinkStatus(work, k) = "up"

\* Grooming counts what earlier demands took: a link that is up is offered more
\* than it carries only under a placement that declared a shortfall.
OverloadIsDeclared ==
  \A k \in DOMAIN work.ipLinks :
    LinkStatus(work, k) = "up" /\ OfferedLoad(work, k) > Capacity(work, k) =>
      \E i \in DOMAIN placed :
        /\ k \in Range(work.services[placed[i].demand.id].working)
        /\ placed[i].picks[1].restored < Demand[placed[i].demand.id]

\* The two sides of a protected demand, groomed or new, stand on sections that
\* no single failure takes together: no section is in both, and at node level
\* no site that both pass through.
Crosses(path) == UNION {OmsOf(work, work.ipLinks[k].lightpath) : k \in Range(path)}
Between(path, d) == (UNION {{Src[o], Dst[o]} : o \in Crosses(path)}) \ {d.src, d.dst}

ProtectedSurviveSingleFailure ==
  \A i \in DOMAIN placed :
    LET d == placed[i].demand
        s == work.services[d.id]
    IN  d.protected /\ d.basis = "physical" /\ ~ d.bestEffort =>
          /\ s.working # <<>> /\ s.protection # <<>>
          /\ Crosses(s.working) \cap Crosses(s.protection) = {}
          /\ d.level = "node" => Between(s.working, d) \cap Between(s.protection, d) = {}

\* "Never aborts": the one exception that leaves a solve is that of a run with
\* no way back; above all no minted id meets one that the model already has.
WithoutWayBack(d) ==
  LET g == LayeredGraph(work, {}, 0)
  IN  \E r \in RoutesOn(g, LegsOf(work, g), d.src, d.dst) :
        \E i \in DOMAIN r : IsNew(r[i]) /\ ~ Propagatable(r[i].oms)

AbortsForNoWayBack == [][aborted' => aborted \/ WithoutWayBack(Head(todo))]_vars

\* The working path is up and not overbooked.
Delivers(m, s) ==
  \A k \in Range(m.services[s].working) :
    LinkStatus(m, k) = "up" /\ OfferedLoad(m, k) <= Capacity(m, k)

\* The whole footprint of a path and its sites, the ROADM of its last site apart:
\* no element chain along the path names that one.
CrossedBy(m, s) ==
  LET path == m.services[s].working
  IN  (PathAssets(m, path) \ EndRoadms({SiteOf(m.services[s].dst)}))
        \cup UNION {NodesOf(m.lightpaths[m.ipLinks[k].lightpath].oms) : k \in Range(path)}

CandidateIsSound(s, avoid, c, scored) ==
  /\ c.cost.totalMargin = Cost(work).totalMargin
       + Sum(DOMAIN scored.seeds, LAMBDA id : MarginOf(scored.seeds[id]))
  /\ CongestedLinks(work) \ (Range(work.services[s].working) \cup Range(work.services[s].protection))
       \subseteq c.cost.congested
  /\ CrossedBy(scored.model, s) \cap ForbiddenAssets(avoid) = {}
  /\ c.placement.restored = Demand[s] => Delivers(scored.model, s)

PairIsSound(scored) ==
  /\ Cost(scored.model).transponders = Cost(work).transponders + 2 * Cardinality(DOMAIN scored.seeds)
  /\ Cost(scored.model).totalMargin = Cost(work).totalMargin
       + Sum(DOMAIN scored.seeds, LAMBDA id : MarginOf(scored.seeds[id]))

\* A restoration menu on the network a solve left: the cost of a candidate is
\* that network's with the margins of the new lightpaths on top and nothing
\* missing, nothing its path crosses is avoided but for the ROADM it drops at, and
\* one that restores the full rate rides links that are up and carry the working
\* paths offered to them (a groom may still take what is reserved for the
\* failover of another service).
MenuIsSound ==
  todo = <<>> /\ ~ aborted =>
    \A s \in DOMAIN work.services, avoid \in Avoids :
      \A h \in {MenuHarvest(table, work, s, avoid)} : \A menu \in {Menu(work, s, Range(h.out))} :
        /\ \A c \in menu : CandidateIsSound(s, avoid, c, Scored(work, c.placement, s))
        /\ \A pair \in PairMenu(work, s, h.out, "physical", "link", FALSE) : PairIsSound(pair)
        /\ MenuStatus(s, menu) = "solution" =>
             \A c \in FirstRestored(menu) : c.placement.restored = Demand[s]
===============================================================================
