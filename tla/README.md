# Formal model of multilayer-optical-network

TLA+ modules, TLC runs and TLAPS proofs for the program under `src/`: a model of
an IP-over-optical network, the simulations run on it (QoT propagation through
GNPy, failures, degradations), the plans that change it and the gated path by
which a plan reaches ground truth. File names below are relative to
`src/src/multilayer_optical_network/`.

The program is a library: single-threaded, sequential, called by tools. Its hard
behaviours are therefore not interleavings of threads but **histories of legal
calls**: derived state (QoT) kept next to the state it is derived from and dropped
by hand; loops that stop half way and whose exception is swallowed; plans judged
on one object and applied to another; objects handed out by reference; bounded
stores that forget what a caller still names. The model is built around these.

## 1. Inventory

| Part (files) | State | Operations | What makes it correct |
|---|---|---|---|
| Optical model (`model/optical_network.py`, `assets.py`, `qot.py`) | lightpaths in insertion order, recorded QoT, failed assets, impairments; a topology built once | add, remove and retune a lightpath, NF and loss deltas, mark and clear failures, clone, freeze | a recorded margin is what propagating now returns; a `-inf` sentinel stands only where something failed is crossed; only neighbours that share a section lose their record |
| IP layer (`model/network.py`, `ip_assets.py`) | IP links bound to lightpaths, services with working and protection paths | add and remove a link, add a service, set its paths, remove a lightpath with its links | no link rides a lightpath that is gone; a present path connects its routers; dangling entries are allowed and mean "removed" |
| QoT recompute (`gnpy_adapter/adapter.py`, `composition.py`, `loading.py`, `translate.py`) | none of its own besides caches | full and incremental recompute under a loading, compute, harvest, compose | failure before trust in a record; incremental = full; what an exception leaves behind |
| What-if (`model/whatif.py`, `scenario.py`) | none | inject failure, inject degradation, settle, sensitivity sweeps | injections leave the model as if the calls had been made one by one |
| Plan operations (`model/plan.py`) | none | provision, teardown, reroute, set mode; replay | an operation that raises leaves nothing behind |
| IP routing (`model/ip_routing.py`) | none | link status, active path, offered, reserved and active load, congestion | 1:1 failover counted once, at the right place |
| Validation (`model/validate.py`, `exposure.py`) | a clone | replay with a recompute after each operation, typed findings per state, endpoint audit, transient tag | a clean report means a safe plan, at every intermediate state and after any later single failure |
| Commit and reconcile (`model/commit.py`) | ground truth, the intended state | dry run, gates, actuation op by op, last recompute, diff | ground truth moves only by operations of a clean plan; drift is explained |
| Snapshot store (`model/snapshots.py`) | current object, stored frozen objects, their ids and ages | put, create, restore, branch, get, reap | no aliasing, immutability, cap and TTL without losing the active branch |
| Spectrum (`model/spectrum.py`, `bands.py`) | none (masks derived) | occupancy, first fit, feasibility | lowest free slot on every section |
| Routing and wavelength assignment (`model/allocation.py` `solve_rsa`, `solvers.py`, `exposure.py`) | a run-local spectrum, an increment table | routes and disjoint pairs under avoid-sets and caps, first fit, mode choice | no slot is given twice, refusals leave nothing, accepted modes hold, legs fail apart, "exhaustive" is a proof |
| Allocation and objective (`model/allocation.py` `_pack`, `objective.py`, `placement_common.py`) | a packing clone, inventory, seeds | place demands, re-seed QoT, mint ids, verify, score a menu | exact values are not overwritten by seeds, inventory is counted once, shortfalls are declared, a score is the candidate's |
| Layered graph and menus (`model/multilayer_graph.py`, `multilayer_disjoint.py`, `route_service.py`, `restoration.py`) | none | slot classes, residual capacity, placements by weight under two budgets, disjoint placements, ranked menus | a groomed lightpath is not overbooked in silence; two placements stand on different sections |
| Result store and caches (`model/qot_results.py`, `synthesize.py`) | bounded maps with ages, a process-wide network with ratcheted gains | put, get, reap; build or reuse a network | a hit equals a recomputation; a reused network starts at its design gains |
| State file (`state_file.py`) | a JSON file | dump, two-pass load | load after dump gives the same model, or says why not |
| Importers, CLI, traffic, formatting | none kept | parsing at start | out of scope: they only build the topology constants |

The parts meet in one object. `commit_plan` reads `SnapshotStore.current()`,
`validate_plan` clones it, both call `apply_op`, which calls the mutators of the two
layers; every state is followed (or not) by `recompute_qot_under_loading`, which
writes QoT back, and IP routing reads capacities off that QoT.

`solve_allocation` packs a clone with the same `apply_op`; its probes, the menus and the
recompute all reach GNPy through one set of caches shared by every branch of a session.

`PROJECT.json` lists each component with its status and the hazards at their lines.

## 2. Modules

| Module | Models | Correspondence |
|---|---|---|
| `NetworkState` | the model object as a value, with each mutator an operator from a model to the model it leaves | a record `lightpaths, before, qot, ipLinks, services, failed, impair` for the `dict`/`set` registries; `before` is the insertion order `list_lightpaths()` iterates. A call is a guard (`CanAddLightpath`, ...) and a result (`AddLightpath`, ...). `clone()` is assignment |
| `PlanOps` | `apply_op` | returns `[ok, model]`: what raised, and what it left behind |
| `NetworkModel` | one live object and every call on it | one action per call; `RecomputeIfPossibleStep`, `SettleStep`, `ClearFailedStep` are the incremental and full recomputes and the repair |
| `StateFile` | `dump_state` and `load_state` | the file is the record of four registries; `LoadState` applies the mutators record by record, in two passes for lightpaths |
| `SnapshotStore` | the store over a heap of references | `heap` has the content and the frozen flag of each object; an action is one public method, with the reap and eviction it starts with or ends in |
| `IpRouting` | link status, failover, loads | pure operators on a model |
| `Exposure` | `path_basis_keys`, endpoint exclusions, `split_shared_keys`, asset sets | keys are tagged ids, per basis and level |
| `PlanValidation` | `validate_plan` | `Replay` is the loop over clones, `Report` the list of violations |
| `GatedWrite` | abstract: what the write path promises about ground truth | ground truth changes by a failure or repair, or by some operations of a plan that is clean *on it*, in order, then one recompute |
| `CommitPlan` | `commit_plan`, `actuate`, `reconcile` | one action per operation handed to the actuator, so ground truth is visible half way |
| `Spectrum` | occupancy, first fit, reservations, wavelength layers | a slot mask is a set of slots per section |
| `Routing` | avoid-sets, enumeration of routes with its three caps, disjoint pairs | sequences of sections in the order the code yields them |
| `Probe` | the GSNR a solver reads and the modes it accepts | exact or composed, by `CanCompose`; the table of increments is the set of sections it covers |
| `Rsa` | `solve_rsa` | one step answers one demand: `Place`, `Refuse` or `Raise` |
| `LayeredGraph` | `build_layered_graph`, `place_demands`, `disjoint_placements` | a path of the auxiliary graph is a sequence of legs, reused or new; ports are a condition on its runs |
| `Candidate` | `apply_candidate`, `verify_and_reseed`, scores and menus | the provisioning loop as a fold of `ApplyOp`, so a refused operation is seen |
| `Allocation` | `_pack`, the core of `solve_allocation` | one step answers one demand on the clone: `Place`, `Refuse` or `Abort` |
| `QotCache` | the caches between a question and GNPy, the result store, the synthesized networks | `env` holds all of them; a result is the record of what it was computed from |
| `NetworkStateProofs` | lemmas about the mutators, the recompute, `apply_op`, sums, loads and link status | what each call keeps and changes, and what a cut or a recompute does to loads and drops, for any model; used by most of the others |
| `RoutingProofs` | lemmas about the search for routes and pairs | what the sorted, capped enumerations of `Routing` contain |
| `NetworkModelProofs`, `CommitPlanProofs`, `SnapshotStoreProofs`, `RsaProofs`, `AllocationProofs`, `QotCacheProofs` | theorems | section 4 |
| `MCNetworkModel`, `MCSnapshotStore`, `MCCommitPlan`, `MCRsa`, `MCAllocation`, `MCQotCache` | instances for TLC | |

    NetworkState -> PlanOps -> NetworkModel -> StateFile
                 -> IpRouting -> Probe (with Spectrum) -> Rsa (with Routing)
                                                      -> LayeredGraph (with Routing)
                                                         -> Candidate (with PlanOps) -> Allocation
    PlanOps, IpRouting, Exposure -> PlanValidation -> CommitPlan
    NetworkState -> QotCache

The operators on a model are shared, so what is proved of a mutator in `NetworkModel`
is about the mutator that `CommitPlan` actuates and `Allocation` packs with.
`CommitPlan` instantiates `GatedWrite` with
`truth <- IF Idle THEN model ELSE commit.before`.

### Abstractions

- **QoT.** GNPy is not in `src/`. In `NetworkModel` and `CommitPlan` a measurement is
  the record of what propagation read: the mode, the channels lit next to it and the
  impairments of the assets it crossed forward and backward. Two measurements are
  equal iff GNPy was asked the same question, which is what freshness and
  invalidation can get wrong. Whether its margin is >= 0 is the constant operator
  `MarginOk`. In `Rsa` and `Allocation` numbers matter: `Gsnr` and `ComposedGsnr` are
  constant operators to the integers, and the instance gives small ones whose
  difference is the composition error. In `QotCache` a result is again what it was
  computed from, gains included.
- **Topology.** Sections, element chains and ROADMs are constants: they are imported
  once. `TopologyAssumption` is what the importer guarantees; `CommitAssumption`
  says that a commit finds a well-formed model and plans of typed operations.
- **Spectrum.** A frequency is a slot or `OffGrid` (any frequency `slot_of` rejects).
  `GridChecked` says whether the model carries a grid; no constructor under `src/`
  outside the tests passes one, so the runs leave it `FALSE`.
- **Raises.** A call refused by its checks is no step. A call that raises after
  changing something is a step (`InjectDegradation`, `ApplyProvision`, `Recompute`,
  `Fail` in `QotCache`), and so is an exception that ends a solve.
- **Order.** networkx leaves routes of equal weight to its queue; `NodeRank` and a
  `CHOOSE` stand for that. Demands come in the order of their weights.
- **Calls.** Inputs come from small sets in the MC modules (`LightpathSpecs`,
  `Plans`, `DemandLists`, ...), chosen so that every branch is taken.
- **Sentinels** blame the least crossed failed id; `Rank` is the lexical order.
- **Ids** of snapshots and results are drawn in increasing order instead of `uuid4`:
  only freshness and insertion order matter. Minted lightpath ids are records of the
  template's parts, so that a collision is the one the code's template would have.

## 3. Runs

| Run | Question | Instance and why it is enough |
|---|---|---|
| `optical_model` | Does any history of optical calls leave stale QoT, an unjustified sentinel, or an incremental recompute that differs from the full one? Does invalidation reach exactly the neighbours? | three lightpaths on a chain of which some share a section and some do not (a neighbour, a neighbour's neighbour, a bystander), two modes, an amplifier and a fibre that degrade, failures of one asset and of two at once; one lightpath may be off the grid or have no way back, so a recompute aborts *between* two others. Impairment levels stop at `MaxImpairment` = 1 |
| `ip_model` | Do links, paths and plans stay coupled to lightpaths, and does the state file bring any of it back? | two lightpaths, two links, one service, teardown and re-add in every order, plan operations refused at each check, and one asset under the first section that fails and is repaired, so that a state file can carry a sentinel |
| `snapshot_store` | Does the store ever lose, alias or edit a snapshot? | cap 2, TTL 1, four ids, one reference held by callers (`FewHeld`): enough for an eviction with and without an active branch and for an expiry between two calls |
| `commit_plan` | Does ground truth move only as `GatedWrite` says? Does a clean plan land safely, and does every commit end? | ring of three sites, two starting networks, twelve plans (make-before-break and its reverse order, mode changes, reroutes that break reservation or disjointness, clashes, an unpropagatable path, the empty plan), an actuator that may decline any operation, failures, repairs and other snapshots with cap 1 and at most `IdBound` = 2 snapshots |
| `commit_audit` | What does an audited network promise? | the same ring, no declined operations, 3 snapshots ever; every set of simultaneous section cuts and every single failure is tried in every state |
| `rsa` | Can `solve_rsa` give a slot twice, leak a reservation, accept a mode that will not hold, or call an unfinished search exhaustive? | five sites with parallel sections whose order by length does not follow their conduits, one-way sections, groups across routes; demands protected on each basis, at node level and over avoided assets, SRLGs and risk groups; every order of three demands out of ten over four networks (empty, lit, half lit, cut); two slots, so the grid fills; caps of 2, 3 and 8, so each one cuts |
| `allocation` | What does a packing promise about inventory, slots, records, loads, disjointness and the menus scored on it? | ring of four sites and a spur without a way back, routers at all but one site; every opener, demand and closer out of nine over an empty network, one with survivors to groom onto and one with a lightpath an earlier run minted; a demand above any residual, so shortfalls happen; spares that run out; menus that avoid nothing, the ROADM of a site that services pass, start and end at, or a risk group |
| `qot_cache` | Can a cache, a reused network or a composed value answer for another physical path? | two branches of different margin, three sections of which one has no way back, one of them degradable on one branch; caches of one or two entries, so every one evicts; one tick past the TTL |
| `half_applied_op`, `shared_site`, `pack_slot_clash`, `groomed_down` | counterexamples to what a comment or a docstring says | section 5 |

Every property of a passing run has a mutant in `PROJECT.json`: a plausible bug
(a dropped guard, a wrong set, a missing reset) that TLC must catch. The mutated
operators stand in the modules, marked `\* mutant`.

**Fairness.** `FairSpec` of `CommitPlan` is the only specification with fairness.
`actuate` is a loop inside one synchronous call: once a commit has started, each turn
applies, fails or declines one operation and the call ends in `Finish`, provided the
caller's actuator returns. That is `WF_vars(ApplyNext \/ DeclineNext \/ Finish)`, and
`CommitsSettle` says that the commit then comes to a verdict and leaves ground truth
measured. Nothing else in the code schedules calls: the caller decides when to
recompute, repair or reconcile, so no other fairness is justified. What a single call
must achieve is stated as such (`RecomputeSettles`, `OnlyMissingIsEnough`). Deadlock
is checked in the runs of the network and the commits; the stores' bounded ids and
clock run out, and a solve stops when its demands are answered.

### Properties worth reading first

- `QotFresh`, `OnlyMissingIsEnough` (NetworkModel): hand-written invalidation is
  complete for every history, aborted recomputes included; this is the claim
  `recompute_if_possible` makes in prose.
- `NeverResurrected`, `SentinelJustified`, `RecomputeSettles`: failures and QoT never
  disagree, up to the drop ROADM that element chains omit.
- `ServicePathsContiguous`: holds as long as a link id keeps its ends. Removing a link
  and adding the same id between other routers makes a path written earlier present
  again without connecting; `add_ip_link` does not re-check services. The link
  specifications of the run have one pair of routers per id.
- `ReloadRestores` (StateFile): a dump from any reachable model loads to the same
  registries, exactly when no service path dangles. A service whose path names a
  link torn down meanwhile is legal in the model, and its file is refused as a whole.
- `GroundTruthGated` (CommitPlan): the refinement. The gate is evaluated on the state
  the plan lands on, and losing operations loses nothing else.
- `NoDropWhileActuating`: validation recomputes after each operation, the live model
  does not; make-before-break must hold on the live one too.
- `FailoverNeverCongests`, `SurvivesSingleFailure`: what `PROTECTION_OVERSUBSCRIBED`
  and `DISJOINTNESS_COLLAPSE` are *for*, checked by injecting the failures instead of
  recomputing the findings.
- `TransientIsResolved`: a finding tagged transient is really gone, also when the
  final state clashes and skips the other checks.
- `AcceptedModesHold` (Rsa): a mode chosen early in a solve, on a composed value, still
  meets its threshold under everything lit at the end.
- `IndependentLegs`, `ExhaustiveIsProof` (Rsa): the keys on every basis and level mean
  what a failure would do, and the exhaustiveness flag is compared with all routes.
- `ExactRecords`, `DownIsReported`, `OverloadIsDeclared` (Allocation): what the packer's
  replay of seeds and its verify pass leave, demand after demand.
- `MenuIsSound` (Allocation): the cost of a candidate is the network's plus its own,
  although scoring it drops its neighbours' records on the way; what it crosses, taken by
  its whole footprint and not by the sets the graph prunes with, keeps off the avoid-set.
- `AnswerIsExact` (QotCache): in every state, *every possible next question* gets what a
  fresh propagation on its own branch would return.

## 4. Proofs

TLAPS checks these for every value of the constants that satisfies the named
assumptions (any topology, any number of lightpaths, links, services, any inputs).
`PROJECT.json` lists the theorems; here is how they hang together.

### NetworkState and NetworkModel

The inductive invariant is `Coherent` (in `NetworkState`, because three modules use it):

    Coherent(m) == IsModel(m) /\ LinksRideLit(m) /\ QotInv(m)

where `QotInv` says that every record is fresh (`FreshQot`), every sentinel justified
(`Justified`) and every measured lightpath one that the recompute can propagate
(`Resolvable`). The last part is the strengthening: without it the incremental
recompute could skip, because it is present, a lightpath on which the full one
would stop, and `OnlyMissingIsEnough` would not be inductive. Each mutator has a
lemma `...Inv` (it preserves `Coherent`); they rest on `SetField` (a model is determined
by its fields), `PropagateReads` (propagation reads only the lightpaths that share a
section, and impairments) and `QotCarries` (a record kept by a mutator that
invalidates stays fresh). `TypeCorrectness`, `LinksStayBound`, `QotStaysFresh`,
`SentinelsStayJustified` and `IncrementalRecomputeIsFull` follow.

Besides, every mutator is shown to be `Relit`: it leaves the set of lightpaths alone
(`Steady`), or adds or removes exactly one (`Lights`, `Darkens`) and says whose records go
with it. `CutPathsStayDown`, `BystandersKeepTheirQot` and `LightpathsAreWalks` are read off
that; `RecomputesSettle` needs the last, because only along a walk does the footprint
name every site that is visited.

Two theorems have a hypothesis about callers, because the code does not check it.
`FailedOpsAreAtomic` assumes `PlansNameRouters` (plans name routers that exist); section 5
has the run without. `ServicePathsStayContiguous` assumes `StableEnds` (a link id comes
back between the same two routers); its invariant is about the links that callers
know, present or not: `Connected`.

`DumpsReload` is about the state file and needs `StableEnds` too, because `add_service`
checks contiguity again on load. The loop over the lightpaths of the file keeps "what has been
added so far is what the file has, in any order, and nothing of it was refused"; adding drops
the records of neighbours, and the second pass puts every record back at once. That the
file is refused *exactly* when a service path dangles is the same proof read backwards.

### CommitPlan

`CommitInv` is the invariant of the write path. While a commit is under way it keeps the
*history* of the live model: `Progress` says that there is a sequence of models from the
gate to now in which each operation of the plan either landed or did not, `UnderWay` that
the snapshot under the commit's id, if it is still stored, is the plan's end state, and
`Landed` that after a commit without a loss it is ground truth. It yields

- `GroundTruthIsGated`, the refinement: `Submit`, `ApplyNext` and `DeclineNext` stutter,
  `Finish` is one `Commit` of `GatedWrite` with the positions that landed. `GatedWrite`
  takes what validating, applying and recomputing mean as parameters, so the proof is
  about the write path only;
- `DriftStaysExplained`;
- `TransientFindingsAreResolved`, `CommittedPlansAuditClean`, `CleanPlansDropNothing`, which compare
  two replays of one plan: validation recomputes its clone after every operation, the live
  model is recomputed once, at the end. The relation between the two is `Near`
  (`NetworkStateProofs`): they differ at most in records that a recompute writes anyway.
  Every operation of `apply_op` keeps it (`ApplyOpNear`; none of them reads a record) and an
  incremental recompute erases it (`NearSettles`). It fails for one kind of plan, a carrier off the grid
  in a model without one, since a recompute that raises stops half way; hence the hypothesis
  `PlansOnGrid`, which `add_lightpath` enforces when the model carries a grid;
- `CleanPlansDropNothing` and `FailoverIsAdmitted` are about loads. `NetworkStateProofs` shows
  that a sum over a finite set takes its members in any order (`TotalTakes`), that fewer
  dropped services drop no more demand (`LessDropped`), that a missing record keeps a link up
  (`UnsettledCarries`), that a cut only lowers capacity and usability (`CutOnlyLowers`), and
  that after any cut a link that is still up carries what was offered to it plus
  at most what was reserved on it (`CutFits`): 1:1 admission is exactly that sum. They assume
  finitely many services.

The sums, histories and walks are recursive functions. That they exist, and what they compute,
is shown by the smallest position at which it would fail (`SumExists`, `SameSum`, `OneHistory`,
`OneReplay`, `FollowsExists`, `WalksExist`), since the library's induction theorems cannot be instantiated.

### SnapshotStore

`IInv` is the conjunction of `TypeOK`, `CurrentIdRetained`,
`WithinCap`, `NoAliasing` and `CurrentMutable`: inductive as it stands, because
eviction keeps the cap only if the store was within it and there is another entry to
evict than the active branch, and freshness of an allocated reference needs the heap
to hold every root. `TypeOK`, `WithinCap` and `CurrentMutable` are proved and no run
spends its time on them. `SnapshotsStayImmutable` and `OldestEvictedFirst` are action
properties from `IInv`; `ReturnedIdIsStored` needs `MaxSnapshots # 1` (section 5).

### Rsa

`IInv` is `Accounted`: the spectrum is what the model and the assignments
light, no two assignments are one channel (`Distinct`), and each is dark in the model
with a mode that its probe found feasible (`DarkIn`). `SearchGood` says that the legs
a search returns are free on the spectrum they were searched on, the second leg of a
pair on the one with the first in it; `PlaceKeeps` adds such legs. Nothing less is
inductive: that a new leg meets no earlier one is read off the spectrum, so the
spectrum must be accounted for. `SpectrumIsAccounted` and `SlotsNeverClash` follow.
`AcceptedModesKeepHolding` takes as explicit hypotheses that GSNR does not grow with
the comb, that a composition is within `CompositionBound` of the exact value and that
this bound is within the design margin (`SoundMargins`); the code has the two numbers
(0.23 and a default of 0.5 dB) and no check that relates them. The route search stays
opaque in all of these: they hold for whatever it returns.

What it returns is the other half. `RInv` says of every leg that its route is an allowed one
between the ends of its demand, and of every protection leg that the leg before it is the
working leg of the same demand and shares no key with it (`Paired`). `PlacementsStayAvoiding`
and `LegsStayIndependent` follow by reading the keys back (`ApartIs`). Below them,
`RoutingProofs` climbs the enumeration of `Routing`:

- the walks, a recursive function over lengths, exist and are walks (`WalksExist`, `WalksAre`);
  the routes over a node path are those whose sites it lists (`NodeSetIs`, `AlongRoutes`);
- `SortedBy` lists its set, each member once, when any two keys part at some position
  (`SortListed`): the lexical order is then total (`LexTotal`), so the places of the members fill `1 .. n` (`PlacesFill`).
  Every sort of the enumeration has such keys: parallels by length and rank, choices of
  a parallel per hop by the choices themselves, node paths by the ranks of their sites;
- the round robin with its share and sweeps offers every position once (`OfferedListed`), and
  a list shorter than its cap was not cut (`EmittedIs`, `RoutesOverIs`);
- the scan over pairs keeps one with the fewest shared keys (`FirstPairIs`, `PickPairIs`), so it
  answers "none" only when every pair shares something.

`DisjointPathsAre` puts these together, in both directions; the second, that nothing is
missed when the search calls itself exhaustive, is `ExhaustiveStaysProof`. They assume
finitely many sites, sections and assets (`RoutesAssumption`).

### Allocation

`AInv` is the invariant of a solve, one demand at a time:

    AInv == Solving /\ Kept /\ Served /\ Counted

- `Solving`: the clone is a model with finitely many lightpaths, each over sections;
- `Kept`: every lightpath that the solve lit has a remembered record, which stands on the
  clone now and is worth what a placement says (`Trusted`). The second half is the
  strengthening: `ExactRecords` alone is not inductive, since adding the next lightpath
  drops the records of neighbours, and only a seed that equals what was dropped can bring it back;
- `Served`: the service of everything that landed is still there, with links under both its paths;
- `Counted`: what is left of each site's spares is what there was less one for each end of
  each new run that landed, over both legs of a pair.

`AInvHolds` proves it. The step goes from the inside out. `Slots` and `Probes`: the first fit
is free on every section of its run, and a mode it accepts holds at the value it was judged at.
`Placements` and `Answers`: whatever a harvest, the capacity filter or the disjoint pair returns
is made of such legs (`LegsFit`, `AllFit`), so an answer that is found `Serves` its demand.
`Provisioning` and `Landing`: the operations of a candidate light exactly its runs, under ids that
the model did not have, and leave every other lightpath, link and service (`Landed`,
`LandedOn`), whatever they do to records. `InventoryConserved`, `ExactRecords` and `DownIsReported`
are then read off the invariant (`Conserved`, `RecordsExact`, `DownReported`); the third
also assumes that a measured margin of at least zero counts as feasible (`MarginSign`) and that
GSNR, thresholds and margins are integers (`Decibels`).

All of these assume `Starts` (the models a solve is given have finitely many lightpaths, over sections)
and `Queues` (lists of demands are lists), both true of every state the program can be in.
`SlotsNeverClash` has three more hypotheses. `NoneMeet`: the model a solve is
given has no clash, which nothing in the code checks before a solve. `SectionsApart`: no ROADM is a section.
`Divided`: a protected demand asks for a physical or union basis and a hard pair. Without it
the theorem is false, which `pack_slot_clash` shows; the proof says where: it is the
physical keys that tell the two legs of a pair apart, and nothing else does.

`ProtectedSurvive` has an invariant of its own beside `AInv`, `AllSheltered`: the two paths
of every protected demand of the kind the property is about *ride* (`Over`) two placements whose keys
are disjoint, that is, each link of a path is on a lightpath that crosses only sections of its
placement. It comes in three parts.
- Whatever links stitching picks, each stands for one leg (`Wired`, `StitchIs`, `MaterializeIs`): for a
  reused lightpath a link of the model, for a new run the link added with it. A build
  adds both under ids that were not there, so neither can stand for anything else
  (`CandidateBuilt`, `RidesOver`).
- A demand that lands adds to the clone and writes one service, its own, twice: once without and
  once with its protection (`LandIs`, `RerouteIs`). The services of demands that landed before, and the links
  and lightpaths under them, are what they were (`ServiceAdded`, `StillSheltered`, `PlaceSheltered`).
- Disjoint keys mean disjoint sections (`KeysApart`) and, at node level, disjoint sites.

Besides `SectionsApart` it assumes `LinksNamed`, that `None` is no id that a template mints,
and that the ends of a demand are at different routers: `Stitch` answers an empty path between
a router and itself, and the demand lands with nothing under it.

### QotCache

`IInv` says that every entry is the value of its own key, computed at
design gains. A key must therefore determine its value: `ComputeExact`,
`HarvestIsExact` and `ComposeIsExact` show, one kind of question each, that what is
answered and what is written are functions of the key alone; `CapturedIsExact` that
increments are named by the sections walked and not by those asked for;
`NetworksAreIrrelevant` that the drift of a network matters nowhere until it is built
again, which restores it (`BuiltAtDesign`). `AnswersAreExact` follows.

`AnswersAreKept` has an invariant of its own, `StoreInv`: what is stored was issued. So the id a
put draws is newer than all others, and eviction, which takes one entry that has older ones than
two to spare (`RoomForTwo`), reaches neither it nor the id of the put before it (`PutKeeps`).

### Only model-checked

- Liveness (`CommitsSettle`), which is out of this prover's reach.
- `SurvivesSingleFailure`: false without the restriction on inputs of section 5
  (`shared_site`), and with it about which ROADMs a concatenation of walks visits.
- `OverloadIsDeclared` needs that a groom reads the same residual a link has when
  the demand lands, through the links of all lightpaths that ride it; `MenuIsSound` adds scores
  over menus of any length; `AbortsForNoWayBack` needs that a template's ids never meet.

## 5. What the model disagrees about

1. `half_applied_op`: a provision whose link names an unknown router raises after its
   lightpath was added; `actuate` promises a failed op leaves the model unchanged.
2. `shared_site`: the disjointness audit misses a ROADM between two links of a path when
   a lightpath runs against the path: the sections of all links are concatenated and
   only the last one's drop ROADM is added.
3. `pack_slot_clash`: the packer chooses both legs of a protected demand on one reading
   of the spectrum. On a group basis, or on a best-effort one, they may cross one
   section, and both then take its lowest free slot.
4. `groomed_down`: a new run next to a lightpath of the model drops that lightpath's
   record, and the packer puts back only records of its own; a demand groomed onto the
   survivor before then rides a link whose status is unknown.

The other runs avoid them by their inputs (known routers, lightpaths lit along the
path, pairs on the physical basis), so that the remaining behaviour is checked.

Smaller ones, met while modelling and not given a run:

- After repairing one of two failed assets on a path the sentinel can name the repaired
  one: `clear_failed` keeps `limiting_element`.
- With `max_snapshots=1`, `create()` after a branch returns the id of a snapshot it has
  just evicted.
- A plan that lights an off-grid carrier validates clean and commits, but the one live
  recompute raises before the carrier's neighbours get the QoT that the per-operation
  recomputes of validation had measured.
- Avoiding a ROADM (in `solve_rsa`, failing one too) does not prune the sections that *end* there, in either search:
  `forbidden_oms` and `build_layered_graph` go by `oms_seq_asset_set`, which leaves out
  the drop ROADM (`optical_network.py:449-450`). A service that ends at the site is
  offered a path over the avoided ROADM, one that starts there is offered none, although
  naming a ROADM is said to prune "every OMS through it" (`solvers.py:21-23`) and the
  graph "any lightpath crossing them" (`multilayer_graph.py:224-225`). Sites passed on the
  way are safe: the next section's chain names their ROADM. `PlacementsAvoid` and
  `MenuIsSound` except the drop ROADM at the end of a path and nothing else; without the
  exception `MenuIsSound` fails in the `allocation` run. The layered graph does not read
  the failed assets either.
- A harvest that stopped early because a candidate restores the full rate can still hand
  out an earlier, degraded one as its first.
- Grooming counts working load only; capacity reserved for somebody's protection can be
  taken (`objective.py:623` says protection is reserved 1:1). `MenuIsSound` and
  `OverloadIsDeclared` count offered load for that reason.
- With one maximal slot class the layered graph loses routes that visit a port twice
  (`multilayer_graph.py:161-165`).
- Over parallel or one-way sections `reverse_oms_sequence` raises inside a solve whose
  docstring says it never aborts (`allocation.py:604-606`); `AbortsForNoWayBack` says
  that this is the only way it does.
- A recompute of more than 256 lightpaths stores more than the 512 results the store
  keeps, so the first ids it returns are already gone; `AnswerIsKept` is about one call
  and assumes room for two results.

## 6. Not modelled

- Floating-point propagation and composition (GNPy, the dB arithmetic of
  `composition.py`), building GNPy's equipment and topology files, and the penalty
  arithmetic: out of TLC's reach; their results are constants with assumptions.
- Importers, the topology loader, the CLI, traffic files, mode registries, JSON and
  views: they parse or format once and keep no state a later call depends on.
- The topology editors: they run while a topology is built, which is a constant here.
- The sensitivity sweeps, `isolate_element_contribution` and the mode-feasibility views:
  numbers computed on clones.
- Of the objective the weighted scalar and the order of a menu by it; of the pair search
  the pairs after the first; levers and the wording of result records.
- `_RAW_PATH_CAP`, a guard against draining a generator, and the groom-only policy,
  which nothing under `src/` asks for.
- In `QotCache` two sections of equal parameters share a fingerprint, as in the code;
  increments are not keyed by mode, which is sound only while all modes have one symbol
  rate and spacing, as the registry's have, so `Modes` is a single one there.

What could follow: proofs about loads and menus of `Allocation`, and its
refinement to a one-demand specification; the audit of `PlanValidation` on the other bases.
