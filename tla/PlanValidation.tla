---------------------------- MODULE PlanValidation ----------------------------
(***************************************************************************)
(* validate_plan (model/validate.py): replay a plan on a clone, recompute  *)
(* after every operation and collect typed findings at every intermediate  *)
(* state.  A finding is a pair <<type, asset>>; its detail is left out.    *)
(* Disjointness is audited on the default basis and level, physical spans. *)
(***************************************************************************)
EXTENDS IpRouting

LOCAL SX == INSTANCE SequencesExt

CONSTANTS
  Site,         \* [Routers -> Nodes], the optical node of a router
  Tolerance     \* dropped_tolerance_gbps

ASSUME ValidationAssumption == Site \in [Routers -> Nodes] /\ Tolerance \in Nat

-------------------------------------------------------------------------------
(* Findings of one state.                                                  *)

\* The carriers on slot s of section o; a path that crosses o twice counts twice.
Carriers(m, o, s) ==
  UNION {{id} \X {i \in DOMAIN m.lightpaths[id].oms : m.lightpaths[id].oms[i] = o} :
           id \in {id \in Lit(m) : m.lightpaths[id].slot = s}}

SpectrumClashFindings(m) ==
  {<<"spectrum_clash", o>> : o \in
     {o \in OMS : \E s \in Slots : Cardinality(Carriers(m, o, s)) > 1}}

ModeInfeasibleFindings(m) ==
  {<<"mode_infeasible", id>> : id \in {id \in DOMAIN m.qot : ~ ModeFeasible(m.qot[id])}}

\* Congestion, and the dropped services once their demand exceeds the tolerance.
IpFindings(m) ==
  {<<"ip_link_overload", k>> : k \in CongestedLinks(m)}
    \cup {<<"dropped_traffic", s>> : s \in
           IF DroppedDemand(m) > Tolerance THEN DroppedServices(m) ELSE {}}

\* service_oms_sequence: the sections under an IP path, in the order of its
\* links and, within a link, of its lightpath; a dangling link adds none.
ServiceOms(m, path) ==
  SX!FlattenSeq([i \in DOMAIN path |->
    IF path[i] \in DOMAIN m.ipLinks THEN m.lightpaths[m.ipLinks[path[i]].lightpath].oms
    ELSE <<>>])

\* path_basis_keys: the footprint of the path without the demand's own ROADMs.
SpanKeys(m, s, path) ==
  Footprint(ServiceOms(m, path))
    \ {Roadm[n] : n \in {Site[m.services[s].src], Site[m.services[s].dst]} \cap DOMAIN Roadm}

Protected(m) == {s \in DOMAIN m.services :
                   m.services[s].working # <<>> /\ m.services[s].protection # <<>>}

DisjointnessFindings(m) ==
  {<<"disjointness_collapse", s>> : s \in
     {s \in Protected(m) : SpanKeys(m, s, m.services[s].working)
                             \cap SpanKeys(m, s, m.services[s].protection) # {}}}

ViabilityOfPresentLinks(m) ==                  \* mutant: a removed link is skipped
  {<<"protection_not_viable", s>> : s \in
     {s \in DOMAIN m.services :
        \E k \in Range(m.services[s].protection) \cap DOMAIN m.ipLinks :
          LinkStatus(m, k) # "up" \/ Capacity(m, k) < Demand[s]}}

\* A dark link (removed, unknown or down) or a bottleneck below the demand.
ProtectionViabilityFindings(m) ==
  {<<"protection_not_viable", s>> : s \in
     {s \in DOMAIN m.services : \E k \in Range(m.services[s].protection) :
        LinkStatus(m, k) # "up" \/ Capacity(m, k) < Demand[s]}}

ProtectionOversubscriptionFindings(m) ==
  {<<"protection_oversubscribed", k>> : k \in
     {k \in DOMAIN m.ipLinks :
        /\ LinkStatus(m, k) = "up" /\ Reserved(m, k) > 0
        /\ OfferedLoad(m, k) + Reserved(m, k) > Capacity(m, k)}}

-------------------------------------------------------------------------------
(* The replay.                                                             *)

CheckedClashOnly == {"spectrum_clash"}
CheckedAll == {"spectrum_clash", "mode_infeasible", "ip_link_overload", "dropped_traffic"}

\* recompute_if_possible: a loop that raises is swallowed.
RecomputeIfPossible(m) == Recompute(m, TRUE)

\* A clashed state has no defined QoT: its other checks are skipped.
StateFindings(m) ==
  LET clashes == SpectrumClashFindings(m)
      settled == RecomputeIfPossible(m)
  IN  IF clashes # {}
      THEN [model |-> m, found |-> clashes, checked |-> CheckedClashOnly]
      ELSE [model |-> settled, checked |-> CheckedAll,
            found |-> ModeInfeasibleFindings(settled) \cup IpFindings(settled)]

EndpointFindings(m) ==
  DisjointnessFindings(m) \cup ProtectionViabilityFindings(m)
    \cup ProtectionOversubscriptionFindings(m)

\* The clone after each operation and what was found there, up to the first
\* operation that raises.  Element 0 is the clone before the plan.
Replay(m, plan) ==
  LET after[i \in 0 .. Len(plan)] ==
        IF i = 0 THEN [ok |-> TRUE, model |-> m, found |-> {}, checked |-> {}]
        ELSE LET previous == after[i - 1]
                 applied  == ApplyOp(previous.model, plan[i])
                 state    == StateFindings(applied.model)
             IN  IF ~ previous.ok THEN previous
                 ELSE IF ~ applied.ok
                 THEN [previous EXCEPT !.ok = FALSE, !.found = {<<"invalid_plan", i>>}]
                 ELSE [ok |-> TRUE, model |-> state.model,
                       found |-> state.found, checked |-> state.checked]
  IN  after

Violation(finding, at, transient) ==
  [finding |-> finding, at |-> at, transient |-> transient]

TransientIfAbsent(finding, final) ==           \* mutant: skipped means resolved
  finding \notin final.found

\* A finding is transient when the final state looked for its type and did
\* not find it.
IsTransient(finding, final) ==
  finding[1] \in final.checked /\ finding \notin final.found

\* The audit of a standing state: the empty plan.
Audit(m) ==
  LET state == StateFindings(m) IN state.found \cup EndpointFindings(state.model)

AuditsClean(m) == Audit(m) = {}

ValidateLastState(m, plan) ==                  \* mutant: final state only
  LET final == Replay(m, plan)[Len(plan)]
  IN  {Violation(f, Len(plan), FALSE) : f \in final.found \cup EndpointFindings(final.model)}

ValidateStatesOnly(m, plan) ==                 \* mutant: no endpoint audit
  UNION {{Violation(f, i, FALSE) : f \in Replay(m, plan)[i].found} : i \in 1 .. Len(plan)}

\* What the states of a replay add up to.
Report(states, plan) ==
  LET last == Len(plan)
  IN  IF ~ states[last].ok THEN {Violation(f, f[2], FALSE) : f \in states[last].found}
      ELSE (UNION {{Violation(f, i, i # last /\ IsTransient(f, states[last])) :
                      f \in states[i].found} : i \in 1 .. last})
             \cup {Violation(f, last, FALSE) : f \in EndpointFindings(states[last].model)}

\* The report of validate_plan: every violation, at its state.  (The replay is
\* bound by a set of one element: TLC then evaluates it once.)
Validate(m, plan) ==
  IF plan = <<>> THEN {Violation(f, 0, FALSE) : f \in Audit(m)}
  ELSE UNION {Report(states, plan) : states \in {Replay(m, plan)}}

\* report.ok: no violation of any kind, a transient one included.
Clean(m, plan) == Validate(m, plan) = {}

\* replay: a whole plan, without a recompute; a raise stops it.
ApplyAll(m, plan) ==
  LET after[i \in 0 .. Len(plan)] ==
        IF i = 0 THEN Applied(m)
        ELSE LET previous == after[i - 1]
             IN  IF previous.ok THEN ApplyOp(previous.model, plan[i]) ELSE previous
  IN  after[Len(plan)]
===============================================================================
