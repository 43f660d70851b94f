------------------------------ MODULE CommitPlan ------------------------------
(***************************************************************************)
(* commit_plan and reconcile (model/commit.py): the gated write path from  *)
(* a submitted plan to ground truth.  A live commit validates on a clone,  *)
(* records the intended end state as a snapshot, then hands the operations *)
(* one by one to an actuator that may decline or raise, and recomputes.    *)
(* The actuator is the caller's: it sees the model between operations.     *)
(***************************************************************************)
EXTENDS PlanValidation

CONSTANTS
  InitialModels,   \* models a commit may find
  Plans,           \* plans callers submit
  FailSets,        \* sets of assets that fail together
  ActuatorMayFail, \* whether the actuator can decline an operation
  MaxSnapshots,    \* the cap of the snapshot store
  IdBound          \* bound of the model: snapshots ever stored

ASSUME CommitAssumption ==
  /\ \A m \in InitialModels : Coherent(m)
  /\ \A plan \in Plans : plan \in Seq(Range(plan)) /\ \A op \in Range(plan) : IsOp(op)
  /\ FailSets \subseteq SUBSET Failable
  /\ ActuatorMayFail \in BOOLEAN
  /\ MaxSnapshots \in Nat \ {0} /\ IdBound \in Nat

VARIABLES
  model,       \* store.current(): ground truth
  snapshots,   \* the stored end states, oldest first: [id, model] records
  nextId,      \* the id the next put() draws
  commit,      \* the live commit under way, or NoCommit
  result       \* the last CommitResult, until ground truth next changes

vars == <<model, snapshots, nextId, commit, result>>

\* No call of commit_plan is under way: a value that is no commit record.
NoCommit == EmptyMap

Result(status, failed, id) == [status |-> status, failed |-> failed, id |-> id]
NoResult == Result("none", 0, 0)

Init ==
  /\ model \in InitialModels
  /\ snapshots = <<>> /\ nextId = 1
  /\ commit = NoCommit /\ result = NoResult

Idle == commit = NoCommit

-------------------------------------------------------------------------------
(* Helpers.                                                                *)

StoredIds == {snapshots[i].id : i \in DOMAIN snapshots}
Snapshot(id) == (CHOOSE s \in Range(snapshots) : s.id = id).model

\* store.put on a store nobody branched from: append, evict the oldest.
PutSnapshot(m) ==
  LET stored == Append(snapshots, [id |-> nextId, model |-> m])
  IN  /\ nextId <= IdBound
      /\ snapshots' = IF Len(stored) > MaxSnapshots THEN Tail(stored) ELSE stored
      /\ nextId' = nextId + 1

\* diff_models compares every registry but not the order of the lightpaths.
Registries(m) == [m EXCEPT !.before = {}]

\* reconcile: an evicted snapshot is itself reported as drift.
InSync(id) ==
  /\ id \in StoredIds
  /\ Registries(model) = Registries(Snapshot(id))

ApprovedUnvalidated(plan) == TRUE              \* mutant: only confirm is asked

\* The gate of the live path.
Approved(plan) == Clean(model, plan)

IntendedUnsettled(plan) ==                     \* mutant: recompute on one side
  ApplyAll(model, plan).model

\* The end state recorded before anything is actuated.
Intended(plan) == RecomputeIfPossible(ApplyAll(model, plan).model)

-------------------------------------------------------------------------------
(* commit_plan.                                                            *)

DryRun(plan) ==
  /\ Idle
  /\ result' = Result(IF ApplyAll(model, plan).ok THEN "dry_run" ELSE "rejected", 0, 0)
  /\ UNCHANGED <<model, snapshots, nextId, commit>>

Reject ==
  /\ result' = Result("rejected", 0, 0)
  /\ UNCHANGED <<model, snapshots, nextId, commit>>

AskApproval ==
  /\ result' = Result("requires_approval", 0, 0)
  /\ UNCHANGED <<model, snapshots, nextId, commit>>

Begin(plan) ==
  /\ PutSnapshot(Intended(plan))
  /\ commit' = [plan |-> plan, done |-> 0, failed |-> 0, id |-> nextId, before |-> model]
  /\ result' = NoResult
  /\ UNCHANGED model

\* The live path: a clean plan waits for confirm or starts.
Submit(plan) ==
  /\ Idle
  /\ IF Approved(plan) THEN AskApproval \/ Begin(plan) ELSE Reject

\* One turn of actuate(): the operation is applied, raises, or is declined.
ApplyNext ==
  /\ ~ Idle /\ commit.done < Len(commit.plan)
  /\ LET applied == ApplyOp(model, commit.plan[commit.done + 1])
     IN  /\ model' = applied.model
         /\ commit' = [commit EXCEPT !.done = @ + 1,
                                     !.failed = IF applied.ok THEN @ ELSE @ + 1]
  /\ UNCHANGED <<snapshots, nextId, result>>

DeclineNext ==
  /\ ActuatorMayFail
  /\ ~ Idle /\ commit.done < Len(commit.plan)
  /\ commit' = [commit EXCEPT !.done = @ + 1, !.failed = @ + 1]
  /\ UNCHANGED <<model, snapshots, nextId, result>>

FinishUnmeasured ==                            \* mutant: the last recompute is left out
  /\ ~ Idle /\ commit.done = Len(commit.plan)
  /\ result' = Result(IF commit.failed = 0 THEN "committed" ELSE "committed_with_failures",
                      commit.failed, commit.id)
  /\ commit' = NoCommit
  /\ UNCHANGED <<model, snapshots, nextId>>

Finish ==
  /\ ~ Idle /\ commit.done = Len(commit.plan)
  /\ model' = RecomputeIfPossible(model)
  /\ result' = Result(IF commit.failed = 0 THEN "committed" ELSE "committed_with_failures",
                      commit.failed, commit.id)
  /\ commit' = NoCommit
  /\ UNCHANGED <<snapshots, nextId>>

-------------------------------------------------------------------------------
(* Between commits.                                                        *)

\* inject_failure, and clear_failed of everything, each with its settle.
Failed(m, S) == Recompute(InjectFailure(m, S), FALSE)
Repaired(m)  == Recompute(ClearFailed(m, {}), FALSE)

\* Another caller stores current(); enough of that evicts an intended state.
OtherPut ==
  /\ Idle /\ PutSnapshot(model)
  /\ UNCHANGED <<model, commit, result>>

Fail(S) ==
  /\ Idle
  /\ model' = Failed(model, S)
  /\ result' = NoResult
  /\ UNCHANGED <<snapshots, nextId, commit>>

Repair ==
  /\ Idle
  /\ model' = Repaired(model)
  /\ result' = NoResult
  /\ UNCHANGED <<snapshots, nextId, commit>>

Next ==
  \/ \E plan \in Plans : DryRun(plan) \/ Submit(plan)
  \/ ApplyNext \/ DeclineNext \/ Finish
  \/ OtherPut
  \/ \E S \in FailSets : Fail(S)
  \/ Repair

Spec == Init /\ [][Next]_vars

\* actuate is a loop over the plan inside one call: each turn ends, with the
\* operation applied, raised or declined, as long as the actuator returns.
FairSpec == Spec /\ WF_vars(ApplyNext \/ DeclineNext \/ Finish)

-------------------------------------------------------------------------------
(* Properties.                                                             *)

\* Ground truth changes as GatedWrite says: what happens between the gate and
\* the last recompute is one atomic write of operations of a clean plan.
Gate == INSTANCE GatedWrite WITH truth <- IF Idle THEN model ELSE commit.before
GroundTruthGated == Gate!Spec

\* Make-before-break reaches the live model: as long as no operation of a
\* clean plan has failed, traffic beyond the tolerance is never dropped while
\* the plan is half way, although nothing is recomputed in between.
NoDropWhileActuating ==
  ~ Idle /\ commit.done > 0 /\ commit.failed = 0 => DroppedDemand(model) <= Tolerance

\* A plan that validated clean and landed in full leaves a model that audits
\* clean: the clone validate_plan judged is the model commit_plan built.
CommittedAuditsClean == result.status = "committed" => AuditsClean(model)

\* "never raises" out of a commit under way: it comes to a verdict, whichever
\* operations were declined or raised, and leaves ground truth measured: a
\* recompute right then would change nothing.
CommitsSettle ==
  ~ Idle ~> /\ Idle
            /\ result.status \in {"committed", "committed_with_failures"}
            /\ model = RecomputeIfPossible(model)

\* A commit that landed in full reconciles, unless its snapshot is gone.
DriftIsExplained ==
  result.status = "committed" /\ result.id \in StoredIds => InSync(result.id)

\* "whether the earlier finding still holds there": no violation reported as
\* transient holds at the final state, whichever checks were skipped there.
TransientIsResolved ==
  Idle => \A plan \in Plans : \A v \in Validate(model, plan) :
    v.transient =>
      LET final == RecomputeIfPossible(ApplyAll(model, plan).model)
      IN  v.finding \notin SpectrumClashFindings(final) \cup ModeInfeasibleFindings(final)
                             \cup IpFindings(final)

\* 1:1 admission: "the reservation holds under any single-or-simultaneous
\* failover": whatever sections fail, a model that audited clean carries its
\* traffic without congesting a link that is still up.
FailoverNeverCongests ==
  LET settled == RecomputeIfPossible(model)
      lit     == UNION {OmsOf(model, id) : id \in Lit(model)}
  IN  Idle /\ AuditsClean(model) =>
        \A cut \in SUBSET lit : CongestedLinks(InjectFailure(settled, cut)) = {}

\* "Disjointness says the two won't fail together": no single failure, other
\* than of the demand's own ROADMs, drops a protected service of a model that
\* audited clean.
SurvivesSingleFailure ==
  LET settled == RecomputeIfPossible(model)
      own(s)  == {Roadm[n] : n \in {Site[model.services[s].src], Site[model.services[s].dst]}
                                     \cap DOMAIN Roadm}
  IN  Idle /\ AuditsClean(model) =>
        \A s \in Protected(model), a \in Failable :
          a \notin own(s) => s \notin DroppedServices(InjectFailure(settled, {a}))
===============================================================================
