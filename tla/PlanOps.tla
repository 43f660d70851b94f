------------------------------- MODULE PlanOps -------------------------------
(***************************************************************************)
(* Plan operations (model/plan.py).  apply_op either applies an operation  *)
(* to the model in place or raises PlanError; ApplyOp returns both what it *)
(* reports and the model it leaves behind, because a raise does not undo   *)
(* the mutations made before it.                                           *)
(***************************************************************************)
EXTENDS NetworkState

CONSTANT NoLink     \* ProvisionLightpath.ip_link is None

\* The typed operations, as tagged records.  A provision binds its IP link to
\* the lightpath it lights whatever the caller wrote, so the link is its ends.
Provision(id, lp, linkId, a, z) ==
  [op |-> "provision", id |-> id, lp |-> lp, linkId |-> linkId, a |-> a, z |-> z]
ProvisionUnbound(id, lp) == Provision(id, lp, NoLink, NoLink, NoLink)
Teardown(id)             == [op |-> "teardown", id |-> id]
Reroute(id, path, which) == [op |-> "reroute", id |-> id, path |-> path, which |-> which]
SetMode(id, mode)        == [op |-> "set_mode", id |-> id, mode |-> mode]

\* Routers, modes and sides are unchecked here: apply_op is what refuses them.
IsOp(op) ==
  \/ /\ op.op = "provision"
     /\ op.id \in LightpathIds /\ op.lp \in Lightpath
     /\ op.linkId \in LinkIds \cup {NoLink}
  \/ op.op = "teardown" /\ op.id \in LightpathIds
  \/ op.op = "reroute" /\ op.id \in ServiceIds /\ op.path \in Seq(LinkIds)
  \/ op.op = "set_mode" /\ op.id \in LightpathIds

Applied(m)  == [ok |-> TRUE,  model |-> m]
PlanError(m) == [ok |-> FALSE, model |-> m]

BoundLink(op) == [a |-> op.a, z |-> op.z, lightpath |-> op.id]

LinkIdTaken(m, op) == op.linkId # NoLink /\ op.linkId \in DOMAIN m.ipLinks

\* Pre-checks of both ids, then add_lightpath, then add_ip_link.  A link that
\* add_ip_link refuses (an unknown router) raises after the lightpath was added.
ProvisionUnchecked(m, op) ==                   \* mutant: no link-id pre-check
  LET added == AddLightpath(m, op.id, op.lp)
  IN  IF ~ CanAddLightpath(m, op.id, op.lp) THEN PlanError(m)
      ELSE IF op.linkId = NoLink THEN Applied(added)
      ELSE IF CanAddIPLink(added, op.linkId, BoundLink(op))
      THEN Applied(AddIPLink(added, op.linkId, BoundLink(op)))
      ELSE PlanError(added)

ApplyProvision(m, op) ==
  LET added == AddLightpath(m, op.id, op.lp)
  IN  IF LinkIdTaken(m, op) \/ ~ CanAddLightpath(m, op.id, op.lp) THEN PlanError(m)
      ELSE IF op.linkId = NoLink THEN Applied(added)
      ELSE IF CanAddIPLink(added, op.linkId, BoundLink(op))
      THEN Applied(AddIPLink(added, op.linkId, BoundLink(op)))
      ELSE PlanError(added)

ApplyTeardown(m, op) ==
  IF op.id \in Lit(m) THEN Applied(RemoveLightpath(m, op.id)) ELSE PlanError(m)

ApplyReroute(m, op) ==
  IF ~ CanSetPath(m, op.id, op.path) THEN PlanError(m)
  ELSE IF op.which = "working" THEN Applied(SetWorkingPath(m, op.id, op.path))
  ELSE IF op.which = "protection" THEN Applied(SetProtectionPath(m, op.id, op.path))
  ELSE PlanError(m)

ApplySetMode(m, op) ==
  IF op.id \in Lit(m) /\ op.mode \in Modes
  THEN Applied(SetLightpathMode(m, op.id, op.mode))
  ELSE PlanError(m)

ApplyOp(m, op) ==
  CASE op.op = "provision" -> ApplyProvision(m, op)
    [] op.op = "teardown"  -> ApplyTeardown(m, op)
    [] op.op = "reroute"   -> ApplyReroute(m, op)
    [] op.op = "set_mode"  -> ApplySetMode(m, op)
===============================================================================
