------------------------------ MODULE GatedWrite ------------------------------
(***************************************************************************)
(* What the write path promises about ground truth, without saying how:    *)
(* besides what happens to the network itself, store.current() changes     *)
(* only by some of the operations of a plan that validated clean on the    *)
(* very state it is applied to, in plan order, followed by one recompute.  *)
(* What validating, applying and recomputing mean is left to parameters.   *)
(***************************************************************************)
EXTENDS Integers, Sequences

CONSTANTS
  InitialModels,             \* models a commit may find
  Plans,                     \* plans callers submit
  FailSets,                  \* sets of assets that fail together
  Clean(_, _),               \* validating a plan on a model reports nothing
  ApplyOp(_, _),             \* the .model one operation leaves behind
  RecomputeIfPossible(_),    \* the recompute that ends a commit
  Failed(_, _), Repaired(_)  \* what the network itself does to a model

VARIABLE truth

Init == truth \in InitialModels

\* The model after the operations of plan at the positions in kept, in plan
\* order, and one recompute.
Land(m, plan, kept) ==
  LET after[i \in 0 .. Len(plan)] ==
        IF i = 0 THEN m
        ELSE IF i \in kept THEN ApplyOp(after[i - 1], plan[i]).model
        ELSE after[i - 1]
  IN  RecomputeIfPossible(after[Len(plan)])

\* A commit that leaves ground truth as it was is a stuttering step.
Commit ==
  /\ truth' # truth
  /\ \E plan \in Plans :
       /\ \E kept \in SUBSET (1 .. Len(plan)) : truth' = Land(truth, plan, kept)
       /\ Clean(truth, plan)

\* A failure with its recompute, or a repair of everything with its recompute.
Disturb ==
  \/ \E S \in FailSets : truth' = Failed(truth, S)
  \/ truth' = Repaired(truth)

Next == Commit \/ Disturb

Spec == Init /\ [][Next]_truth
===============================================================================
