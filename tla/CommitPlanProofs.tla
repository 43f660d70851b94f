---------------------------- MODULE CommitPlanProofs ----------------------------
(***************************************************************************)
(* Proofs about CommitPlan for every network, every set of plans and every *)
(* actuator.                                                               *)
(***************************************************************************)
EXTENDS CommitPlan, NetworkStateProofs

-------------------------------------------------------------------------------
(* Histories of a commit, as functions of the operations behind it.        *)

\* g[i] is the model after operation i, when those in kept landed.
Actuates(g, m, plan, kept, n) ==
  /\ g = [i \in 0 .. n |-> g[i]] /\ g[0] = m
  /\ \A i \in 1 .. n : g[i] = IF i \in kept THEN ApplyOp(g[i - 1], plan[i]).model ELSE g[i - 1]

\* A history is determined by its start: of two that differ, look at the first
\* operation after which they do.
LEMMA OneHistory ==
  ASSUME NEW g, NEW h, NEW m, NEW plan, NEW kept, NEW n \in Nat,
         Actuates(g, m, plan, kept, n), Actuates(h, m, plan, kept, n)
  PROVE  g = h
<1> DEFINE T == {i \in 0 .. n : g[i] # h[i]}
<1>1. CASE T = {}
  BY <1>1 DEF Actuates
<1>2. CASE T # {}
  <2>1. T \in SUBSET Nat
    OBVIOUS
  <2>2. PICK i \in T : \A k \in T : i <= k
    BY <1>2, <2>1, LeastIn
  <2>3. i \in Nat /\ i # 0 /\ i \in 1 .. n /\ i - 1 \in 0 .. n
    BY <2>2 DEF Actuates
  <2>4. i - 1 \notin T
    BY <2>2, <2>3
  <2>5. g[i - 1] = h[i - 1]
    BY <2>3, <2>4
  <2> QED BY <2>2, <2>3, <2>5 DEF Actuates
<1> QED BY <1>1, <1>2

\* Landing is the end of such a history, and one recompute.
LEMMA LandIs ==
  ASSUME NEW g, NEW m, NEW plan, Len(plan) \in Nat, NEW kept,
         Actuates(g, m, plan, kept, Len(plan))
  PROVE  Gate!Land(m, plan, kept) = RecomputeIfPossible(g[Len(plan)])
<1> DEFINE n == Len(plan)
           F(f) == [i \in 0 .. n |->
                      IF i = 0 THEN m
                      ELSE IF i \in kept THEN ApplyOp(f[i - 1], plan[i]).model
                      ELSE f[i - 1]]
           after == CHOOSE f : f = F(f)
<1>1. Gate!Land(m, plan, kept) = RecomputeIfPossible(after[n])
  BY DEF Gate!Land
<1>2. g = F(g)
  <2>1. g = [i \in 0 .. n |-> g[i]]
    BY DEF Actuates
  <2>2. ASSUME NEW i \in 0 .. n
        PROVE  g[i] = IF i = 0 THEN m
                      ELSE IF i \in kept THEN ApplyOp(g[i - 1], plan[i]).model
                      ELSE g[i - 1]
    <3>1. i = 0 \/ i \in 1 .. n
      OBVIOUS
    <3> QED BY <3>1 DEF Actuates
  <2> QED BY <2>1, <2>2, Zenon
<1>3. after = F(after)
  BY <1>2
<1> HIDE DEF after
<1>4. Actuates(after, m, plan, kept, n)
  BY <1>3 DEF Actuates
<1>5. after = g
  BY <1>4, OneHistory
<1> QED BY <1>1, <1>5

\* What apply_op reports is the outcome and the model, for every operation.
LEMMA ApplyOpShape ==
  ASSUME NEW m, NEW op, IsOp(op)
  PROVE  /\ ApplyOp(m, op) = [ok |-> ApplyOp(m, op).ok, model |-> ApplyOp(m, op).model]
         /\ ApplyOp(m, op).ok \in BOOLEAN
<1> DEFINE Reply(r) == \E n : r = Applied(n) \/ r = PlanError(n)
<1>1. Reply(ApplyProvision(m, op)) /\ Reply(ApplyTeardown(m, op))
      /\ Reply(ApplyReroute(m, op)) /\ Reply(ApplySetMode(m, op))
  BY Zenon DEF ApplyProvision, ApplyTeardown, ApplyReroute, ApplySetMode
<1>2. Reply(ApplyOp(m, op))
  BY <1>1 DEF ApplyOp, IsOp
<1>3. ASSUME NEW r, Reply(r)
      PROVE  r = [ok |-> r.ok, model |-> r.model] /\ r.ok \in BOOLEAN
  <2>1. PICK n : r = [ok |-> TRUE, model |-> n] \/ r = [ok |-> FALSE, model |-> n]
    BY <1>3, Zenon DEF Applied, PlanError
  <2>2. ASSUME NEW b \in BOOLEAN, r = [ok |-> b, model |-> n]
        PROVE  r.ok = b /\ r.model = n
    BY <2>2
  <2>3. ASSUME NEW b \in BOOLEAN, r = [ok |-> b, model |-> n]
        PROVE  r = [ok |-> r.ok, model |-> r.model] /\ r.ok \in BOOLEAN
    BY <2>2, <2>3, Zenon
  <2> QED BY <2>1, <2>3, Zenon
<1> DEFINE r == ApplyOp(m, op)
<1>4. Reply(r)
  BY <1>2
<1> HIDE DEF r, Reply
<1>5. r = [ok |-> r.ok, model |-> r.model] /\ r.ok \in BOOLEAN
  BY <1>3, <1>4
<1> QED BY <1>5 DEF r

\* h[i] is what replay reports of the plan up to operation i.
Replays(h, m, plan, n) ==
  /\ h = [i \in 0 .. n |-> h[i]] /\ h[0] = Applied(m)
  /\ \A i \in 1 .. n : h[i] = IF h[i - 1].ok THEN ApplyOp(h[i - 1].model, plan[i]) ELSE h[i - 1]

LEMMA OneReplay ==
  ASSUME NEW g, NEW h, NEW m, NEW plan, NEW n \in Nat,
         Replays(g, m, plan, n), Replays(h, m, plan, n)
  PROVE  g = h
<1> DEFINE T == {i \in 0 .. n : g[i] # h[i]}
<1>1. CASE T = {}
  BY <1>1 DEF Replays
<1>2. CASE T # {}
  <2>1. T \in SUBSET Nat
    OBVIOUS
  <2>2. PICK i \in T : \A k \in T : i <= k
    BY <1>2, <2>1, LeastIn
  <2>3. i \in Nat /\ i # 0 /\ i \in 1 .. n /\ i - 1 \in 0 .. n
    BY <2>2 DEF Replays
  <2>4. i - 1 \notin T
    BY <2>2, <2>3
  <2>5. g[i - 1] = h[i - 1]
    BY <2>3, <2>4
  <2> QED BY <2>2, <2>3, <2>5 DEF Replays
<1> QED BY <1>1, <1>2

\* replay returns the end of such a history.
LEMMA ApplyAllIs ==
  ASSUME NEW h, NEW m, NEW plan, Len(plan) \in Nat, Replays(h, m, plan, Len(plan))
  PROVE  ApplyAll(m, plan) = h[Len(plan)]
<1> DEFINE n == Len(plan)
           F(f) == [i \in 0 .. n |->
                      IF i = 0 THEN Applied(m)
                      ELSE IF f[i - 1].ok THEN ApplyOp(f[i - 1].model, plan[i]) ELSE f[i - 1]]
           after == CHOOSE f : f = F(f)
<1>1. ApplyAll(m, plan) = after[n]
  BY DEF ApplyAll
<1>2. h = F(h)
  <2>1. h = [i \in 0 .. n |-> h[i]]
    BY DEF Replays
  <2>2. ASSUME NEW i \in 0 .. n
        PROVE  h[i] = IF i = 0 THEN Applied(m)
                      ELSE IF h[i - 1].ok THEN ApplyOp(h[i - 1].model, plan[i])
                      ELSE h[i - 1]
    <3>1. i = 0 \/ i \in 1 .. n
      OBVIOUS
    <3> QED BY <3>1 DEF Replays
  <2> QED BY <2>1, <2>2, Zenon
<1>3. after = F(after)
  BY <1>2
<1> HIDE DEF after
<1>4. Replays(after, m, plan, n)
  <2>1. after = [i \in 0 .. n |-> after[i]]
    BY <1>3
  <2>2. ASSUME NEW i \in 0 .. n
        PROVE  after[i] = IF i = 0 THEN Applied(m)
                          ELSE IF after[i - 1].ok THEN ApplyOp(after[i - 1].model, plan[i])
                          ELSE after[i - 1]
    BY <1>3, Zenon
  <2>3. ASSUME NEW i \in 1 .. n
        PROVE  i \in 0 .. n /\ i # 0
    OBVIOUS
  <2>4. 0 \in 0 .. n
    OBVIOUS
  <2> QED BY <2>1, <2>2, <2>3, <2>4, Zenon DEF Replays
<1>5. after = h
  BY <1>4, OneReplay
<1> QED BY <1>1, <1>5

\* No operation of the history raised.
NoneRaised(g, plan, n) == \A i \in 1 .. n : ApplyOp(g[i - 1], plan[i]).ok

\* Plans are sequences of operations.
LEMMA PlanShape ==
  ASSUME NEW plan \in Plans
  PROVE  Len(plan) \in Nat /\ DOMAIN plan = 1 .. Len(plan)
         /\ \A i \in 1 .. Len(plan) : IsOp(plan[i])
<1> DEFINE S == Range(plan)
<1>1. plan \in Seq(S) /\ \A op \in S : IsOp(op)
  BY CommitAssumption, Zenon
<1> HIDE DEF S
<1>2. Len(plan) \in Nat /\ DOMAIN plan = 1 .. Len(plan)
      /\ \A i \in 1 .. Len(plan) : plan[i] \in S
  BY <1>1
<1> QED BY <1>1, <1>2

\* A plan whose every operation landed is the plan replayed.
LEMMA FullHistory ==
  ASSUME NEW m, NEW plan \in Plans, NEW g,
         Actuates(g, m, plan, 1 .. Len(plan), Len(plan)), NoneRaised(g, plan, Len(plan))
  PROVE  ApplyAll(m, plan) = Applied(g[Len(plan)])
<1> DEFINE n == Len(plan)
           h == [i \in 0 .. n |-> Applied(g[i])]
<1>1. n \in Nat /\ \A i \in 1 .. n : IsOp(plan[i])
  BY PlanShape
<1> HIDE DEF n
<1>2. h[0] = Applied(m)
  BY <1>1 DEF Actuates
<1>3. ASSUME NEW i \in 1 .. n
      PROVE  h[i] = IF h[i - 1].ok THEN ApplyOp(h[i - 1].model, plan[i]) ELSE h[i - 1]
  <2>1. i - 1 \in 0 .. n /\ i \in 0 .. n
    BY <1>1
  <2>2. h[i - 1] = Applied(g[i - 1]) /\ h[i] = Applied(g[i])
    BY <2>1
  <2>3. /\ g[i] = ApplyOp(g[i - 1], plan[i]).model
        /\ ApplyOp(g[i - 1], plan[i]).ok
    BY DEF Actuates, NoneRaised, n
  <2>4. ApplyOp(g[i - 1], plan[i]) =
          [ok |-> ApplyOp(g[i - 1], plan[i]).ok, model |-> ApplyOp(g[i - 1], plan[i]).model]
        /\ ApplyOp(g[i - 1], plan[i]).ok = TRUE
    BY <1>1, <2>3, ApplyOpShape
  <2>5. ApplyOp(g[i - 1], plan[i]) = Applied(g[i])
    BY <2>3, <2>4, Zenon DEF Applied
  <2> HIDE DEF h
  <2> QED BY <2>2, <2>5 DEF Applied
<1>4. Replays(h, m, plan, n)
  <2>1. h = [i \in 0 .. n |-> h[i]]
    OBVIOUS
  <2> HIDE DEF h
  <2> QED BY <1>2, <1>3, <2>1 DEF Replays
<1>5. ApplyAll(m, plan) = h[n]
  <2> HIDE DEF h
  <2> QED BY <1>1, <1>4, ApplyAllIs DEF n
<1> QED BY <1>1, <1>5 DEF n

-------------------------------------------------------------------------------
(* The inductive invariant.                                                *)

\* Every id of the store was drawn before next.
IsStore(store, next) ==
  /\ \E S : store \in Seq(S)
  /\ next \in Nat \ {0}
  /\ \A i \in DOMAIN store : store[i].id \in Nat /\ store[i].id < next

\* As long as id is in the store, it names m.
Names(store, id, m) == \A i \in DOMAIN store : store[i].id = id => store[i].model = m

\* A live commit c that has come to m: what landed so far is part of a plan
\* that was clean where the commit began, and all of it if nothing failed.
Progress(c, m) ==
  /\ c = [plan |-> c.plan, done |-> c.done, failed |-> c.failed, id |-> c.id,
          before |-> c.before]
  /\ c.plan \in Plans /\ Coherent(c.before) /\ Clean(c.before, c.plan)
  /\ c.done \in 0 .. Len(c.plan) /\ c.failed \in Nat
  /\ \E kept \in SUBSET (1 .. c.done) : \E g :
       /\ Actuates(g, c.before, c.plan, kept, c.done) /\ g[c.done] = m
       /\ c.failed = 0 => kept = 1 .. c.done /\ NoneRaised(g, c.plan, c.done)

\* What Intended(plan) was on m.
Target(m, plan) == RecomputeIfPossible(ApplyAll(m, plan).model)

\* A live commit with its recorded end state.
UnderWay ==
  /\ Progress(commit, model)
  /\ commit.id \in Nat /\ commit.id < nextId
  /\ Names(snapshots, commit.id, Target(commit.before, commit.plan))
  /\ result = NoResult

\* The last commit landed in full, and its end state is ground truth.
Landed ==
  /\ result.id \in Nat /\ result.id < nextId
  /\ Names(snapshots, result.id, model)

CommitInv ==
  /\ Coherent(model) /\ IsStore(snapshots, nextId)
  /\ ~ Idle => UnderWay
  /\ result.status = "committed" => Landed

\* put stores one more entry under a new id, and may evict another.
LEMMA PutKeeps ==
  ASSUME NEW m, IsStore(snapshots, nextId), PutSnapshot(m)
  PROVE  /\ IsStore(snapshots', nextId') /\ nextId < nextId'
         /\ Names(snapshots', nextId, m)
         /\ \A id, n : id \in Nat /\ id < nextId /\ Names(snapshots, id, n) => Names(snapshots', id, n)
<1> DEFINE e == [id |-> nextId, model |-> m]
           stored == Append(snapshots, e)
<1>1. PICK S : snapshots \in Seq(S)
  BY DEF IsStore
<1>2. /\ nextId' = nextId + 1 /\ nextId \in Nat \ {0}
      /\ snapshots' = stored \/ (stored # <<>> /\ snapshots' = Tail(stored))
  <2>1. Len(stored) > MaxSnapshots => stored # <<>>
    BY <1>1, CommitAssumption
  <2> QED BY <2>1 DEF PutSnapshot, IsStore
<1>3. e.id = nextId /\ e.model = m
  OBVIOUS
<1> HIDE DEF e
<1> DEFINE T == S \cup {e}
<1>4. snapshots \in Seq(T) /\ e \in T
  BY <1>1
<1> HIDE DEF T
<1>5. /\ stored \in Seq(T) /\ Len(stored) = Len(snapshots) + 1
      /\ \A i \in 1 .. Len(stored) : stored[i] = e \/ (i \in 1 .. Len(snapshots) /\ stored[i] = snapshots[i])
  BY <1>4
<1>6. /\ snapshots' \in Seq(T)
      /\ \A i \in DOMAIN snapshots' :
           snapshots'[i] = e \/ \E j \in DOMAIN snapshots : snapshots'[i] = snapshots[j]
  <2>1. DOMAIN snapshots = 1 .. Len(snapshots) /\ DOMAIN stored = 1 .. Len(stored)
    BY <1>4, <1>5
  <2> HIDE DEF stored
  <2>2. CASE snapshots' = stored
    BY <1>5, <2>1, <2>2
  <2>3. CASE stored # <<>> /\ snapshots' = Tail(stored)
    <3>1. /\ snapshots' \in Seq(T) /\ DOMAIN snapshots' = 1 .. Len(stored) - 1
          /\ \A i \in 1 .. Len(stored) - 1 : snapshots'[i] = stored[i + 1]
      BY <1>5, <2>3
    <3>2. Len(stored) \in Nat
      BY <1>5
    <3>3. \A i \in 1 .. Len(stored) - 1 : i + 1 \in 1 .. Len(stored)
      BY <3>2
    <3> QED BY <1>5, <2>1, <3>1, <3>3
  <2> QED BY <1>2, <2>2, <2>3
<1>7. IsStore(snapshots', nextId')
  <2>1. ASSUME NEW i \in DOMAIN snapshots'
        PROVE  snapshots'[i].id \in Nat /\ snapshots'[i].id < nextId'
    BY <1>2, <1>3, <1>6 DEF IsStore
  <2>2. \E U : snapshots' \in Seq(U)
    BY <1>6
  <2>3. nextId' \in Nat \ {0}
    BY <1>2
  <2> QED BY <2>1, <2>2, <2>3 DEF IsStore
<1>8. Names(snapshots', nextId, m)
  BY <1>2, <1>3, <1>6 DEF IsStore, Names
<1>9. ASSUME NEW id \in Nat, NEW n, id < nextId, Names(snapshots, id, n)
      PROVE  Names(snapshots', id, n)
  BY <1>2, <1>3, <1>6, <1>9 DEF Names
<1> QED BY <1>2, <1>7, <1>8, <1>9

\* A commit under way is no NoCommit.
LEMMA NotIdle ==
  ASSUME NEW c, c = [plan |-> c.plan, done |-> c.done, failed |-> c.failed, id |-> c.id,
                     before |-> c.before]
  PROVE  c # NoCommit
<1>1. "plan" \in DOMAIN c
  OBVIOUS
<1>2. "plan" \notin DOMAIN NoCommit
  BY DEF NoCommit, EmptyMap
<1> QED BY <1>1, <1>2, Zenon

\* The history grows by one operation.
LEMMA OneMore ==
  ASSUME NEW g, NEW m, NEW plan, NEW kept, NEW n \in Nat, Actuates(g, m, plan, kept, n),
         NEW keeps, \A i \in 1 .. n : i \in keeps <=> i \in kept,
         NEW after,
         after = IF n + 1 \in keeps THEN ApplyOp(g[n], plan[n + 1]).model ELSE g[n]
  PROVE  \E h : /\ Actuates(h, m, plan, keeps, n + 1)
                /\ h[n + 1] = after /\ \A i \in 0 .. n : h[i] = g[i]
<1> DEFINE h == [i \in 0 .. n + 1 |-> IF i = n + 1 THEN after ELSE g[i]]
<1>1. h = [i \in 0 .. n + 1 |-> h[i]] /\ h[n + 1] = after /\ \A i \in 0 .. n : h[i] = g[i]
  OBVIOUS
<1> HIDE DEF h
<1>2. h[0] = m
  BY <1>1 DEF Actuates
<1>3. ASSUME NEW i \in 1 .. n + 1
      PROVE  h[i] = IF i \in keeps THEN ApplyOp(h[i - 1], plan[i]).model ELSE h[i - 1]
  <2>1. CASE i = n + 1
    <3>1. i - 1 = n /\ n \in 0 .. n
      BY <2>1
    <3>2. h[n] = g[n] /\ h[n + 1] = after
      BY <1>1, <3>1
    <3> QED BY <2>1, <3>1, <3>2
  <2>2. CASE i \in 1 .. n
    <3>1. i - 1 \in 0 .. n /\ i \in 0 .. n
      BY <2>2
    <3>2. h[i - 1] = g[i - 1] /\ h[i] = g[i]
      BY <1>1, <3>1
    <3> QED BY <2>2, <3>2 DEF Actuates
  <2> QED BY <2>1, <2>2
<1>4. Actuates(h, m, plan, keeps, n + 1)
  BY <1>1, <1>2, <1>3 DEF Actuates
<1> QED BY <1>1, <1>4

\* Actuating one operation, whatever became of it, is progress.
LEMMA ActuatedOne ==
  ASSUME NEW c, NEW m, Progress(c, m), c.done < Len(c.plan), NEW d, NEW n,
         NEW applied, applied = ApplyOp(m, c.plan[c.done + 1]), NEW failed,
         \/ n = applied.model /\ failed = IF applied.ok THEN c.failed ELSE c.failed + 1
         \/ n = m /\ failed = c.failed + 1,
         d = [plan |-> c.plan, done |-> c.done + 1, failed |-> failed, id |-> c.id,
              before |-> c.before]
  PROVE  /\ Progress(d, n)
         /\ Coherent(m) => Coherent(n)
         /\ d.id = c.id /\ d.before = c.before /\ d.plan = c.plan
<1> DEFINE done == c.done
           lands == n = applied.model /\ failed = IF applied.ok THEN c.failed ELSE c.failed + 1
<1>1. /\ d = [plan |-> c.plan, done |-> done + 1, failed |-> failed, id |-> c.id, before |-> c.before]
      /\ c.plan \in Plans /\ Coherent(c.before) /\ Clean(c.before, c.plan)
      /\ done \in 0 .. Len(c.plan) /\ done \in Nat /\ c.failed \in Nat
  <2>4. /\ c.plan \in Plans /\ Coherent(c.before) /\ Clean(c.before, c.plan)
        /\ done \in 0 .. Len(c.plan) /\ c.failed \in Nat
    BY DEF Progress
  <2>5. done \in Nat
    BY <2>4, PlanShape
  <2> QED BY <2>4, <2>5
<1>0. PICK kept \in SUBSET (1 .. done) : \E g :
        /\ Actuates(g, c.before, c.plan, kept, done) /\ g[done] = m
        /\ c.failed = 0 => kept = 1 .. done /\ NoneRaised(g, c.plan, done)
  BY DEF Progress
<1>2. PICK g :
        /\ Actuates(g, c.before, c.plan, kept, done) /\ g[done] = m
        /\ c.failed = 0 => kept = 1 .. done /\ NoneRaised(g, c.plan, done)
  BY <1>0
<1>3. /\ d.plan = c.plan /\ d.done = done + 1 /\ d.failed = failed /\ d.id = c.id
      /\ d.before = c.before
      /\ d = [plan |-> d.plan, done |-> d.done, failed |-> d.failed, id |-> d.id,
              before |-> d.before]
  BY <1>1
<1>4. done + 1 \in 1 .. Len(c.plan) /\ IsOp(c.plan[done + 1])
  BY <1>1, PlanShape
<1>5. Coherent(m) => Coherent(n)
  BY <1>4, ApplyOpInv
<1> DEFINE keeps == IF lands THEN kept \cup {done + 1} ELSE kept
<1>6. PICK h : /\ Actuates(h, c.before, c.plan, keeps, done + 1)
               /\ h[done + 1] = n /\ \A i \in 0 .. done : h[i] = g[i]
  <2>1. /\ \A i \in 1 .. done : i \in keeps <=> i \in kept
        /\ done + 1 \in keeps <=> lands
    BY <1>1
  <2>2. done \in Nat /\ Actuates(g, c.before, c.plan, kept, done) /\ g[done] = m
    BY <1>1, <1>2
  <2> HIDE DEF done, keeps
  <2>3. n = IF done + 1 \in keeps THEN ApplyOp(g[done], c.plan[done + 1]).model ELSE g[done]
    BY <2>1, <2>2 DEF done
  <2> QED BY <2>1, <2>2, <2>3, OneMore
<1>7. failed \in Nat
  BY <1>1
<1>8. ASSUME failed = 0
      PROVE  keeps = 1 .. done + 1 /\ NoneRaised(h, c.plan, done + 1)
  <2>1. lands /\ applied.ok /\ c.failed = 0
    BY <1>1, <1>8
  <2>2. kept = 1 .. done /\ NoneRaised(g, c.plan, done)
    BY <1>2, <2>1
  <2>3. keeps = 1 .. done + 1
    BY <1>1, <2>1, <2>2
  <2>4. ASSUME NEW i \in 1 .. done + 1
        PROVE  ApplyOp(h[i - 1], c.plan[i]).ok
    <3>1. CASE i = done + 1
      <4>1. h[i - 1] = m
        BY <1>1, <1>2, <1>6, <3>1
      <4> QED BY <2>1, <3>1, <4>1
    <3>2. CASE i \in 1 .. done
      <4>1. h[i - 1] = g[i - 1]
        BY <1>1, <1>6, <3>2
      <4> QED BY <2>2, <3>2, <4>1 DEF NoneRaised
    <3> QED BY <1>1, <3>1, <3>2
  <2> QED BY <2>3, <2>4 DEF NoneRaised
<1>9. keeps \in SUBSET (1 .. done + 1)
  <2>1. keeps = kept \/ keeps = kept \cup {done + 1}
    OBVIOUS
  <2> HIDE DEF keeps, done
  <2>2. kept \subseteq 1 .. done /\ done \in Nat
    BY <1>1, <1>2
  <2>3. \A i \in 1 .. done : i \in 1 .. done + 1
    BY <2>2
  <2>4. done + 1 \in 1 .. done + 1
    BY <2>2
  <2>5. \A i \in keeps : i \in 1 .. done + 1
    BY <2>1, <2>2, <2>3, <2>4
  <2> QED BY <2>5
<1>10. Progress(d, n)
  <2> HIDE DEF keeps
  <2>1. \E kp \in SUBSET (1 .. d.done) : \E f :
          /\ Actuates(f, d.before, d.plan, kp, d.done) /\ f[d.done] = n
          /\ d.failed = 0 => kp = 1 .. d.done /\ NoneRaised(f, d.plan, d.done)
    BY <1>3, <1>6, <1>8, <1>9
  <2>2. d.done \in 0 .. Len(d.plan) /\ d.failed \in Nat
    BY <1>1, <1>3, <1>4, <1>7
  <2> QED BY <1>1, <1>3, <2>1, <2>2 DEF Progress
<1> QED BY <1>3, <1>5, <1>10

\* A live commit starts with nothing actuated.
LEMMA BeginProgress ==
  ASSUME NEW m, Coherent(m), NEW plan \in Plans, Clean(m, plan), NEW id, NEW c,
         c = [plan |-> plan, done |-> 0, failed |-> 0, id |-> id, before |-> m]
  PROVE  Progress(c, m) /\ c.id = id /\ c.before = m /\ c.plan = plan
<1>1. /\ c.plan = plan /\ c.done = 0 /\ c.failed = 0 /\ c.id = id /\ c.before = m
      /\ c = [plan |-> c.plan, done |-> c.done, failed |-> c.failed, id |-> c.id,
              before |-> c.before]
  OBVIOUS
<1> DEFINE g == [i \in 0 .. 0 |-> m]
<1>2. Actuates(g, m, plan, {}, 0) /\ g[0] = m
  BY DEF Actuates
<1> HIDE DEF g
<1>3. NoneRaised(g, plan, 0) /\ {} = 1 .. 0
  BY DEF NoneRaised
<1>4. Len(plan) \in Nat
  BY PlanShape
<1> QED BY <1>1, <1>2, <1>3, <1>4 DEF Progress

\* The last operation is behind: ground truth goes from where the commit began
\* to Land of some of the plan, and of all of it when nothing failed.
LEMMA FinishLands ==
  ASSUME NEW c, NEW m, Progress(c, m), c.done = Len(c.plan)
  PROVE  /\ \E kept \in SUBSET (1 .. Len(c.plan)) :
              RecomputeIfPossible(m) = Gate!Land(c.before, c.plan, kept)
         /\ c.failed = 0 => RecomputeIfPossible(m) = Target(c.before, c.plan)
<1>1. c.plan \in Plans /\ Len(c.plan) \in Nat
  BY PlanShape DEF Progress
<1>5. PICK kept \in SUBSET (1 .. Len(c.plan)) : \E g :
        /\ Actuates(g, c.before, c.plan, kept, Len(c.plan)) /\ g[Len(c.plan)] = m
        /\ c.failed = 0 => kept = 1 .. Len(c.plan) /\ NoneRaised(g, c.plan, Len(c.plan))
  BY DEF Progress
<1>2. PICK g :
        /\ Actuates(g, c.before, c.plan, kept, Len(c.plan)) /\ g[Len(c.plan)] = m
        /\ c.failed = 0 => kept = 1 .. Len(c.plan) /\ NoneRaised(g, c.plan, Len(c.plan))
  BY <1>5
<1>3. RecomputeIfPossible(m) = Gate!Land(c.before, c.plan, kept)
  BY <1>1, <1>2, LandIs
<1>4. ASSUME c.failed = 0
      PROVE  RecomputeIfPossible(m) = Target(c.before, c.plan)
  <2>1. ApplyAll(c.before, c.plan) = Applied(m)
    BY <1>1, <1>2, <1>4, FullHistory
  <2>2. Applied(m).model = m
    BY DEF Applied
  <2> QED BY <2>1, <2>2, Zenon DEF Target
<1> QED BY <1>3, <1>4

-------------------------------------------------------------------------------
(* The invariant and its theorems.                                         *)

\* What ends a commit, and what happens to the network, keeps coherence.
LEMMA SettlingInv ==
  ASSUME NEW m, Coherent(m)
  PROVE  /\ Coherent(RecomputeIfPossible(m)) /\ Coherent(Repaired(m))
         /\ \A S \in FailSets : Coherent(Failed(m, S))
<1>1. Coherent(RecomputeIfPossible(m))
  BY RecomputeInv DEF RecomputeIfPossible
<1>2. Coherent(Repaired(m))
  BY ClearFailedInv, RecomputeInv DEF Repaired
<1>3. ASSUME NEW S \in FailSets
      PROVE  Coherent(Failed(m, S))
  <2>1. S \in SUBSET Failable
    BY CommitAssumption, Zenon
  <2> QED BY <2>1, InjectFailureInv, RecomputeInv DEF Failed
<1> QED BY <1>1, <1>2, <1>3

LEMMA CommitInit == Init => CommitInv
<1> SUFFICES ASSUME Init PROVE CommitInv
  OBVIOUS
<1>1. Coherent(model)
  BY CommitAssumption, Zenon DEF Init
<1>2. IsStore(snapshots, nextId)
  <2>1. snapshots \in Seq({}) /\ DOMAIN snapshots = {} /\ nextId = 1
    BY DEF Init
  <2> QED BY <2>1 DEF IsStore
<1>3. Idle /\ result.status # "committed"
  BY DEF Init, Idle, NoResult, Result
<1> QED BY <1>1, <1>2, <1>3 DEF CommitInv

LEMMA CommitStep == CommitInv /\ [Next]_vars => CommitInv'
<1> SUFFICES ASSUME CommitInv, [Next]_vars PROVE CommitInv'
  OBVIOUS
<1> USE DEF CommitInv
<1>1. ASSUME NEW plan \in Plans, DryRun(plan)
      PROVE  CommitInv'
  <2>1. result'.status # "committed"
    BY <1>1 DEF DryRun, Result
  <2> QED BY <1>1, <2>1 DEF DryRun, Idle
<1>2. ASSUME NEW plan \in Plans, Submit(plan)
      PROVE  CommitInv'
  <2>1. CASE Reject \/ AskApproval
    <3>1. result'.status # "committed" /\ Idle
      BY <1>2, <2>1 DEF Submit, Reject, AskApproval, Result
    <3> QED BY <2>1, <3>1 DEF Reject, AskApproval, Idle
  <2>2. CASE Approved(plan) /\ Begin(plan)
    <3>1. /\ commit' = [plan |-> plan, done |-> 0, failed |-> 0, id |-> nextId, before |-> model]
          /\ result' = NoResult /\ model' = model /\ Clean(model, plan)
          /\ PutSnapshot(Target(model, plan))
      BY <2>2 DEF Begin, Approved, Intended, Target
    <3>2. /\ Progress(commit', model) /\ commit'.id = nextId
          /\ commit'.before = model /\ commit'.plan = plan
      BY <3>1, BeginProgress
    <3>3. /\ IsStore(snapshots', nextId') /\ nextId < nextId'
          /\ Names(snapshots', nextId, Target(model, plan))
      BY <3>1, PutKeeps
    <3>4. UnderWay'
      <4>1. nextId \in Nat
        BY DEF IsStore
      <4>2. Progress(commit', model') /\ commit'.id \in Nat /\ commit'.id < nextId'
        BY <3>1, <3>2, <3>3, <4>1
      <4>3. Names(snapshots', commit'.id, Target(commit'.before, commit'.plan))
        BY <3>2, <3>3
      <4> QED BY <3>1, <4>2, <4>3 DEF UnderWay
    <3>5. result'.status # "committed"
      BY <3>1 DEF NoResult, Result
    <3> QED BY <3>1, <3>3, <3>4, <3>5
  <2> QED BY <1>2, <2>1, <2>2 DEF Submit
<1>3. ASSUME ~ Idle, commit.done < Len(commit.plan),
             UNCHANGED <<snapshots, nextId, result>>,
             NEW applied, applied = ApplyOp(model, commit.plan[commit.done + 1]), NEW failed,
             \/ /\ model' = applied.model
                /\ failed = IF applied.ok THEN commit.failed ELSE commit.failed + 1
             \/ model' = model /\ failed = commit.failed + 1,
             commit' = [commit EXCEPT !.done = commit.done + 1, !.failed = failed]
      PROVE  CommitInv'
  <2>1. UnderWay
    BY <1>3
  <2>2. /\ Progress(commit', model') /\ Coherent(model')
        /\ commit'.id = commit.id /\ commit'.before = commit.before /\ commit'.plan = commit.plan
    <3>1. Progress(commit, model)
      BY <2>1 DEF UnderWay
    <3>2. commit = [plan |-> commit.plan, done |-> commit.done, failed |-> commit.failed,
                    id |-> commit.id, before |-> commit.before]
      BY <3>1 DEF Progress
    <3>3. commit' = [plan |-> commit.plan, done |-> commit.done + 1, failed |-> failed,
                     id |-> commit.id, before |-> commit.before]
      BY <1>3, <3>2
    <3>4. /\ Progress(commit', model')
          /\ Coherent(model) => Coherent(model')
          /\ commit'.id = commit.id /\ commit'.before = commit.before /\ commit'.plan = commit.plan
      <4>1. /\ commit.done < Len(commit.plan) /\ applied = ApplyOp(model, commit.plan[commit.done + 1])
        BY <1>3
      <4>2. \/ /\ model' = applied.model
               /\ failed = IF applied.ok THEN commit.failed ELSE commit.failed + 1
            \/ model' = model /\ failed = commit.failed + 1
        BY <1>3
      <4> QED BY <3>1, <3>3, <4>1, <4>2, ActuatedOne
    <3> QED BY <3>4
  <2>3. UnderWay'
    BY <1>3, <2>1, <2>2 DEF UnderWay
  <2>4. result'.status # "committed"
    BY <1>3, <2>1 DEF UnderWay, NoResult, Result
  <2> QED BY <1>3, <2>2, <2>3, <2>4
<1>4. ASSUME ApplyNext
      PROVE  CommitInv'
  <2> DEFINE applied == ApplyOp(model, commit.plan[commit.done + 1])
             failed  == IF applied.ok THEN commit.failed ELSE commit.failed + 1
  <2>1. /\ ~ Idle /\ commit.done < Len(commit.plan)
        /\ UNCHANGED <<snapshots, nextId, result>>
        /\ model' = applied.model
        /\ commit' = [commit EXCEPT !.done = commit.done + 1, !.failed = failed]
    BY <1>4 DEF ApplyNext
  <2> QED BY <1>3, <2>1, Zenon
<1>5. ASSUME DeclineNext
      PROVE  CommitInv'
  <2>1. /\ ~ Idle /\ commit.done < Len(commit.plan)
        /\ UNCHANGED <<snapshots, nextId, result>>
        /\ model' = model
        /\ commit' = [commit EXCEPT !.done = commit.done + 1, !.failed = commit.failed + 1]
    BY <1>5 DEF DeclineNext
  <2> QED BY <1>3, <2>1, Zenon
<1>6. ASSUME Finish
      PROVE  CommitInv'
  <2>1. /\ ~ Idle /\ commit.done = Len(commit.plan) /\ UnderWay
        /\ model' = RecomputeIfPossible(model) /\ commit' = NoCommit
        /\ UNCHANGED <<snapshots, nextId>>
        /\ result'.id = commit.id
        /\ result'.status = "committed" => commit.failed = 0
    BY <1>6 DEF Finish, Result
  <2>2. Coherent(model')
    BY <2>1, SettlingInv
  <2>3. ASSUME result'.status = "committed"
        PROVE  Landed'
    <3>1. model' = Target(commit.before, commit.plan)
      BY <2>1, <2>3, FinishLands DEF UnderWay
    <3> QED BY <2>1, <3>1 DEF UnderWay, Landed
  <2> QED BY <2>1, <2>2, <2>3 DEF Idle
<1>7. ASSUME OtherPut
      PROVE  CommitInv'
  <2>1. /\ IsStore(snapshots', nextId') /\ nextId < nextId'
        /\ \A id, n : id \in Nat /\ id < nextId /\ Names(snapshots, id, n) => Names(snapshots', id, n)
    BY <1>7, PutKeeps DEF OtherPut
  <2>2. Landed => Landed'
    <3>1. nextId \in Nat /\ nextId' \in Nat
      BY <2>1 DEF IsStore
    <3> QED BY <1>7, <2>1, <3>1 DEF OtherPut, Landed
  <2> QED BY <1>7, <2>1, <2>2 DEF OtherPut, Idle
<1>8. ASSUME Repair \/ \E S \in FailSets : Fail(S)
      PROVE  CommitInv'
  <2>1. Coherent(model')
    BY <1>8, SettlingInv DEF Repair, Fail
  <2>2. result'.status # "committed"
    BY <1>8 DEF Repair, Fail, NoResult, Result
  <2> QED BY <1>8, <2>1, <2>2 DEF Repair, Fail, Idle
<1>9. CASE UNCHANGED vars
  BY <1>9 DEF vars, Idle, UnderWay, Landed
<1> QED BY <1>1, <1>2, <1>4, <1>5, <1>6, <1>7, <1>8, <1>9 DEF Next

\* Ground truth is a coherent model at every moment, half-landed plans
\* included, and a commit under way knows what it has actuated.
THEOREM CommitInvariant == Spec => []CommitInv
<1> QED BY CommitInit, CommitStep, PTL DEF Spec

\* A commit that landed in full leaves ground truth equal to the end state it
\* recorded before actuating, for as long as neither changes: reconcile has
\* nothing to report.
THEOREM DriftStaysExplained == Spec => []DriftIsExplained
<1>1. CommitInv => DriftIsExplained
  <2> SUFFICES ASSUME CommitInv, result.status = "committed", result.id \in StoredIds
               PROVE  InSync(result.id)
    BY DEF DriftIsExplained
  <2>1. PICK i \in DOMAIN snapshots : snapshots[i].id = result.id
    BY DEF StoredIds
  <2>2. Names(snapshots, result.id, model)
    BY DEF CommitInv, Landed
  <2>3. \E s \in Range(snapshots) : s.id = result.id
    BY <2>1 DEF Range
  <2>4. \A s \in Range(snapshots) : s.id = result.id => s.model = model
    BY <2>2 DEF Range, Names
  <2>5. Snapshot(result.id) = model
    BY <2>3, <2>4 DEF Snapshot
  <2> QED BY <2>5 DEF InSync
<1> QED BY <1>1, CommitInvariant, PTL

\* commit_plan implements the gate: ground truth changes by what happens to
\* the network, or by operations of a plan that validated clean on the very
\* state it was applied to, in plan order, and one recompute.
THEOREM GroundTruthIsGated == Spec => GroundTruthGated
<1> DEFINE truth == IF Idle THEN model ELSE commit.before
<1>1. Init => Gate!Init
  BY DEF Init, Idle, Gate!Init
<1>2. CommitInv /\ [Next]_vars => [Gate!Next]_truth
  <2> SUFFICES ASSUME CommitInv, [Next]_vars, truth' # truth PROVE Gate!Next
    BY DEF Gate!Next
  <2>1. ASSUME NEW plan \in Plans, Begin(plan), Idle
        PROVE  truth' = truth
    <3>1. commit' # NoCommit /\ commit'.before = model
      BY <2>1, NotIdle DEF Begin
    <3> QED BY <2>1, <3>1 DEF Idle
  <2>2. ASSUME NEW plan \in Plans, DryRun(plan) \/ Submit(plan)
        PROVE  FALSE
    BY <2>1, <2>2 DEF DryRun, Submit, Reject, AskApproval, Idle
  <2>3. ASSUME ApplyNext \/ DeclineNext
        PROVE  FALSE
    <3>1. /\ ~ Idle
          /\ \E done, failed : commit' = [commit EXCEPT !.done = done, !.failed = failed]
      BY <2>3 DEF ApplyNext, DeclineNext
    <3>2. commit = [plan |-> commit.plan, done |-> commit.done, failed |-> commit.failed,
                    id |-> commit.id, before |-> commit.before]
      BY <3>1 DEF CommitInv, UnderWay, Progress
    <3>3. /\ commit'.before = commit.before
          /\ commit' = [plan |-> commit'.plan, done |-> commit'.done, failed |-> commit'.failed,
                        id |-> commit'.id, before |-> commit'.before]
      BY <3>1, <3>2
    <3>4. commit' # NoCommit
      BY <3>3, NotIdle
    <3> QED BY <3>1, <3>3, <3>4 DEF Idle
  <2>4. ASSUME Finish
        PROVE  Gate!Commit
    <3>1. /\ ~ Idle /\ UnderWay /\ commit.done = Len(commit.plan)
          /\ commit' = NoCommit /\ model' = RecomputeIfPossible(model)
      BY <2>4 DEF Finish, CommitInv
    <3>2. truth = commit.before /\ truth' = RecomputeIfPossible(model)
      BY <3>1 DEF Idle
    <3>3. Progress(commit, model)
      BY <3>1 DEF UnderWay
    <3>4. commit.plan \in Plans /\ Clean(commit.before, commit.plan)
      BY <3>3 DEF Progress
    <3>5. \E kept \in SUBSET (1 .. Len(commit.plan)) :
            RecomputeIfPossible(model) = Gate!Land(commit.before, commit.plan, kept)
      BY <3>1, <3>3, FinishLands
    <3> QED BY <3>2, <3>4, <3>5 DEF Gate!Commit
  <2>5. ASSUME OtherPut \/ UNCHANGED vars
        PROVE  FALSE
    BY <2>5 DEF OtherPut, vars, Idle
  <2>6. ASSUME Repair \/ \E S \in FailSets : Fail(S)
        PROVE  Gate!Disturb
    BY <2>6 DEF Repair, Fail, Gate!Disturb, Idle
  <2> QED BY <2>2, <2>3, <2>4, <2>5, <2>6 DEF Next, Gate!Next
<1> QED BY <1>1, <1>2, CommitInvariant, PTL DEF Spec, GroundTruthGated, Gate!Spec

-------------------------------------------------------------------------------
(* The clone validate_plan judged, and the model commit_plan builds.       *)

\* The turn of the replay that applies operation i of plan.
Turn(previous, plan, i) ==
  LET applied == ApplyOp(previous.model, plan[i])
      state   == StateFindings(applied.model)
  IN  IF ~ previous.ok THEN previous
      ELSE IF ~ applied.ok
      THEN [previous EXCEPT !.ok = FALSE, !.found = {<<"invalid_plan", i>>}]
      ELSE [ok |-> TRUE, model |-> state.model,
            found |-> state.found, checked |-> state.checked]

Start(m) == [ok |-> TRUE, model |-> m, found |-> {}, checked |-> {}]

\* h holds the states of a replay up to operation n.
Follows(h, m, plan, n) ==
  h[0] = Start(m) /\ \A i \in 1 .. n : h[i] = Turn(h[i - 1], plan, i)

LEMMA FollowsExists ==
  ASSUME NEW m, NEW plan, NEW n \in Nat
  PROVE  \E h : h = [i \in 0 .. n |-> h[i]] /\ Follows(h, m, plan, n)
<1> DEFINE Some(k) == \E h : h = [i \in 0 .. k |-> h[i]] /\ Follows(h, m, plan, k)
           T == {k \in 0 .. n : ~ Some(k)}
<1>1. Some(0)
  <2> DEFINE h == [i \in 0 .. 0 |-> Start(m)]
  <2>1. h = [i \in 0 .. 0 |-> h[i]] /\ h[0] = Start(m)
    OBVIOUS
  <2> HIDE DEF h
  <2>2. Follows(h, m, plan, 0)
    BY <2>1 DEF Follows
  <2> QED BY <2>1, <2>2
<1>2. ASSUME NEW k \in Nat, Some(k)
      PROVE  Some(k + 1)
  <2>1. PICK g : g = [i \in 0 .. k |-> g[i]] /\ Follows(g, m, plan, k)
    BY <1>2
  <2> DEFINE last == Turn(g[k], plan, k + 1)
             h == [i \in 0 .. k + 1 |-> IF i = k + 1 THEN last ELSE g[i]]
  <2> HIDE DEF last
  <2>2. /\ h = [i \in 0 .. k + 1 |-> h[i]]
        /\ h[k + 1] = last /\ \A i \in 0 .. k : h[i] = g[i]
    OBVIOUS
  <2> HIDE DEF h
  <2>3. ASSUME NEW i \in 1 .. k + 1
        PROVE  h[i] = Turn(h[i - 1], plan, i)
    <3>1. CASE i = k + 1
      <4>1. i - 1 = k /\ k \in 0 .. k
        BY <3>1
      <4>2. h[i - 1] = g[k] /\ h[i] = last
        BY <2>2, <3>1, <4>1
      <4> QED BY <3>1, <4>2 DEF last
    <3>2. CASE i \in 1 .. k
      <4>1. i - 1 \in 0 .. k /\ i \in 0 .. k
        BY <3>2
      <4>2. h[i - 1] = g[i - 1] /\ h[i] = g[i]
        BY <2>2, <4>1
      <4> QED BY <2>1, <3>2, <4>2 DEF Follows
    <3> QED BY <3>1, <3>2
  <2>4. h[0] = Start(m)
    <3>1. 0 \in 0 .. k
      OBVIOUS
    <3> QED BY <2>1, <2>2, <3>1 DEF Follows
  <2>5. Follows(h, m, plan, k + 1)
    BY <2>3, <2>4 DEF Follows
  <2> QED BY <2>2, <2>5
<1> HIDE DEF Some
<1>3. CASE T = {}
  BY <1>3 DEF Some
<1>4. CASE T # {}
  <2>1. T \in SUBSET Nat
    OBVIOUS
  <2>2. PICK k \in T : \A j \in T : k <= j
    BY <1>4, <2>1, LeastIn
  <2>3. k \in Nat /\ k # 0 /\ k - 1 \in Nat /\ k - 1 \in 0 .. n
    BY <1>1, <2>2
  <2>4. Some(k - 1)
    BY <2>2, <2>3
  <2>5. Some(k - 1 + 1) /\ k - 1 + 1 = k
    BY <1>2, <2>3, <2>4
  <2> QED BY <2>2, <2>5
<1> QED BY <1>3, <1>4

\* Replay is such a history.
LEMMA ReplayFollows ==
  ASSUME NEW m, NEW plan, Len(plan) \in Nat
  PROVE  Follows(Replay(m, plan), m, plan, Len(plan))
<1> DEFINE n == Len(plan)
           F(f) == [i \in 0 .. n |->
                      IF i = 0 THEN [ok |-> TRUE, model |-> m, found |-> {}, checked |-> {}]
                      ELSE LET previous == f[i - 1]
                               applied  == ApplyOp(previous.model, plan[i])
                               state    == StateFindings(applied.model)
                           IN  IF ~ previous.ok THEN previous
                               ELSE IF ~ applied.ok
                               THEN [previous EXCEPT !.ok = FALSE, !.found = {<<"invalid_plan", i>>}]
                               ELSE [ok |-> TRUE, model |-> state.model,
                                     found |-> state.found, checked |-> state.checked]]
           after == CHOOSE f : f = F(f)
           G(f) == [i \in 0 .. n |-> IF i = 0 THEN Start(m) ELSE Turn(f[i - 1], plan, i)]
<1>1. Replay(m, plan) = after
  BY DEF Replay
<1>2. \A f : F(f) = G(f)
  BY Zenon DEF Start, Turn
<1> HIDE DEF F
<1>3. PICK h : h = [i \in 0 .. n |-> h[i]] /\ Follows(h, m, plan, n)
  BY FollowsExists
<1>4. h = G(h)
  <2>1. ASSUME NEW i \in 0 .. n
        PROVE  h[i] = IF i = 0 THEN Start(m) ELSE Turn(h[i - 1], plan, i)
    <3>1. i = 0 \/ i \in 1 .. n
      OBVIOUS
    <3> QED BY <1>3, <3>1 DEF Follows
  <2> QED BY <1>3, <2>1, Zenon
<1>5. after = G(after)
  <2>1. h = F(h)
    BY <1>2, <1>4
  <2>2. after = F(after)
    BY <2>1
  <2> HIDE DEF after
  <2> QED BY <1>2, <2>2
<1> HIDE DEF after
<1>6. \A i \in 0 .. n : after[i] = IF i = 0 THEN Start(m) ELSE Turn(after[i - 1], plan, i)
  BY <1>5, Zenon
<1>7. /\ 0 \in 0 .. n
      /\ \A i \in 1 .. n : i \in 0 .. n /\ i # 0
  OBVIOUS
<1>8. Follows(after, m, plan, n)
  BY <1>6, <1>7, Zenon DEF Follows
<1> QED BY <1>1, <1>8

\* A turn that does not raise is the state that was checked; one that raises,
\* or comes after one, says so.
LEMMA TurnIs ==
  ASSUME NEW s, NEW plan, NEW i, NEW x, x = ApplyOp(s.model, plan[i]), NEW t, t = Turn(s, plan, i),
         s = [ok |-> s.ok, model |-> s.model, found |-> s.found, checked |-> s.checked]
  PROVE  /\ t = [ok |-> t.ok, model |-> t.model, found |-> t.found, checked |-> t.checked]
         /\ t.ok => s.ok /\ x.ok
         /\ s.ok /\ x.ok => /\ t.ok
                            /\ t.model = StateFindings(x.model).model
                            /\ t.found = StateFindings(x.model).found
                            /\ t.checked = StateFindings(x.model).checked
         /\ ~ t.ok /\ (s.ok \/ s.found # {}) => t.found # {}
<1> DEFINE state == StateFindings(x.model)
<1>1. ASSUME NEW ok, NEW m, NEW f, NEW c, NEW r, r = [ok |-> ok, model |-> m, found |-> f, checked |-> c]
      PROVE  /\ r.ok = ok /\ r.model = m /\ r.found = f /\ r.checked = c
             /\ r = [ok |-> r.ok, model |-> r.model, found |-> r.found, checked |-> r.checked]
  BY <1>1
<1>2. CASE ~ s.ok
  <2>1. t = s
    BY <1>2 DEF Turn
  <2> QED BY <1>2, <2>1
<1>3. CASE s.ok /\ ~ x.ok
  <2> DEFINE found == {<<"invalid_plan", i>>}
  <2>1. t = [s EXCEPT !.ok = FALSE, !.found = found]
    BY <1>3 DEF Turn
  <2>2. found # {}
    OBVIOUS
  <2> HIDE DEF found
  <2>3. t = [ok |-> FALSE, model |-> s.model, found |-> found, checked |-> s.checked]
    BY <2>1
  <2>4. /\ t.ok = FALSE /\ t.found = found
        /\ t = [ok |-> t.ok, model |-> t.model, found |-> t.found, checked |-> t.checked]
    BY <1>1, <2>3
  <2> QED BY <1>3, <2>2, <2>4
<1>4. CASE s.ok /\ x.ok
  <2>1. t = [ok |-> TRUE, model |-> state.model, found |-> state.found, checked |-> state.checked]
    BY <1>4, Zenon DEF Turn
  <2> HIDE DEF state
  <2>2. /\ t.ok = TRUE /\ t.model = state.model /\ t.found = state.found /\ t.checked = state.checked
        /\ t = [ok |-> t.ok, model |-> t.model, found |-> t.found, checked |-> t.checked]
    BY <1>1, <2>1
  <2> QED BY <1>4, <2>2 DEF state
<1> QED BY <1>2, <1>3, <1>4

\* A replay that ends well went well all along; one that does not has its
\* invalid_plan finding to show.
LEMMA ReplayShape ==
  ASSUME NEW h, NEW m, NEW plan, NEW n \in Nat, Follows(h, m, plan, n)
  PROVE  /\ \A i \in 0 .. n :
              /\ h[i] = [ok |-> h[i].ok, model |-> h[i].model, found |-> h[i].found, checked |-> h[i].checked]
              /\ h[i].ok \/ h[i].found # {}
         /\ h[n].ok => \A i \in 0 .. n : h[i].ok
<1> DEFINE Fine(i) ==
             /\ h[i] = [ok |-> h[i].ok, model |-> h[i].model, found |-> h[i].found, checked |-> h[i].checked]
             /\ h[i].ok \/ h[i].found # {}
           T == {i \in 0 .. n : ~ Fine(i)}
<1>1. Fine(0)
  BY DEF Follows, Start
<1>2. ASSUME NEW i \in 1 .. n, Fine(i - 1)
      PROVE  Fine(i) /\ (h[i].ok => h[i - 1].ok)
  <2>1. h[i] = Turn(h[i - 1], plan, i)
    BY DEF Follows
  <2> QED BY <1>2, <2>1, TurnIs
<1> HIDE DEF Fine
<1>3. \A i \in 0 .. n : Fine(i)
  <2>1. T \in SUBSET Nat
    OBVIOUS
  <2>2. ASSUME T # {} PROVE FALSE
    <3>1. PICK k \in T : \A j \in T : k <= j
      BY <2>1, <2>2, LeastIn
    <3>2. k \in 1 .. n /\ k - 1 \in 0 .. n
      BY <1>1, <3>1
    <3>3. k - 1 \notin T
      BY <3>1, <3>2
    <3> QED BY <1>2, <3>1, <3>2, <3>3
  <2> QED BY <2>2
<1>4. ASSUME h[n].ok, NEW i \in 0 .. n, ~ h[i].ok
      PROVE  FALSE
  <2> DEFINE U == {k \in 0 .. n : ~ h[n - k].ok}
  <2>1. U \in SUBSET Nat /\ n - i \in U
    <3>1. n - (n - i) = i /\ n - i \in 0 .. n
      OBVIOUS
    <3> QED BY <1>4, <3>1
  <2>2. PICK k \in U : \A j \in U : k <= j
    <3> HIDE DEF U
    <3> QED BY <2>1, LeastIn
  <2>3. k \in 0 .. n /\ ~ h[n - k].ok /\ k # 0
    <3>1. n - 0 = n
      OBVIOUS
    <3> QED BY <1>4, <2>2, <3>1
  <2>4. k - 1 \in 0 .. n /\ n - k + 1 \in 1 .. n /\ n - (k - 1) = n - k + 1 /\ n - k + 1 - 1 = n - k
    BY <2>3
  <2>5. h[n - k + 1].ok
    <3>1. k - 1 \notin U
      BY <2>2, <2>4
    <3> QED BY <2>4, <3>1
  <2>6. n - k \in 0 .. n
    BY <2>3
  <2>7. h[n - k + 1].ok => h[n - k].ok
    BY <1>2, <1>3, <2>4, <2>6
  <2> QED BY <2>3, <2>5, <2>7
<1> QED BY <1>3, <1>4 DEF Fine

\* The violations of a report, by state.
Raised(h, n)  == {Violation(f, f[2], FALSE) : f \in h[n].found}
Found(h, n, i) == {Violation(f, i, i # n /\ IsTransient(f, h[n])) : f \in h[i].found}
AllFound(h, n) == UNION {Found(h, n, i) : i \in 1 .. n}
AtEnd(h, n)   == {Violation(f, n, FALSE) : f \in EndpointFindings(h[n].model)}

LEMMA ReportIs ==
  ASSUME NEW h, NEW plan, NEW n, n = Len(plan)
  PROVE  /\ ~ h[n].ok => Report(h, plan) = Raised(h, n)
         /\ h[n].ok => Report(h, plan) = AllFound(h, n) \cup AtEnd(h, n)
<1> USE DEF Raised, Found, AllFound, AtEnd
<1> DEFINE A == Raised(h, n)
           B == AllFound(h, n) \cup AtEnd(h, n)
<1>1. Report(h, plan) = IF ~ h[n].ok THEN A ELSE B
  BY DEF Report
<1> HIDE DEF A, B
<1>2. (~ h[n].ok => Report(h, plan) = A) /\ (h[n].ok => Report(h, plan) = B)
  BY <1>1
<1> QED BY <1>2 DEF A, B

\* A plan that validates clean raises nothing on the way, and there is nothing
\* to find at any state, nor in the endpoint audit of the last.
LEMMA CleanMeans ==
  ASSUME NEW m, NEW plan \in Plans, Clean(m, plan), plan # <<>>, NEW h, h = Replay(m, plan)
  PROVE  /\ Follows(h, m, plan, Len(plan))
         /\ \A i \in 0 .. Len(plan) : h[i].ok
         /\ \A i \in 1 .. Len(plan) : h[i].found = {}
         /\ EndpointFindings(h[Len(plan)].model) = {}
<1> DEFINE n == Len(plan)
<1>1. n \in Nat
  BY PlanShape
<1>2. Follows(h, m, plan, n)
  BY <1>1, ReplayFollows
<1>3. Validate(m, plan) = Report(h, plan)
  BY DEF Validate
<1>4. Report(h, plan) = {}
  BY <1>3 DEF Clean
<1>5. h[n].ok
  <2> SUFFICES ASSUME ~ h[n].ok PROVE FALSE
    OBVIOUS
  <2>1. Raised(h, n) = {}
    BY <1>4, ReportIs
  <2>2. h[n].ok \/ h[n].found # {}
    <3>1. n \in 0 .. n
      BY <1>1
    <3> QED BY <1>1, <1>2, <3>1, ReplayShape
  <2>3. PICK f \in h[n].found : TRUE
    BY <2>2
  <2> QED BY <2>1, <2>3 DEF Raised
<1>6. \A i \in 0 .. n : h[i].ok
  BY <1>1, <1>2, <1>5, ReplayShape
<1>7. AllFound(h, n) = {} /\ AtEnd(h, n) = {}
  BY <1>4, <1>5, ReportIs
<1>8. ASSUME NEW i \in 1 .. n, NEW f \in h[i].found
      PROVE  FALSE
  <2>1. Found(h, n, i) = {}
    BY <1>7 DEF AllFound
  <2>2. Violation(f, i, i # n /\ IsTransient(f, h[n])) \in Found(h, n, i)
    BY Zenon DEF Found
  <2> QED BY <2>1, <2>2
<1>9. EndpointFindings(h[n].model) = {}
  BY <1>7 DEF AtEnd
<1> QED BY <1>2, <1>6, <1>8, <1>9

\* What is checked at a state, and where the replay goes on from.
StatusFindings(m) == ModeInfeasibleFindings(m) \cup IpFindings(m)

LEMMA StateFindingsIs ==
  ASSUME NEW m, NEW s, s = StateFindings(m)
  PROVE  /\ SpectrumClashFindings(m) # {} =>
              s.model = m /\ s.found = SpectrumClashFindings(m) /\ s.checked = CheckedClashOnly
         /\ SpectrumClashFindings(m) = {} =>
              /\ s.model = RecomputeIfPossible(m) /\ s.checked = CheckedAll
              /\ s.found = StatusFindings(RecomputeIfPossible(m))
<1> DEFINE clashes == SpectrumClashFindings(m)
           settled == RecomputeIfPossible(m)
           a == [model |-> m, found |-> clashes, checked |-> CheckedClashOnly]
           b == [model |-> settled, checked |-> CheckedAll, found |-> StatusFindings(settled)]
<1>1. s = IF clashes # {} THEN a ELSE b
  BY Zenon DEF StateFindings, StatusFindings
<1>2. /\ a.model = m /\ a.found = clashes /\ a.checked = CheckedClashOnly
      /\ b.model = settled /\ b.checked = CheckedAll /\ b.found = StatusFindings(settled)
  OBVIOUS
<1> HIDE DEF clashes, settled, a, b
<1> QED BY <1>1, <1>2 DEF clashes, settled

\* Near models carry the same lightpaths, so they clash alike.
LEMMA NearClash ==
  ASSUME NEW m, NEW n, Near(m, n)
  PROVE  SpectrumClashFindings(n) = SpectrumClashFindings(m)
<1>1. n.lightpaths = m.lightpaths /\ Lit(n) = Lit(m)
  BY DEF Near, Lit
<1>2. \A o, s : Carriers(n, o, s) = Carriers(m, o, s)
  BY <1>1 DEF Carriers
<1> QED BY <1>2 DEF SpectrumClashFindings

LEMMA StateNear ==
  ASSUME NEW m, Coherent(m)
  PROVE  Coherent(StateFindings(m).model) /\ Near(m, StateFindings(m).model)
<1>1. StateFindings(m).model \in {m, RecomputeIfPossible(m)}
  BY StateFindingsIs
<1>2. Near(m, m)
  BY DEF Near
<1>3. Coherent(RecomputeIfPossible(m)) /\ Near(m, RecomputeIfPossible(m))
  BY SettlingInv, SettledIsNear DEF RecomputeIfPossible
<1> QED BY <1>1, <1>2, <1>3

\* No plan lights a lightpath off the grid: either the model carries a grid,
\* which add_lightpath asks, or callers keep to it.  Without it a plan may
\* commit whose last recompute raises before what validation had measured.
PlansOnGrid == \A plan \in Plans : \A i \in 1 .. Len(plan) : OnGrid(plan[i])

\* The clone is recomputed after every operation and the live model is not,
\* but no operation reads a record: they stay near, and none raises.
LEMMA ReplayNear ==
  ASSUME PlansOnGrid, NEW m, Coherent(m), NEW plan \in Plans,
         NEW h, Follows(h, m, plan, Len(plan)), \A i \in 0 .. Len(plan) : h[i].ok,
         NEW g, NEW n \in 0 .. Len(plan), g[0] = m,
         \A i \in 1 .. n : g[i] = ApplyOp(g[i - 1], plan[i]).model
  PROVE  /\ \A i \in 0 .. n : Coherent(g[i]) /\ Coherent(h[i].model) /\ Near(g[i], h[i].model)
         /\ \A i \in 1 .. n : ApplyOp(g[i - 1], plan[i]).ok
<1> DEFINE Together(i) == Coherent(g[i]) /\ Coherent(h[i].model) /\ Near(g[i], h[i].model)
           T == {i \in 0 .. n : ~ Together(i)}
<1>0. Len(plan) \in Nat /\ n \in Nat /\ \A i \in 1 .. n : i \in 1 .. Len(plan) /\ IsOp(plan[i]) /\ OnGrid(plan[i])
  <2>1. Len(plan) \in Nat /\ \A i \in 1 .. Len(plan) : IsOp(plan[i]) /\ OnGrid(plan[i])
    BY PlanShape DEF PlansOnGrid
  <2> QED BY <2>1
<1>1. Together(0)
  <2>1. h[0].model = m
    BY DEF Follows, Start
  <2> QED BY <2>1 DEF Near
<1>2. ASSUME NEW i \in 1 .. n, Together(i - 1)
      PROVE  Together(i) /\ ApplyOp(g[i - 1], plan[i]).ok
  <2> DEFINE r == ApplyOp(g[i - 1], plan[i])
             t == ApplyOp(h[i - 1].model, plan[i])
  <2>1. t.ok = r.ok /\ Near(r.model, t.model)
    BY <1>0, <1>2, ApplyOpNear
  <2>2. Coherent(r.model) /\ Coherent(t.model)
    BY <1>0, <1>2, ApplyOpInv
  <2>3. g[i] = r.model
    OBVIOUS
  <2> HIDE DEF r
  <2>4. h[i] = Turn(h[i - 1], plan, i) /\ h[i].ok /\ h[i - 1].ok
    BY <1>0 DEF Follows
  <2>5. h[i - 1] = [ok |-> h[i - 1].ok, model |-> h[i - 1].model, found |-> h[i - 1].found,
                    checked |-> h[i - 1].checked]
    BY <1>0, ReplayShape
  <2>6. t.ok /\ h[i].model = StateFindings(t.model).model
    BY <2>4, <2>5, TurnIs
  <2> HIDE DEF t
  <2>7. Coherent(h[i].model) /\ Near(t.model, h[i].model)
    BY <2>2, <2>6, StateNear
  <2>8. Near(r.model, h[i].model)
    BY <2>1, <2>7, NearAgain
  <2>9. r.ok
    BY <2>1, <2>6
  <2> QED BY <2>2, <2>3, <2>7, <2>8, <2>9 DEF r
<1> HIDE DEF Together
<1>3. \A i \in 0 .. n : Together(i)
  <2>1. T \in SUBSET Nat
    BY <1>0
  <2>2. ASSUME T # {} PROVE FALSE
    <3>1. PICK k \in T : \A j \in T : k <= j
      BY <2>1, <2>2, LeastIn
    <3>2. k \in 1 .. n /\ k - 1 \in 0 .. n
      BY <1>0, <1>1, <3>1
    <3>3. k - 1 \notin T
      BY <3>1, <3>2
    <3> QED BY <1>2, <3>1, <3>2, <3>3
  <2> QED BY <2>2
<1>4. \A i \in 1 .. n : i - 1 \in 0 .. n
  BY <1>0
<1> QED BY <1>2, <1>3, <1>4 DEF Together

\* Auditing a settled state finds what was found when it was settled.
LEMMA AuditSettled ==
  ASSUME NEW x, Coherent(x), SpectrumClashFindings(x) = {}, NEW m, m = RecomputeIfPossible(x),
         StatusFindings(m) = {}, EndpointFindings(m) = {}
  PROVE  AuditsClean(m)
<1>1. Near(x, m) /\ RecomputeIfPossible(m) = m
  BY SettledIsNear DEF RecomputeIfPossible
<1>2. SpectrumClashFindings(m) = {}
  BY <1>1, NearClash
<1>3. StateFindings(m).model = m /\ StateFindings(m).found = {}
  BY <1>1, <1>2, StateFindingsIs
<1> QED BY <1>3, Zenon DEF AuditsClean, Audit

\* m is what a recompute left where every check then found nothing.
Checked(m) ==
  \E x : /\ Coherent(x) /\ SpectrumClashFindings(x) = {}
         /\ m = RecomputeIfPossible(x) /\ StatusFindings(m) = {}

\* s is a state of a replay, and one with nothing to show.
IsState(s) == s = [ok |-> s.ok, model |-> s.model, found |-> s.found, checked |-> s.checked]
Quiet(s)   == s.ok /\ s.found = {}

LEMMA CleanTurn ==
  ASSUME NEW s, IsState(s), Coherent(s.model), NEW plan, NEW i, IsOp(plan[i]), Quiet(Turn(s, plan, i))
  PROVE  Checked(Turn(s, plan, i).model)
<1> USE DEF IsState, Quiet
<1> DEFINE t == Turn(s, plan, i)
<1>0. t.ok /\ t.found = {} /\ t = Turn(s, plan, i)
  OBVIOUS
<1> HIDE DEF t
<1> DEFINE x == ApplyOp(s.model, plan[i]).model
<1>1. Coherent(x)
  BY ApplyOpInv
<1>2. x = ApplyOp(s.model, plan[i]).model
  OBVIOUS
<1> HIDE DEF x
<1>3. t.model = StateFindings(x).model /\ t.found = StateFindings(x).found
  BY <1>0, <1>2, TurnIs
<1>4. /\ SpectrumClashFindings(x) = {} /\ t.model = RecomputeIfPossible(x)
      /\ StatusFindings(t.model) = {}
  BY <1>0, <1>3, StateFindingsIs
<1> QED BY <1>1, <1>4 DEF t, Checked

LEMMA CleanAt ==
  ASSUME NEW h, NEW m, NEW plan \in Plans, Follows(h, m, plan, Len(plan)),
         NEW i \in 1 .. Len(plan), Quiet(h[i]), Coherent(h[i - 1].model)
  PROVE  Checked(h[i].model)
<1>1. Len(plan) \in Nat /\ IsOp(plan[i]) /\ i - 1 \in 0 .. Len(plan)
  BY PlanShape
<1>2. h[i] = Turn(h[i - 1], plan, i)
  BY DEF Follows
<1>3. IsState(h[i - 1])
  BY <1>1, ReplayShape DEF IsState
<1>4. Checked(Turn(h[i - 1], plan, i).model)
  BY <1>1, <1>2, <1>3, CleanTurn
<1> QED BY <1>2, <1>4

\* What a clean plan leaves, once all of it landed and was recomputed.
LEMMA CleanEnd ==
  ASSUME PlansOnGrid, NEW m, Coherent(m), NEW plan \in Plans, Clean(m, plan), NEW n, n = Len(plan),
         NEW g, g[0] = m, \A i \in 1 .. n : g[i] = ApplyOp(g[i - 1], plan[i]).model
  PROVE  AuditsClean(RecomputeIfPossible(g[n]))
<1>0. n \in Nat
  BY PlanShape
<1>1. CASE plan = <<>>
  <2>1. n = 0 /\ Validate(m, plan) = {Violation(f, 0, FALSE) : f \in Audit(m)}
    BY <1>1 DEF Validate
  <2>2. Audit(m) = {}
    <3>1. ASSUME NEW f \in Audit(m) PROVE FALSE
      <4>1. Violation(f, 0, FALSE) \in Validate(m, plan)
        BY <2>1, <3>1
      <4> QED BY <4>1 DEF Clean
    <3> QED BY <3>1
  <2>3. StateFindings(m).found = {} /\ EndpointFindings(StateFindings(m).model) = {}
    BY <2>2, Zenon DEF Audit
  <2>4. /\ SpectrumClashFindings(m) = {} /\ StatusFindings(RecomputeIfPossible(m)) = {}
        /\ EndpointFindings(RecomputeIfPossible(m)) = {}
    BY <2>3, StateFindingsIs
  <2> QED BY <2>1, <2>4, AuditSettled
<1>2. CASE plan # <<>>
  <2> DEFINE h == Replay(m, plan)
  <2>1. /\ Follows(h, m, plan, n) /\ \A i \in 0 .. n : h[i].ok
        /\ \A i \in 1 .. n : h[i].found = {}
        /\ EndpointFindings(h[n].model) = {}
    BY <1>2, CleanMeans
  <2> HIDE DEF h
  <2>2. n \in 1 .. n /\ n \in 0 .. n
    <3>1. n # 0
      BY <1>2, CommitAssumption
    <3> QED BY <1>0, <3>1
  <2>3. /\ Coherent(g[n]) /\ Coherent(h[n].model) /\ Near(g[n], h[n].model)
        /\ Coherent(h[n - 1].model)
    <3>1. n - 1 \in 0 .. n
      BY <2>2
    <3> QED BY <2>1, <2>2, <3>1, ReplayNear
  <2>4. Checked(h[n].model)
    <3>1. Quiet(h[n]) /\ Coherent(h[n - 1].model) /\ n \in 1 .. n
      BY <2>1, <2>2, <2>3 DEF Quiet
    <3> QED BY <2>1, <3>1, CleanAt
  <2>5. AuditsClean(h[n].model) /\ RecomputeIfPossible(h[n].model) = h[n].model
    BY <2>1, <2>4, AuditSettled, SettledIsNear DEF RecomputeIfPossible, Checked
  <2>6. RecomputeIfPossible(g[n]) = RecomputeIfPossible(h[n].model)
    BY <2>3, NearSettles DEF RecomputeIfPossible
  <2> QED BY <2>5, <2>6
<1> QED BY <1>1, <1>2

\* A plan that validated clean and landed in full leaves a model that audits
\* clean: recomputing once at the end gives what recomputing after every
\* operation gave the clone.
THEOREM CommittedPlansAuditClean ==
  ASSUME PlansOnGrid
  PROVE  Spec => []CommittedAuditsClean
<1>1. Init => CommittedAuditsClean
  BY DEF Init, CommittedAuditsClean, NoResult, Result
<1>2. CommitInv /\ CommittedAuditsClean /\ [Next]_vars => CommittedAuditsClean'
  <2> SUFFICES ASSUME CommitInv, CommittedAuditsClean, [Next]_vars,
                      result'.status = "committed"
               PROVE  AuditsClean(model')
    BY DEF CommittedAuditsClean
  <2>1. CASE Finish
    <3> DEFINE plan == commit.plan
    <3>1. /\ ~ Idle /\ UnderWay /\ commit.done = Len(plan) /\ commit.failed = 0
          /\ model' = RecomputeIfPossible(model)
      BY <2>1 DEF Finish, Result, CommitInv
    <3>2. Progress(commit, model)
      BY <3>1 DEF UnderWay
    <3>3. PICK g : Actuates(g, commit.before, plan, 1 .. Len(plan), Len(plan)) /\ g[Len(plan)] = model
      BY <3>1, <3>2 DEF Progress
    <3>4. plan \in Plans /\ Coherent(commit.before) /\ Clean(commit.before, plan)
      BY <3>2 DEF Progress
    <3>5. g[0] = commit.before /\ \A i \in 1 .. Len(plan) : g[i] = ApplyOp(g[i - 1], plan[i]).model
      BY <3>3 DEF Actuates
    <3> QED BY <3>1, <3>3, <3>4, <3>5, CleanEnd
  <2>2. CASE ~ Finish
    <3>1. /\ UNCHANGED <<model, result>>
      BY <2>2 DEF Next, DryRun, Submit, Reject, AskApproval, Begin, ApplyNext, DeclineNext, OtherPut,
                  Fail, Repair, vars, Result, NoResult, CommitInv, UnderWay
    <3> QED BY <3>1 DEF CommittedAuditsClean
  <2> QED BY <2>1, <2>2
<1> QED BY <1>1, <1>2, CommitInvariant, PTL DEF Spec

\* Every plan has a history in which all of it lands.
LEMMA ActuatesExists ==
  ASSUME NEW m, NEW plan, NEW n \in Nat
  PROVE  \E g : Actuates(g, m, plan, 1 .. n, n)
<1> DEFINE Some(k) == \E g : Actuates(g, m, plan, 1 .. k, k)
           T == {k \in 0 .. n : ~ Some(k)}
<1>1. Some(0)
  <2> DEFINE g == [i \in 0 .. 0 |-> m]
  <2>1. g = [i \in 0 .. 0 |-> g[i]] /\ g[0] = m
    OBVIOUS
  <2> HIDE DEF g
  <2>2. Actuates(g, m, plan, 1 .. 0, 0)
    BY <2>1 DEF Actuates
  <2> QED BY <2>2
<1>2. ASSUME NEW k \in Nat, Some(k)
      PROVE  Some(k + 1)
  <2>1. PICK g : Actuates(g, m, plan, 1 .. k, k)
    BY <1>2
  <2> DEFINE keeps == 1 .. k + 1
  <2>2. (\A i \in 1 .. k : i \in keeps <=> i \in 1 .. k) /\ k + 1 \in keeps
    OBVIOUS
  <2> HIDE DEF keeps
  <2>3. \E h : Actuates(h, m, plan, keeps, k + 1)
    <3> DEFINE after == ApplyOp(g[k], plan[k + 1]).model
    <3>1. after = IF k + 1 \in keeps THEN ApplyOp(g[k], plan[k + 1]).model ELSE g[k]
      BY <2>2
    <3> HIDE DEF after
    <3> QED BY <2>1, <2>2, <3>1, OneMore
  <2> QED BY <2>3 DEF keeps
<1> HIDE DEF Some
<1>3. ASSUME T # {} PROVE FALSE
  <2>1. T \in SUBSET Nat
    OBVIOUS
  <2>2. PICK k \in T : \A j \in T : k <= j
    BY <1>3, <2>1, LeastIn
  <2>3. k \in Nat /\ k # 0 /\ k - 1 \in Nat /\ k - 1 \in 0 .. n
    BY <1>1, <2>2
  <2>4. Some(k - 1)
    BY <2>2, <2>3
  <2>5. Some(k - 1 + 1) /\ k - 1 + 1 = k
    BY <1>2, <2>3, <2>4
  <2> QED BY <2>2, <2>5
<1> QED BY <1>3 DEF Some

\* What the checks of a state that does not clash are called.
LEMMA StatusTags ==
  ASSUME NEW m, NEW f \in StatusFindings(m)
  PROVE  f[1] # "spectrum_clash"
<1>1. \/ \E id : f = <<"mode_infeasible", id>>
      \/ \E k : f = <<"ip_link_overload", k>>
      \/ \E s : f = <<"dropped_traffic", s>>
  BY Zenon DEF StatusFindings, ModeInfeasibleFindings, IpFindings
<1> QED BY <1>1

LEMMA ViolationIs ==
  ASSUME NEW f, NEW i, NEW b
  PROVE  LET v == Violation(f, i, b) IN v.finding = f /\ v.transient = b
BY Zenon DEF Violation

\* A finding the report calls transient was looked for at the end, in vain.
LEMMA TransientMeans ==
  ASSUME NEW m, NEW plan \in Plans, NEW v \in Validate(m, plan), v.transient,
         NEW h, h = Replay(m, plan), NEW n, n = Len(plan)
  PROVE  n \in 1 .. n /\ h[n].ok /\ v.finding[1] \in h[n].checked /\ v.finding \notin h[n].found
<1>1. n \in Nat
  BY PlanShape
<1>2. ASSUME NEW f, NEW i, v = Violation(f, i, FALSE)
      PROVE  FALSE
  BY <1>2, ViolationIs
<1>3. plan # <<>>
  <2> SUFFICES ASSUME plan = <<>> PROVE FALSE
    OBVIOUS
  <2>1. \E f : v = Violation(f, 0, FALSE)
    BY DEF Validate
  <2> QED BY <1>2, <2>1
<1>4. n \in 1 .. n
  <2>1. n # 0
    BY <1>3, CommitAssumption
  <2> QED BY <1>1, <2>1
<1>5. v \in Report(h, plan)
  BY <1>3 DEF Validate
<1>6. h[n].ok
  <2> SUFFICES ASSUME ~ h[n].ok PROVE FALSE
    OBVIOUS
  <2>1. v \in Raised(h, n)
    BY <1>5, ReportIs
  <2> QED BY <1>2, <2>1 DEF Raised
<1>7. v \notin AtEnd(h, n)
  BY <1>2 DEF AtEnd
<1>8. v \in AllFound(h, n)
  BY <1>5, <1>6, <1>7, ReportIs
<1>9. PICK i, f : v = Violation(f, i, i # n /\ IsTransient(f, h[n]))
  <2>1. PICK i \in 1 .. n : v \in Found(h, n, i)
    BY <1>8 DEF AllFound
  <2>2. \E f \in h[i].found : v = Violation(f, i, i # n /\ IsTransient(f, h[n]))
    BY <2>1, Zenon DEF Found
  <2> QED BY <2>2, Zenon
<1>10. v.finding = f /\ (i # n /\ IsTransient(f, h[n]))
  <2>1. v.finding = f /\ v.transient = (i # n /\ IsTransient(f, h[n]))
    BY <1>9, Zenon DEF Violation
  <2> QED BY <2>1, Zenon
<1>11. IsTransient(f, h[n])
  BY <1>10
<1> QED BY <1>4, <1>6, <1>10, <1>11, Zenon DEF IsTransient

\* What a plan replayed without a recompute ends in, next to what the clone
\* that was recomputed at every turn ends in.
LEMMA ReplayedAlike ==
  ASSUME PlansOnGrid, NEW m, Coherent(m), NEW plan \in Plans, NEW n, n = Len(plan),
         NEW h, Follows(h, m, plan, n), h[n].ok
  PROVE  /\ \A i \in 0 .. n : h[i].ok /\ Coherent(h[i].model)
         /\ Coherent(ApplyAll(m, plan).model)
         /\ Near(ApplyAll(m, plan).model, h[n].model)
<1>1. n \in Nat /\ n \in 0 .. n
  BY PlanShape
<1>3. \A i \in 0 .. n : h[i].ok
  BY <1>1, ReplayShape
<1>4. PICK g : Actuates(g, m, plan, 1 .. n, n)
  BY <1>1, ActuatesExists
<1>5. g[0] = m /\ \A i \in 1 .. n : g[i] = ApplyOp(g[i - 1], plan[i]).model
  BY <1>4 DEF Actuates
<1>6. /\ \A i \in 0 .. n : Coherent(g[i]) /\ Coherent(h[i].model) /\ Near(g[i], h[i].model)
      /\ \A i \in 1 .. n : ApplyOp(g[i - 1], plan[i]).ok
  BY <1>1, <1>3, <1>5, ReplayNear
<1>7. ApplyAll(m, plan) = Applied(g[n])
  BY <1>4, <1>6, FullHistory DEF NoneRaised
<1>8. ApplyAll(m, plan).model = g[n]
  BY <1>7 DEF Applied
<1> QED BY <1>1, <1>3, <1>6, <1>8

LEMMA ResolvedAtEnd ==
  ASSUME PlansOnGrid, NEW m, Coherent(m), NEW plan \in Plans, NEW v \in Validate(m, plan),
         v.transient, NEW final, final = RecomputeIfPossible(ApplyAll(m, plan).model)
  PROVE  v.finding \notin SpectrumClashFindings(final) \cup StatusFindings(final)
<1> DEFINE n == Len(plan)
           h == Replay(m, plan)
           f == v.finding
<1>1. n \in 1 .. n /\ h[n].ok /\ f[1] \in h[n].checked /\ f \notin h[n].found
  BY TransientMeans
<1>0. Follows(h, m, plan, n)
  BY PlanShape, ReplayFollows
<1> HIDE DEF h
<1>2. /\ Follows(h, m, plan, n) /\ \A i \in 0 .. n : h[i].ok /\ Coherent(h[i].model)
      /\ Coherent(ApplyAll(m, plan).model) /\ Near(ApplyAll(m, plan).model, h[n].model)
  BY <1>0, <1>1, ReplayedAlike
<1>3. n \in 0 .. n /\ n - 1 \in 0 .. n /\ n \in Nat /\ IsOp(plan[n])
  BY <1>1, PlanShape
<1> DEFINE x == ApplyOp(h[n - 1].model, plan[n]).model
<1>4. Coherent(x)
  BY <1>2, <1>3, ApplyOpInv
<1>5. /\ h[n].model = StateFindings(x).model /\ h[n].found = StateFindings(x).found
      /\ h[n].checked = StateFindings(x).checked
  <2>1. h[n] = Turn(h[n - 1], plan, n)
    BY <1>1, <1>2 DEF Follows
  <2>2. h[n - 1] = [ok |-> h[n - 1].ok, model |-> h[n - 1].model, found |-> h[n - 1].found,
                    checked |-> h[n - 1].checked]
    BY <1>2, <1>3, ReplayShape
  <2> DEFINE s == h[n - 1]
             t == h[n]
  <2>3. s = [ok |-> s.ok, model |-> s.model, found |-> s.found, checked |-> s.checked]
        /\ t = Turn(s, plan, n) /\ t.ok /\ x = ApplyOp(s.model, plan[n]).model
    BY <1>1, <2>1, <2>2
  <2> HIDE DEF s, t, x
  <2>4. /\ t.model = StateFindings(x).model /\ t.found = StateFindings(x).found
        /\ t.checked = StateFindings(x).checked
    BY <2>3, TurnIs
  <2> QED BY <2>4 DEF t
<1> HIDE DEF x
<1>6. final = RecomputeIfPossible(h[n].model)
  BY <1>2, <1>3, NearSettles DEF RecomputeIfPossible
<1>7. CASE SpectrumClashFindings(x) = {}
  <2>1. h[n].model = RecomputeIfPossible(x) /\ h[n].found = StatusFindings(h[n].model)
    BY <1>5, <1>7, StateFindingsIs
  <2>2. Near(x, h[n].model) /\ RecomputeIfPossible(h[n].model) = h[n].model
    BY <1>4, <2>1, SettledIsNear DEF RecomputeIfPossible
  <2>3. SpectrumClashFindings(h[n].model) = {}
    BY <1>7, <2>2, NearClash
  <2> QED BY <1>1, <1>6, <2>1, <2>2, <2>3
<1>8. CASE SpectrumClashFindings(x) # {}
  <2>1. h[n].model = x /\ h[n].found = SpectrumClashFindings(x) /\ h[n].checked = CheckedClashOnly
    BY <1>5, <1>8, StateFindingsIs
  <2>2. Near(x, final)
    BY <1>4, <1>6, <2>1, SettledIsNear DEF RecomputeIfPossible
  <2>3. SpectrumClashFindings(final) = SpectrumClashFindings(x)
    BY <2>2, NearClash
  <2>4. f[1] = "spectrum_clash"
    BY <1>1, <2>1 DEF CheckedClashOnly
  <2> QED BY <1>1, <2>1, <2>3, <2>4, StatusTags
<1> QED BY <1>7, <1>8

\* A finding that validate_plan reports as transient does not hold at the
\* final state of the plan, whichever checks were skipped there.
THEOREM TransientFindingsAreResolved ==
  ASSUME PlansOnGrid
  PROVE  Spec => []TransientIsResolved
<1>1. CommitInv => TransientIsResolved
  <2> SUFFICES ASSUME Coherent(model), NEW plan \in Plans, NEW v \in Validate(model, plan),
                      v.transient
               PROVE  LET final == RecomputeIfPossible(ApplyAll(model, plan).model)
                      IN  v.finding \notin SpectrumClashFindings(final)
                            \cup ModeInfeasibleFindings(final) \cup IpFindings(final)
    BY Zenon DEF TransientIsResolved, CommitInv
  <2> DEFINE final == RecomputeIfPossible(ApplyAll(model, plan).model)
  <2>1. v.finding \notin SpectrumClashFindings(final) \cup StatusFindings(final)
    BY ResolvedAtEnd
  <2> HIDE DEF final
  <2>2. v.finding \notin SpectrumClashFindings(final) \cup ModeInfeasibleFindings(final)
                           \cup IpFindings(final)
    BY <2>1 DEF StatusFindings
  <2> QED BY <2>2 DEF final
<1> QED BY <1>1, CommitInvariant, PTL

\* A state whose checks found nothing drops no demand beyond the tolerance.
LEMMA ToleratedDrop ==
  ASSUME IsFiniteSet(ServiceIds), NEW m, Coherent(m), IpFindings(m) = {}
  PROVE  DroppedDemand(m) <= Tolerance
<1> DEFINE D == DroppedServices(m)
<1>1. D \in SUBSET (DOMAIN m.services)
  BY DEF DroppedServices
<1>2. IsFiniteSet(D) /\ Counts(Demand, D)
  BY <1>1, Demands, FS_Subset DEF Counts
<1>3. DroppedDemand(m) \in Nat /\ Tolerance \in Nat
  BY <1>2, TotalTakes, ValidationAssumption DEF DroppedDemand
<1>4. ASSUME DroppedDemand(m) > Tolerance
      PROVE  D = {}
  <2>1. \A s \in D : <<"dropped_traffic", s>> \in IpFindings(m)
    BY <1>4, Zenon DEF IpFindings
  <2> QED BY <2>1
<1>5. D = {} => DroppedDemand(m) = 0
  BY <1>2, TotalTurn DEF DroppedDemand
<1> QED BY <1>3, <1>4, <1>5

\* Make-before-break reaches the live model: as long as no operation of a clean
\* plan has failed, no traffic beyond the tolerance is dropped while the plan is
\* half way, although nothing is recomputed in between.
THEOREM CleanPlansDropNothing ==
  ASSUME PlansOnGrid, IsFiniteSet(ServiceIds)
  PROVE  Spec => []NoDropWhileActuating
<1>1. CommitInv => NoDropWhileActuating
  <2> SUFFICES ASSUME CommitInv, ~ Idle, commit.done > 0, commit.failed = 0
               PROVE  DroppedDemand(model) <= Tolerance
    BY DEF NoDropWhileActuating
  <2> DEFINE plan == commit.plan
             m == commit.before
             i == commit.done
             n == Len(plan)
  <2>1. Progress(commit, model)
    BY DEF CommitInv, UnderWay
  <2>2. plan \in Plans /\ Coherent(m) /\ Clean(m, plan) /\ i \in 0 .. n
    BY <2>1 DEF Progress
  <2>3. PICK g : Actuates(g, m, plan, 1 .. i, i) /\ g[i] = model
    BY <2>1 DEF Progress
  <2> HIDE DEF plan, m, i
  <2>4. n \in Nat /\ i \in 1 .. n /\ i - 1 \in 0 .. i /\ i \in 0 .. i /\ plan # <<>>
    <3>1. n \in Nat
      BY <2>2, PlanShape
    <3>2. i \in 1 .. n
      BY <2>2, <3>1 DEF i
    <3>3. plan # <<>>
      <4>1. Len(<<>>) = 0
        OBVIOUS
      <4> QED BY <3>1, <3>2, <4>1
    <3> QED BY <3>1, <3>2, <3>3
  <2> DEFINE h == Replay(m, plan)
  <2>5. /\ Follows(h, m, plan, n) /\ \A j \in 0 .. n : h[j].ok
        /\ \A j \in 1 .. n : h[j].found = {}
    BY <2>2, <2>4, CleanMeans
  <2> HIDE DEF h
  <2>6. g[0] = m /\ \A j \in 1 .. i : g[j] = ApplyOp(g[j - 1], plan[j]).model
    BY <2>3 DEF Actuates
  <2>7. \A j \in 0 .. i : Coherent(g[j]) /\ Coherent(h[j].model) /\ Near(g[j], h[j].model)
    BY <2>2, <2>5, <2>6, ReplayNear
  <2>8. /\ Coherent(model) /\ Coherent(h[i].model) /\ Near(model, h[i].model)
        /\ Coherent(h[i - 1].model) /\ h[i].ok /\ h[i].found = {}
    BY <2>2, <2>3, <2>4, <2>5, <2>7
  <2>9. Checked(h[i].model)
    BY <2>2, <2>4, <2>5, <2>8, CleanAt DEF Quiet
  <2>10. Recompute(h[i].model, TRUE) = h[i].model
    BY <2>9, SettledIsNear DEF RecomputeIfPossible, Checked
  <2>11. \A k : Carried(h[i].model, k) => Carried(model, k)
    BY <2>8, <2>10, UnsettledCarries
  <2>12. DroppedDemand(model) <= DroppedDemand(h[i].model)
    <3>1. model.services = h[i].model.services
      BY <2>8 DEF Near
    <3> QED BY <2>8, <2>11, <3>1, LessDropped
  <2>13. DroppedDemand(h[i].model) <= Tolerance
    BY <2>8, <2>9, ToleratedDrop DEF StatusFindings, Checked
  <2>14. /\ DroppedDemand(model) \in Nat /\ DroppedDemand(h[i].model) \in Nat /\ Tolerance \in Nat
    <3>1. ASSUME NEW s, Coherent(s) PROVE DroppedDemand(s) \in Nat
      <4> DEFINE D == DroppedServices(s)
      <4>1. D \in SUBSET (DOMAIN s.services)
        BY DEF DroppedServices
      <4>2. IsFiniteSet(D) /\ Counts(Demand, D)
        BY <3>1, <4>1, Demands, FS_Subset DEF Counts
      <4> QED BY <4>2, TotalTakes DEF DroppedDemand
    <3> QED BY <2>8, <3>1, ValidationAssumption
  <2> QED BY <2>12, <2>13, <2>14
<1> QED BY <1>1, CommitInvariant, PTL

\* 1:1 admission: whatever sections fail together, a model that audited clean
\* carries its traffic without congesting a link that is still up.
THEOREM FailoverIsAdmitted ==
  ASSUME IsFiniteSet(ServiceIds)
  PROVE  Spec => []FailoverNeverCongests
<1>1. CommitInv => FailoverNeverCongests
  <2> DEFINE m == RecomputeIfPossible(model)
             lit == UNION {OmsOf(model, id) : id \in Lit(model)}
  <2> SUFFICES ASSUME CommitInv, AuditsClean(model), NEW cut \in SUBSET lit
               PROVE  CongestedLinks(InjectFailure(m, cut)) = {}
    BY Zenon DEF FailoverNeverCongests
  <2>1. cut \in SUBSET Failable
    <3>1. ASSUME NEW id \in Lit(model) PROVE OmsOf(model, id) \subseteq OMS
      <4>1. model.lightpaths[id].oms \in Seq(OMS)
        BY DEF CommitInv, Coherent, IsModel, IsMap, Lit, Lightpath
      <4> QED BY <4>1 DEF OmsOf, Range
    <3> QED BY <3>1 DEF Failable
  <2> HIDE DEF lit
  <2>2. Coherent(m)
    BY SettlingInv DEF CommitInv
  <2>3. StatusFindings(m) = {} /\ EndpointFindings(m) = {}
    <3> DEFINE s == StateFindings(model)
    <3>1. s.found = {} /\ EndpointFindings(s.model) = {}
      BY Zenon DEF AuditsClean, Audit
    <3> HIDE DEF s
    <3>2. s = StateFindings(model)
      BY DEF s
    <3> QED BY <3>1, <3>2, StateFindingsIs
  <2> HIDE DEF m
  <2> SUFFICES ASSUME NEW k, k \in CongestedLinks(InjectFailure(m, cut)) PROVE FALSE
    OBVIOUS
  <2> DEFINE n == InjectFailure(m, cut)
             cap == Capacity(m, k)
  <2>4. LinkStatus(n, k) = "up" /\ ActiveLoad(n, k) > Capacity(n, k)
    BY DEF CongestedLinks
  <2>5. LinkStatus(m, k) = "up" /\ Capacity(n, k) = cap
    BY <2>1, <2>2, <2>4, CutOnlyLowers
  <2>6. k \in DOMAIN m.ipLinks /\ cap \in Nat
    BY <2>2, <2>5, StatusIs
  <2> HIDE DEF n, cap
  <2>7. ~ (ActiveLoad(m, k) > cap)
    <3>1. k \notin CongestedLinks(m)
      <4>1. k \in CongestedLinks(m) => <<"ip_link_overload", k>> \in StatusFindings(m)
        BY DEF StatusFindings, IpFindings
      <4> QED BY <2>3, <4>1
    <3> QED BY <2>5, <2>6, <3>1 DEF CongestedLinks, cap
  <2>8. ~ (Reserved(m, k) > 0 /\ OfferedLoad(m, k) + Reserved(m, k) > cap)
    <3>1. \A j : <<"protection_oversubscribed", j>> \notin ProtectionOversubscriptionFindings(m)
      BY <2>3 DEF EndpointFindings
    <3> QED BY <2>5, <2>6, <3>1 DEF ProtectionOversubscriptionFindings, cap
  <2>9. /\ ActiveLoad(m, k) \in Nat /\ OfferedLoad(m, k) \in Nat /\ Reserved(m, k) \in Nat
        /\ ActiveLoad(n, k) \in Nat
    <3>1. Coherent(n)
      BY <2>1, <2>2, InjectFailureInv DEF n
    <3> QED BY <2>2, <3>1, LoadsAreCounts
  <2>10. ActiveLoad(n, k) <= cap
    BY <2>1, <2>2, <2>6, <2>7, <2>8, <2>9, CutFits DEF n
  <2> QED BY <2>4, <2>5, <2>6, <2>9, <2>10 DEF n
<1> QED BY <1>1, CommitInvariant, PTL
===============================================================================
