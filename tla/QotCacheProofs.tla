---------------------------- MODULE QotCacheProofs ----------------------------
(***************************************************************************)
(* Proofs about QotCache for every topology, every number of branches and  *)
(* every size of the caches: no history of questions, degradations,        *)
(* evictions and aborted propagations makes a cache answer for another     *)
(* physical path than the one asked about.                                 *)
(***************************************************************************)
EXTENDS QotCache, FiniteSetTheorems, TLAPS

-------------------------------------------------------------------------------
(* Shapes.                                                                 *)

IsCache(cache) == cache = [entries |-> cache.entries, order |-> cache.order]

IsEnv(e) ==
  /\ e = [qot |-> e.qot, harvest |-> e.harvest, increments |-> e.increments,
          networks |-> e.networks, store |-> e.store]
  /\ IsCache(e.qot) /\ IsCache(e.harvest) /\ IsCache(e.increments) /\ IsCache(e.networks)

\* The fingerprint of a path that could be walked.
Walkable(chain) == DOMAIN chain = {"sections", "drop"}

QotExact(e) ==
  \A key \in DOMAIN e.qot.entries :
    /\ Walkable(key.chain)
    /\ e.qot.entries[key] = Result(key.chain, key.comb, key.slot, key.margin, 0)

HarvestExact(e) ==
  \A key \in DOMAIN e.harvest.entries :
    /\ Walkable(key.chain)
    /\ e.harvest.entries[key] = Harvest(key.chain, key.margin, 0)

IncrementsExact(e) ==
  \A f \in DOMAIN e.increments.entries : e.increments.entries[f] = f

\* Every entry is the value of its own key, with design gains.
Exact(e) == IsEnv(e) /\ QotExact(e) /\ HarvestExact(e) /\ IncrementsExact(e)

IInv == Exact(env)

-------------------------------------------------------------------------------
(* Caches and networks.                                                    *)

LEMMA PutOneEntries ==
  ASSUME NEW cache, NEW key, NEW value, NEW max
  PROVE  LET put == PutOne(cache, key, value, max)
         IN  /\ IsCache(put)
             /\ DOMAIN put.entries \subseteq DOMAIN cache.entries \cup {key}
             /\ key \in DOMAIN put.entries /\ put.entries[key] = value
             /\ \A k \in DOMAIN put.entries : k # key => put.entries[k] = cache.entries[k]
BY DEF PutOne, IsCache, Put, Restrict

LEMMA PutAllEntries ==
  ASSUME NEW cache, NEW new, NEW keys, NEW max
  PROVE  LET put == PutAll(cache, new, keys, max)
         IN  /\ IsCache(put)
             /\ DOMAIN put.entries \subseteq DOMAIN cache.entries \cup DOMAIN new
             /\ \A k \in DOMAIN put.entries :
                  put.entries[k] = IF k \in DOMAIN new THEN new[k] ELSE cache.entries[k]
BY DEF PutAll, IsCache

\* What stays the same when only the synthesized networks are touched.
SameBut(e, n) ==
  /\ IsEnv(n)
  /\ n.qot = e.qot /\ n.harvest = e.harvest /\ n.increments = e.increments /\ n.store = e.store

LEMMA BuiltAtDesign ==
  ASSUME NEW e, IsEnv(e), NEW b
  PROVE  SameBut(e, BuildNetwork(e, b)) /\ Drift(BuildNetwork(e, b), b) = 0
<1> DEFINE fp == physics[b]
<1>1. CASE Has(e.networks, fp)
  BY <1>1 DEF BuildNetwork, Has, Drift, SameBut, IsEnv, IsCache
<1>2. CASE ~ Has(e.networks, fp)
  <2>1. PutOne(e.networks, fp, 0, NetworkMax).entries[fp] = 0
        /\ IsCache(PutOne(e.networks, fp, 0, NetworkMax))
    BY PutOneEntries
  <2> HIDE DEF fp
  <2>2. BuildNetwork(e, b) = [e EXCEPT !.networks = PutOne(e.networks, fp, 0, NetworkMax)]
    BY <1>2 DEF BuildNetwork, fp
  <2> QED BY <2>1, <2>2 DEF Drift, SameBut, IsEnv, fp
<1> QED BY <1>1, <1>2

LEMMA RatchetTouchesNetworks ==
  ASSUME NEW e, IsEnv(e), NEW b
  PROVE  SameBut(e, Ratcheted(e, b))
BY DEF Ratcheted, SameBut, IsEnv, IsCache

LEMMA NetworksAreIrrelevant ==
  ASSUME NEW e, NEW n, Exact(e), SameBut(e, n)
  PROVE  Exact(n)
BY DEF Exact, SameBut, QotExact, HarvestExact, IncrementsExact

-------------------------------------------------------------------------------
(* Questions.                                                              *)

LEMMA ChainIsWalkable ==
  ASSUME NEW b, NEW seq, NEW dir
  PROVE  Walkable(Chain(b, seq, dir)) /\ Chain(b, seq, dir) = Walked(b, seq, dir)
BY DEF Walkable, Chain, Walked

LEMMA UnpairedIsNotWalkable ==
  ASSUME NEW seq PROVE ~ Walkable([unpaired |-> seq])
BY DEF Walkable

LEMMA ComputeExact ==
  ASSUME NEW e, Exact(e), NEW b, NEW seq, NEW dir, NEW comb, NEW slot, Answerable(seq, dir)
  PROVE  /\ Exact(ComputeQot(e, b, seq, dir, comb, slot).env)
         /\ ComputeQot(e, b, seq, dir, comb, slot).value = Fresh(b, seq, dir, comb, slot)
<1> DEFINE key == QotKey(b, seq, dir, comb, slot)
           fresh == Fresh(b, seq, dir, comb, slot)
           built == BuildNetwork(e, b)
           left == Ratcheted(built, b)
<1>1. /\ Walkable(key.chain)
      /\ Result(key.chain, key.comb, key.slot, key.margin, 0) = fresh
  BY ChainIsWalkable DEF QotKey, Fresh
<1>2. IsEnv(e) /\ QotExact(e)
  BY DEF Exact
<1>3. CASE Has(e.qot, key)
  <2>1. e.qot.entries[key] = fresh
    BY <1>1, <1>2, <1>3 DEF QotExact, Has
  <2> DEFINE x == [e EXCEPT !.qot = Hit(@, key)]
             y == [x EXCEPT !.store = StorePut(@)]
  <2>2. ComputeQot(e, b, seq, dir, comb, slot).env = y
        /\ ComputeQot(e, b, seq, dir, comb, slot).value = fresh
    BY <1>3, <2>1 DEF ComputeQot
  <2>3. IsCache(Hit(e.qot, key)) /\ Hit(e.qot, key).entries = e.qot.entries
    BY <1>2 DEF Hit, IsCache, IsEnv
  <2>4. IsEnv(x) /\ x.qot.entries = e.qot.entries /\ x.harvest = e.harvest /\ x.increments = e.increments
    BY <1>2, <2>3 DEF IsEnv
  <2>5. IsEnv(y) /\ y.qot = x.qot /\ y.harvest = x.harvest /\ y.increments = x.increments
    <3> HIDE DEF x
    <3> QED BY <2>4 DEF IsEnv
  <2>6. Exact(y)
    BY <2>4, <2>5 DEF Exact, QotExact, HarvestExact, IncrementsExact
  <2> QED BY <2>2, <2>6
<1>4. CASE ~ Has(e.qot, key)
  <2>1. SameBut(e, built) /\ Drift(built, b) = 0
    BY <1>2, BuiltAtDesign
  <2>2. SameBut(built, left)
    BY <2>1, RatchetTouchesNetworks DEF SameBut
  <2>3. Exact(left) /\ IsEnv(left)
    BY <2>1, <2>2, NetworksAreIrrelevant DEF Exact
  <2> DEFINE put == PutOne(left.qot, key, fresh, QotMax)
             x == [left EXCEPT !.qot = put]
             y == [x EXCEPT !.store = StorePut(@)]
  <2>4. ComputeQot(e, b, seq, dir, comb, slot).env = y
        /\ ComputeQot(e, b, seq, dir, comb, slot).value = fresh
    BY <1>4, <2>1 DEF ComputeQot, Fresh
  <2>5. /\ IsCache(put)
        /\ \A k \in DOMAIN put.entries :
             \/ k = key /\ put.entries[k] = fresh
             \/ k \in DOMAIN left.qot.entries /\ put.entries[k] = left.qot.entries[k]
    BY PutOneEntries
  <2>6. IsEnv(x) /\ x.qot = put /\ x.harvest = left.harvest /\ x.increments = left.increments
    <3> HIDE DEF put
    <3> QED BY <2>3, <2>5 DEF IsEnv
  <2>7. IsEnv(y) /\ y.qot = put /\ y.harvest = left.harvest /\ y.increments = left.increments
    <3> HIDE DEF x, put
    <3> QED BY <2>6 DEF IsEnv
  <2>8. QotExact(y)
    <3> HIDE DEF y, put, left, key, fresh
    <3> QED BY <1>1, <2>3, <2>5, <2>7 DEF QotExact, Exact
  <2>9. HarvestExact(y) /\ IncrementsExact(y)
    <3> HIDE DEF y, put, left
    <3> QED BY <2>3, <2>7 DEF HarvestExact, IncrementsExact, Exact
  <2> QED BY <2>4, <2>7, <2>8, <2>9 DEF Exact
<1> QED BY <1>3, <1>4

LEMMA UnansweredIsNotCached ==
  ASSUME NEW e, Exact(e), NEW b, NEW seq, NEW dir, ~ Answerable(seq, dir)
  PROVE  /\ ~ Has(e.harvest, HarvestKey(b, seq, dir))
         /\ \A comb, slot : ~ Has(e.qot, QotKey(b, seq, dir, comb, slot))
BY UnpairedIsNotWalkable DEF Exact, HarvestExact, QotExact, Has, HarvestKey, QotKey

\* What is captured from the walk of a path is every section's own increment.
LEMMA CapturedIsExact ==
  ASSUME NEW b, NEW seq, NEW dir, NEW f \in DOMAIN Captured(b, seq, dir)
  PROVE  Captured(b, seq, dir)[f] = f
<1> DEFINE names == CapturedOrder(b, seq, dir)
           place == CHOOSE i \in 1 .. Len(seq) : names[i] = f
<1>1. f \in Range(names)
  BY DEF Captured
<1>2. PICK i \in 1 .. Len(seq) : names[i] = f
  BY <1>1 DEF Range, CapturedOrder
<1>3. place \in 1 .. Len(seq) /\ names[place] = f
  BY <1>2
<1>4. names[place] = Fingerprint(b, Resolved(seq, dir)[place])
  BY <1>3 DEF CapturedOrder, Boundaries
<1> QED BY <1>1, <1>3, <1>4 DEF Captured

LEMMA HarvestIsExact ==
  ASSUME NEW e, Exact(e), NEW b, NEW seq, NEW dir, Answerable(seq, dir)
  PROVE  /\ Exact(HarvestQot(e, b, seq, dir).env)
         /\ HarvestQot(e, b, seq, dir).value = Harvest(Walked(b, seq, dir), MarginOf[b], 0)
<1> DEFINE key == HarvestKey(b, seq, dir)
           fresh == Harvest(Walked(b, seq, dir), MarginOf[b], 0)
           built == BuildNetwork(e, b)
           left == Ratcheted(built, b)
<1>1. Walkable(key.chain) /\ Harvest(key.chain, key.margin, 0) = fresh
  BY ChainIsWalkable DEF HarvestKey
<1>2. IsEnv(e) /\ HarvestExact(e)
  BY DEF Exact
<1>3. CASE Has(e.harvest, key)
  <2>1. e.harvest.entries[key] = fresh
    BY <1>1, <1>2, <1>3 DEF HarvestExact, Has
  <2> DEFINE x == [e EXCEPT !.harvest = Hit(@, key)]
  <2>2. HarvestQot(e, b, seq, dir).env = x /\ HarvestQot(e, b, seq, dir).value = fresh
    BY <1>3, <2>1 DEF HarvestQot
  <2>3. IsCache(Hit(e.harvest, key)) /\ Hit(e.harvest, key).entries = e.harvest.entries
    BY <1>2 DEF Hit, IsCache, IsEnv
  <2>4. IsEnv(x) /\ x.qot = e.qot /\ x.harvest.entries = e.harvest.entries /\ x.increments = e.increments
    BY <1>2, <2>3 DEF IsEnv
  <2>5. Exact(x)
    BY <2>4 DEF Exact, QotExact, HarvestExact, IncrementsExact
  <2> QED BY <2>2, <2>5
<1>4. CASE ~ Has(e.harvest, key)
  <2>1. SameBut(e, built) /\ Drift(built, b) = 0
    BY <1>2, BuiltAtDesign
  <2>2. SameBut(built, left)
    BY <2>1, RatchetTouchesNetworks DEF SameBut
  <2>3. Exact(left) /\ IsEnv(left)
    BY <2>1, <2>2, NetworksAreIrrelevant DEF Exact
  <2> DEFINE put == PutOne(left.harvest, key, fresh, HarvestMax)
             table == PutAll(left.increments, Captured(b, seq, dir), CapturedOrder(b, seq, dir), IncrementMax)
             x == [left EXCEPT !.harvest = put]
             y == [x EXCEPT !.increments = table]
  <2>4. HarvestQot(e, b, seq, dir).env = y /\ HarvestQot(e, b, seq, dir).value = fresh
    BY <1>4, <2>1 DEF HarvestQot
  <2>5. /\ IsCache(put)
        /\ \A k \in DOMAIN put.entries :
             \/ k = key /\ put.entries[k] = fresh
             \/ k \in DOMAIN left.harvest.entries /\ put.entries[k] = left.harvest.entries[k]
    BY PutOneEntries
  <2>6. IsCache(table) /\ \A f \in DOMAIN table.entries : table.entries[f] = f
    <3>1. IsCache(table)
          /\ DOMAIN table.entries \subseteq DOMAIN left.increments.entries \cup DOMAIN Captured(b, seq, dir)
          /\ \A f \in DOMAIN table.entries :
               table.entries[f] = IF f \in DOMAIN Captured(b, seq, dir) THEN Captured(b, seq, dir)[f]
                                  ELSE left.increments.entries[f]
      BY PutAllEntries
    <3>2. IncrementsExact(left)
      BY <2>3 DEF Exact
    <3> HIDE DEF table, left
    <3> QED BY <3>1, <3>2, CapturedIsExact DEF IncrementsExact
  <2>7. IsEnv(y) /\ y.qot = left.qot /\ y.harvest = put /\ y.increments = table
    <3>1. IsEnv(x) /\ x.qot = left.qot /\ x.harvest = put
      <4> HIDE DEF put, left
      <4> QED BY <2>3, <2>5 DEF IsEnv
    <3> HIDE DEF put, table, left, x
    <3> QED BY <3>1, <2>6 DEF IsEnv
  <2>8. HarvestExact(y)
    <3> HIDE DEF y, put, left, key, fresh
    <3> QED BY <1>1, <2>3, <2>5, <2>7 DEF HarvestExact, Exact
  <2>9. QotExact(y) /\ IncrementsExact(y)
    <3> HIDE DEF y, table, left
    <3> QED BY <2>3, <2>6, <2>7 DEF QotExact, IncrementsExact, Exact
  <2> QED BY <2>4, <2>7, <2>8, <2>9 DEF Exact
<1> QED BY <1>3, <1>4

\* A harvest, found or propagated, leaves the result store alone.
LEMMA HarvestKeepsStore ==
  ASSUME NEW e, IsEnv(e), NEW b, NEW seq, NEW dir
  PROVE  LET r == HarvestQot(e, b, seq, dir) IN IsEnv(r.env) /\ r.env.store = e.store
<1> DEFINE key == HarvestKey(b, seq, dir)
           built == BuildNetwork(e, b)
           left == Ratcheted(built, b)
           vec == Harvest(Walked(b, seq, dir), MarginOf[b], Drift(built, b))
           put == PutOne(left.harvest, key, vec, HarvestMax)
           table == PutAll(left.increments, Captured(b, seq, dir), CapturedOrder(b, seq, dir), IncrementMax)
           x == [left EXCEPT !.harvest = put]
           y == [x EXCEPT !.increments = table]
           hit == [e EXCEPT !.harvest = Hit(@, key)]
<1>1. HarvestQot(e, b, seq, dir).env = IF Has(e.harvest, key) THEN hit ELSE y
  BY DEF HarvestQot
<1>2. IsCache(Hit(e.harvest, key)) /\ IsCache(put) /\ IsCache(table)
  <2>1. IsCache(Hit(e.harvest, key))
    BY DEF Hit, IsCache, IsEnv
  <2> QED BY <2>1, PutOneEntries, PutAllEntries
<1>3. SameBut(e, built) /\ SameBut(built, left)
  BY BuiltAtDesign, RatchetTouchesNetworks DEF SameBut
<1> HIDE DEF key, put, table, left, built
<1>4. IsEnv(hit) /\ hit.store = e.store
  BY <1>2 DEF IsEnv
<1>5. IsEnv(x) /\ x.store = e.store
  BY <1>2, <1>3 DEF IsEnv, SameBut
<1> HIDE DEF x
<1>6. IsEnv(y) /\ y.store = e.store
  BY <1>2, <1>5 DEF IsEnv
<1> QED BY <1>1, <1>4, <1>6

LEMMA ComposeIsExact ==
  ASSUME NEW e, Exact(e), NEW b, NEW seq, NEW dir, NEW slot, Composable(e, b, seq, dir, slot)
  PROVE  /\ Exact(ComposeGsnr(e, b, seq, dir).env)
         /\ ComposeGsnr(e, b, seq, dir).value = Walked(b, seq, dir).sections
<1> DEFINE wanted == Wanted(b, seq, dir)
           order == FoldLeft(Touched, e.increments.order, wanted)
           x == [e EXCEPT !.increments.order = order]
<1>1. \A i \in 1 .. Len(seq) : e.increments.entries[wanted[i]] = wanted[i]
  <2>1. \A f \in Range(wanted) : e.increments.entries[f] = f
    BY DEF Composable, Has, Exact, IncrementsExact
  <2> QED BY <2>1 DEF Range, Wanted
<1>2. ComposeGsnr(e, b, seq, dir).value = Walked(b, seq, dir).sections
  BY <1>1 DEF ComposeGsnr, Wanted, Walked
<1>3. ComposeGsnr(e, b, seq, dir).env = x
  BY DEF ComposeGsnr
<1> HIDE DEF order
<1>4. IsEnv(x) /\ x.qot = e.qot /\ x.harvest = e.harvest /\ x.increments.entries = e.increments.entries
  BY DEF Exact, IsEnv, IsCache
<1>5. Exact(x)
  BY <1>4 DEF Exact, QotExact, HarvestExact, IncrementsExact
<1> QED BY <1>2, <1>3, <1>5

-------------------------------------------------------------------------------
(* Theorems.                                                               *)

LEMMA ExactInit == Init => IInv
BY DEF Init, IInv, Exact, IsEnv, IsCache, QotExact, HarvestExact, IncrementsExact, EmptyCache, EmptyMap

LEMMA ExactStep ==
  ASSUME IInv, Next PROVE IInv'
<1> USE DEF IInv
<1>1. ASSUME NEW b, NEW o, NEW level, Degrade(b, o, level) PROVE IInv'
  BY <1>1 DEF Degrade, Exact, IsEnv, IsCache, QotExact, HarvestExact, IncrementsExact
<1>2. ASSUME NEW b, NEW seq, NEW dir, NEW comb, NEW slot, Compute(b, seq, dir, comb, slot) PROVE IInv'
  <2>1. Exact(ComputeQot(env, b, seq, dir, comb, slot).env)
    BY <1>2, ComputeExact DEF Compute, Raises
  <2> QED BY <1>2, <2>1 DEF Compute, Exact, IsEnv, IsCache, QotExact, HarvestExact, IncrementsExact
<1>3. ASSUME NEW b, NEW seq, NEW comb, NEW slot, Gated(b, seq, comb, slot) PROVE IInv'
  <2> DEFINE fwd == ComputeQot(env, b, seq, "forward", comb, slot)
             bwd == ComputeQot(fwd.env, b, seq, "backward", comb, slot)
  <2>1. Answerable(seq, "forward") /\ Answerable(seq, "backward")
    BY <1>3 DEF Gated, Raises, Answerable
  <2>2. Exact(fwd.env)
    BY <2>1, ComputeExact
  <2>3. Exact(bwd.env)
    <3> HIDE DEF fwd
    <3> QED BY <2>1, <2>2, ComputeExact
  <2>4. env' = bwd.env
    BY <1>3 DEF Gated, GatedQot
  <2> HIDE DEF bwd
  <2> QED BY <2>3, <2>4 DEF Exact, IsEnv, IsCache, QotExact, HarvestExact, IncrementsExact
<1>4. ASSUME NEW b, NEW seq, NEW dir, Evaluate(b, seq, dir) PROVE IInv'
  <2>1. Answerable(seq, dir)
    BY <1>4, UnansweredIsNotCached DEF Evaluate
  <2>2. Exact(HarvestQot(env, b, seq, dir).env)
    BY <2>1, HarvestIsExact
  <2> QED BY <1>4, <2>2 DEF Evaluate, Exact, IsEnv, IsCache, QotExact, HarvestExact, IncrementsExact
<1>5. ASSUME NEW b, NEW seq, NEW dir, NEW slot, Compose(b, seq, dir, slot) PROVE IInv'
  <2>1. Exact(ComposeGsnr(env, b, seq, dir).env)
    BY <1>5, ComposeIsExact DEF Compose
  <2> QED BY <1>5, <2>1 DEF Compose, Exact, IsEnv, IsCache, QotExact, HarvestExact, IncrementsExact
<1>6. ASSUME NEW b, Fail(b) PROVE IInv'
  <2> DEFINE built == BuildNetwork(env, b)
  <2>1. SameBut(env, built) /\ IsEnv(built)
    BY BuiltAtDesign DEF Exact, SameBut
  <2>2. Exact(Ratcheted(built, b))
    <3> HIDE DEF built
    <3> QED BY <2>1, RatchetTouchesNetworks, NetworksAreIrrelevant
  <2> QED BY <1>6, <2>2 DEF Fail, Exact, IsEnv, IsCache, QotExact, HarvestExact, IncrementsExact
<1>7. CASE Tick
  BY <1>7 DEF Tick, Exact, IsEnv, IsCache, QotExact, HarvestExact, IncrementsExact
<1> QED BY <1>1, <1>2, <1>3, <1>4, <1>5, <1>6, <1>7 DEF Next

\* Every entry of every cache is the value of its own key at design gains: no
\* question, degradation, eviction or aborted propagation of adapter.py writes
\* an entry under a key that does not determine it.
THEOREM EntriesMatchTheirKeys == Spec => []IInv
<1>1. IInv /\ UNCHANGED vars => IInv'
  BY DEF IInv, vars, Exact, IsEnv, IsCache, QotExact, HarvestExact, IncrementsExact
<1> QED BY ExactInit, ExactStep, <1>1, PTL DEF Spec

LEMMA ExactAnswers == IInv => AnswerIsExact
<1> SUFFICES ASSUME IInv, NEW b \in Branches, NEW seq \in QotPaths, NEW dir \in Directions
             PROVE  /\ \A comb \in Combs : \A slot \in comb : ComputedExactly(env, b, seq, dir, comb, slot)
                    /\ HarvestedExactly(env, b, seq, dir)
                    /\ \A slot \in Slots : ComposedExactly(env, b, seq, dir, slot)
  BY DEF AnswerIsExact
<1> USE DEF IInv
<1>1. ASSUME NEW comb, NEW slot PROVE ComputedExactly(env, b, seq, dir, comb, slot)
  BY ComputeExact DEF ComputedExactly, Raises
<1>2. ASSUME Answerable(seq, dir) PROVE HarvestedExactly(env, b, seq, dir)
  <2>1. Harvest(Walked(b, seq, dir), MarginOf[b], 0)
        = [s \in Slots \ EdgeSlots |-> Fresh(b, seq, dir, Slots, s)]
    BY DEF Harvest, Fresh
  <2> QED BY <1>2, <2>1, HarvestIsExact DEF HarvestedExactly
<1>3. ASSUME ~ Answerable(seq, dir) PROVE HarvestedExactly(env, b, seq, dir)
  BY <1>3, UnansweredIsNotCached DEF HarvestedExactly
<1>4. ASSUME NEW slot PROVE ComposedExactly(env, b, seq, dir, slot)
  BY ComposeIsExact DEF ComposedExactly
<1> QED BY <1>1, <1>2, <1>3, <1>4

\* Whatever is asked next, on whichever branch, is answered as a propagation
\* from design gains on that branch would answer it, from any cache, from a
\* reused network or composed of the table of increments.
THEOREM AnswersAreExact == Spec => []AnswerIsExact
BY EntriesMatchTheirKeys, ExactAnswers, PTL

-------------------------------------------------------------------------------
(* The result store.                                                       *)

\* What is stored was issued, and was born at a time of the clock.
IsStore(store) ==
  /\ store = [born |-> store.born, issued |-> store.issued]
  /\ store.issued \in Nat /\ DOMAIN store.born \subseteq 1 .. store.issued

StoreInv == now \in Nat /\ IsEnv(env) /\ IsStore(env.store)

\* The oldest goes only when there are older ones than two that were not to go.
LEMMA RoomForTwo ==
  ASSUME NEW ids, NEW a \in ids, NEW b \in ids, ids \subseteq Nat,
         \A id \in ids : id <= b, \A id \in ids : id = b \/ id <= a
  PROVE  a \in StoreOldest(ids) /\ b \in StoreOldest(ids) /\ StoreOldest(ids) \subseteq ids
<1>1. CASE Cardinality(ids) > MaxResults
  <2>1. \E id \in ids : id # a /\ id # b
    <3> SUFFICES ASSUME ids \subseteq {a, b} PROVE FALSE
      OBVIOUS
    <3>1. IsFiniteSet({b}) /\ Cardinality({b}) = 1
      BY FS_Singleton
    <3>2. IsFiniteSet({b} \cup {a}) /\ Cardinality({b} \cup {a}) <= 2
      BY <3>1, FS_AddElement
    <3>3. Cardinality(ids) <= 2 /\ Cardinality(ids) \in Nat
      <4>1. ids \subseteq {b} \cup {a}
        OBVIOUS
      <4> QED BY <3>2, <4>1, FS_Subset, FS_CardinalityType
    <3>4. MaxResults \in Nat /\ MaxResults >= 2
      BY CacheAssumption
    <3> QED BY <1>1, <3>3, <3>4
  <2>2. PICK old \in ids : old # a /\ old # b
    BY <2>1
  <2>3. old < a /\ old < b
    BY <2>2
  <2> QED BY <1>1, <2>3 DEF StoreOldest
<1>2. CASE ~ (Cardinality(ids) > MaxResults)
  BY <1>2 DEF StoreOldest
<1> QED BY <1>1, <1>2

\* put keeps the id it returns, and the one returned by the put before it.
LEMMA PutKeeps ==
  ASSUME NEW store, IsStore(store), now \in Nat
  PROVE  LET put == StorePut(store)
         IN  /\ IsStore(put) /\ put.issued = store.issued + 1
             /\ put.issued \in DOMAIN put.born /\ put.born[put.issued] = now
             /\ (store.issued \in DOMAIN store.born /\ store.born[store.issued] = now)
                  => store.issued \in DOMAIN put.born
<1> DEFINE new == store.issued + 1
           ids == Live(store) \cup {new}
           kept == StoreOldest(ids)
           put == [born |-> [id \in kept |-> IF id = new THEN now ELSE store.born[id]], issued |-> new]
<1>1. StorePut(store) = put
  BY DEF StorePut
<1>2. /\ new \in ids /\ new \in Nat /\ Live(store) \subseteq 1 .. store.issued
      /\ ids \subseteq Nat /\ \A id \in ids : id <= new
      /\ \A id \in ids : id = new \/ id <= store.issued
  BY DEF Live, IsStore
<1> HIDE DEF ids
<1> HIDE DEF new
<1>3. new \in kept /\ kept \subseteq ids
  BY <1>2, RoomForTwo
<1>4. ASSUME store.issued \in DOMAIN store.born, store.born[store.issued] = now
      PROVE  store.issued \in kept
  <2>1. store.issued \in Live(store)
    BY <1>4, CacheAssumption DEF Live, IsStore
  <2>2. store.issued \in ids
    BY <2>1 DEF ids
  <2> QED BY <1>2, <2>2, RoomForTwo
<1> HIDE DEF kept
<1>5. IsStore(put)
  <2>1. ids \subseteq 1 .. new
    BY DEF ids, new, Live, IsStore
  <2>2. DOMAIN put.born \subseteq 1 .. new /\ put.issued = new /\ put = [born |-> put.born, issued |-> put.issued]
    BY <1>3, <2>1
  <2> HIDE DEF put
  <2> QED BY <1>2, <2>2 DEF IsStore
<1> QED BY <1>1, <1>3, <1>4, <1>5 DEF new

\* A computation stores its result once and touches nothing else of the store.
LEMMA ComputeStores ==
  ASSUME NEW e, IsEnv(e), NEW b, NEW seq, NEW dir, NEW comb, NEW slot
  PROVE  LET r == ComputeQot(e, b, seq, dir, comb, slot)
         IN  IsEnv(r.env) /\ r.env.store = StorePut(e.store) /\ r.id = StorePut(e.store).issued
<1> DEFINE key == QotKey(b, seq, dir, comb, slot)
           built == BuildNetwork(e, b)
           left == Ratcheted(built, b)
           value == Result(Walked(b, seq, dir), comb, slot, MarginOf[b], Drift(built, b))
           put == PutOne(left.qot, key, value, QotMax)
           x == IF Has(e.qot, key) THEN [e EXCEPT !.qot = Hit(@, key)] ELSE [left EXCEPT !.qot = put]
           y == [x EXCEPT !.store = StorePut(@)]
<1>1. ComputeQot(e, b, seq, dir, comb, slot).env = y
      /\ ComputeQot(e, b, seq, dir, comb, slot).id = y.store.issued
  BY DEF ComputeQot
<1>2. IsCache(Hit(e.qot, key))
  BY DEF Hit, IsCache, IsEnv
<1>3. SameBut(e, built) /\ SameBut(built, left)
  BY BuiltAtDesign, RatchetTouchesNetworks DEF SameBut
<1>4. IsCache(put)
  BY PutOneEntries
<1> HIDE DEF key, put, left, built
<1>5. IsEnv(x) /\ x.store = e.store
  BY <1>2, <1>3, <1>4 DEF IsEnv, SameBut
<1> HIDE DEF x
<1>6. IsEnv(y) /\ y.store = StorePut(e.store)
  BY <1>5 DEF IsEnv
<1> QED BY <1>1, <1>6

LEMMA StoreInit == Init => StoreInv
BY DEF Init, StoreInv, IsEnv, IsCache, IsStore, EmptyCache, EmptyMap

LEMMA StoreStep ==
  ASSUME StoreInv, Next PROVE StoreInv'
<1> USE DEF StoreInv
<1>1. ASSUME NEW b, NEW o, NEW level, Degrade(b, o, level) PROVE StoreInv'
  BY <1>1 DEF Degrade, IsEnv, IsCache, IsStore
<1>2. ASSUME NEW b, NEW seq, NEW dir, NEW comb, NEW slot, Compute(b, seq, dir, comb, slot) PROVE StoreInv'
  <2>1. LET r == ComputeQot(env, b, seq, dir, comb, slot) IN IsEnv(r.env) /\ IsStore(r.env.store)
    BY ComputeStores, PutKeeps
  <2> QED BY <1>2, <2>1 DEF Compute, IsEnv, IsCache, IsStore
<1>3. ASSUME NEW b, NEW seq, NEW comb, NEW slot, Gated(b, seq, comb, slot) PROVE StoreInv'
  <2> DEFINE fwd == ComputeQot(env, b, seq, "forward", comb, slot)
             bwd == ComputeQot(fwd.env, b, seq, "backward", comb, slot)
  <2>1. IsEnv(fwd.env) /\ IsStore(fwd.env.store)
    BY ComputeStores, PutKeeps
  <2>2. IsEnv(bwd.env) /\ IsStore(bwd.env.store)
    <3> HIDE DEF fwd
    <3> QED BY <2>1, ComputeStores, PutKeeps
  <2>3. env' = bwd.env /\ now' = now
    BY <1>3 DEF Gated, GatedQot
  <2> HIDE DEF bwd
  <2> QED BY <2>2, <2>3 DEF IsEnv, IsCache, IsStore
<1>4. ASSUME NEW b, NEW seq, NEW dir, Evaluate(b, seq, dir) PROVE StoreInv'
  <2>1. LET r == HarvestQot(env, b, seq, dir) IN IsEnv(r.env) /\ r.env.store = env.store
    BY HarvestKeepsStore
  <2> QED BY <1>4, <2>1 DEF Evaluate, IsEnv, IsCache, IsStore
<1>5. ASSUME NEW b, NEW seq, NEW dir, NEW slot, Compose(b, seq, dir, slot) PROVE StoreInv'
  <2> DEFINE order == FoldLeft(Touched, env.increments.order, Wanted(b, seq, dir))
  <2>1. env' = [env EXCEPT !.increments.order = order] /\ now' = now
    BY <1>5 DEF Compose, ComposeGsnr
  <2> HIDE DEF order
  <2> QED BY <2>1 DEF IsEnv, IsCache, IsStore
<1>6. ASSUME NEW b, Fail(b) PROVE StoreInv'
  <2> DEFINE built == BuildNetwork(env, b)
  <2>1. SameBut(env, built) /\ SameBut(built, Ratcheted(built, b))
    BY BuiltAtDesign, RatchetTouchesNetworks DEF SameBut
  <2> QED BY <1>6, <2>1 DEF Fail, SameBut, IsEnv, IsCache, IsStore
<1>7. CASE Tick
  BY <1>7 DEF Tick, IsEnv, IsCache, IsStore
<1> QED BY <1>1, <1>2, <1>3, <1>4, <1>5, <1>6, <1>7 DEF Next

LEMMA KeptAnswers == StoreInv => AnswerIsKept
<1> SUFFICES ASSUME StoreInv, NEW b, NEW seq, NEW comb, NEW slot
             PROVE  /\ \A dir \in Directions :
                         LET r == ComputeQot(env, b, seq, dir, comb, slot) IN KeepsIts(r.env.store, {r.id})
                    /\ LET r == GatedQot(env, b, seq, comb, slot) IN KeepsIts(r.env.store, r.ids)
  BY DEF AnswerIsKept
<1> USE DEF StoreInv
<1>1. ASSUME NEW dir
      PROVE  LET r == ComputeQot(env, b, seq, dir, comb, slot) IN KeepsIts(r.env.store, {r.id})
  BY ComputeStores, PutKeeps DEF KeepsIts
<1>2. LET r == GatedQot(env, b, seq, comb, slot) IN KeepsIts(r.env.store, r.ids)
  <2> DEFINE fwd == ComputeQot(env, b, seq, "forward", comb, slot)
             bwd == ComputeQot(fwd.env, b, seq, "backward", comb, slot)
  <2>1. /\ IsEnv(fwd.env) /\ IsStore(fwd.env.store) /\ fwd.id = fwd.env.store.issued
        /\ fwd.id \in DOMAIN fwd.env.store.born /\ fwd.env.store.born[fwd.id] = now
    BY ComputeStores, PutKeeps
  <2>2. fwd.id \in DOMAIN bwd.env.store.born /\ bwd.id \in DOMAIN bwd.env.store.born
    <3> HIDE DEF fwd
    <3> QED BY <2>1, ComputeStores, PutKeeps
  <2>3. GatedQot(env, b, seq, comb, slot).env = bwd.env
        /\ GatedQot(env, b, seq, comb, slot).ids = {fwd.id, bwd.id}
    BY DEF GatedQot
  <2> HIDE DEF fwd, bwd
  <2> QED BY <2>2, <2>3 DEF KeepsIts
<1> QED BY <1>1, <1>2

\* Every result id that compute_qot or gated_qot returns can be read back when
\* the call returns, with any cap of at least two: the put of the second
\* direction expires and drops neither its own result nor the first one's.
THEOREM AnswersAreKept == Spec => []AnswerIsKept
<1>1. StoreInv /\ UNCHANGED vars => StoreInv'
  BY DEF StoreInv, vars, IsEnv, IsCache, IsStore
<1> QED BY StoreInit, StoreStep, KeptAnswers, <1>1, PTL DEF Spec
===============================================================================
