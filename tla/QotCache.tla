------------------------------- MODULE QotCache -------------------------------
(***************************************************************************)
(* The caches between a QoT question and GNPy (gnpy_adapter/adapter.py,    *)
(* synthesize.py, composition.py, model/qot_results.py and the evaluator   *)
(* of model/allocation.py), shared by every branch of a session.           *)
(*                                                                         *)
(* They are addressed by content: a key is what a result depends on, and   *)
(* nothing is ever invalidated.  A result is modelled by what it was       *)
(* computed from: the physics of the sections walked, the comb, the probe, *)
(* the design margin and how far the amplifiers had drifted from their     *)
(* design gains.  GNPy itself is outside src/.                             *)
(***************************************************************************)
EXTENDS NetworkState, SequencesExt

CONSTANTS
  Branches,        \* the models of a session, the live one and its branches
  Kind,            \* [OMS -> kinds]: parameters of the elements of a section
  DropKind,        \* [Nodes -> kinds]: parameters of the ROADM that drops
  MarginOf,        \* [Branches -> Int], design_margin_db
  QotPaths,        \* paths asked for
  Combs,           \* loadings asked for
  EdgeSlots,       \* slots the amplifiers filter out at the top of the band
  MaxHops,         \* MAX_COMPOSED_HOPS
  Degraded,        \* the sections whose physics a branch may change
  QotMax, HarvestMax, IncrementMax,  \* maxsize of the caches of results
  NetworkMax,      \* _NETWORK_CACHE_MAX
  MaxResults,      \* max_results of the result store
  Ttl,             \* ttl_seconds
  MaxPuts, MaxNow  \* bounds: results stored, clock

ASSUME CacheAssumption ==
  /\ Kind \in [OMS -> Nat] /\ DropKind \in [Nodes -> Nat] /\ MarginOf \in [Branches -> Int]
  /\ QotPaths \subseteq Seq(OMS) \ {<<>>} /\ Combs \subseteq SUBSET Slots /\ EdgeSlots \subseteq Slots
  /\ MaxHops \in Nat /\ Degraded \in SUBSET (Branches \X OMS)
  /\ {QotMax, HarvestMax, IncrementMax, NetworkMax} \subseteq Nat \ {0}
  /\ MaxResults \in Nat \ {0, 1} /\ Ttl \in Nat /\ MaxPuts \in Nat /\ MaxNow \in Nat

VARIABLES
  physics,         \* [Branches -> [OMS -> Levels]], what was degraded since
  env,             \* caches, synthesized networks and result store
  now              \* time.monotonic()

vars == <<physics, env, now>>

-------------------------------------------------------------------------------
(* Bounded LRU caches: [entries, order], the least recently used key first. *)

EmptyCache == [entries |-> EmptyMap, order |-> <<>>]

Touched(order, key) == Append(SelectSeq(order, LAMBDA k : k # key), key)

Newest(order, max) == SubSeq(order, IF Len(order) > max THEN Len(order) - max + 1 ELSE 1, Len(order))

Has(cache, key) == key \in DOMAIN cache.entries

Hit(cache, key) == [cache EXCEPT !.order = Touched(@, key)]

\* The entries of new are put in the order of keys, then the oldest drop out.
PutAll(cache, new, keys, max) ==
  LET order == Newest(FoldLeft(Touched, cache.order, keys), max)
      kept == Range(order) \cap (DOMAIN cache.entries \cup DOMAIN new)
  IN  [entries |-> [k \in kept |-> IF k \in DOMAIN new THEN new[k] ELSE cache.entries[k]],
       order |-> order]

PutOne(cache, key, value, max) ==
  LET order == Newest(Touched(cache.order, key), max)
  IN  [entries |-> Put(Restrict(cache.entries, DOMAIN cache.entries \cap Range(order)), key, value),
       order |-> order]

-------------------------------------------------------------------------------
(* Keys.                                                                   *)

Directions == {"forward", "backward"}

\* _oms_fingerprint_parts: the physics of a section and no identity.
Fingerprint(b, o) == <<Kind[o], physics[b][o]>>

Reverse1(o) == CHOOSE p \in OMS : Opposite(o) = {p}

\* The sections a request walks, in travel order.
Resolved(seq, dir) ==
  IF dir = "forward" THEN seq
  ELSE [i \in 1 .. Len(seq) |-> Reverse1(seq[Len(seq) + 1 - i])]

Answerable(seq, dir) == dir = "forward" \/ Propagatable(seq)

\* _path_physical_fingerprint, of a path that resolves in that direction.
Chain(b, seq, dir) ==
  LET walk == Resolved(seq, dir)
  IN  [sections |-> [i \in 1 .. Len(seq) |-> Fingerprint(b, walk[i])],
       drop |-> DropKind[Dst[walk[Len(seq)]]]]

\* _cache_key and harvest_cache_key; without a way back the fingerprint is the
\* path's own, which nothing is ever stored under.
QotKey(b, seq, dir, comb, slot) ==
  [seq |-> seq, dir |-> dir, comb |-> comb, slot |-> slot, margin |-> MarginOf[b],
   chain |-> IF Answerable(seq, dir) THEN Chain(b, seq, dir) ELSE [unpaired |-> seq]]

HarvestKey(b, seq, dir) ==
  [margin |-> MarginOf[b],
   chain |-> IF Answerable(seq, dir) THEN Chain(b, seq, dir) ELSE [unpaired |-> seq]]

-------------------------------------------------------------------------------
(* A result, and what a propagation on the branch would return right now.   *)

Result(chain, comb, slot, margin, drift) ==
  [chain |-> chain, comb |-> comb, slot |-> slot, margin |-> margin, drift |-> drift]

\* What the elements walked add up to, whatever the keys say.
Walked(b, seq, dir) ==
  LET walk == Resolved(seq, dir)
  IN  [sections |-> [i \in 1 .. Len(seq) |-> Fingerprint(b, walk[i])],
       drop |-> DropKind[Dst[walk[Len(seq)]]]]

Fresh(b, seq, dir, comb, slot) == Result(Walked(b, seq, dir), comb, slot, MarginOf[b], 0)

-------------------------------------------------------------------------------
(* Synthesized networks: one per physical layer, with the drift of its     *)
(* amplifiers.  Propagation ratchets their gains down in place.            *)

ReuseAsLeft(e, b) ==                                                 \* mutant
  LET fp == physics[b]
  IN  IF Has(e.networks, fp) THEN [e EXCEPT !.networks = Hit(@, fp)]
      ELSE [e EXCEPT !.networks = PutOne(@, fp, 0, NetworkMax)]

\* build_gnpy_network: a reused network goes back to its design gains first.
BuildNetwork(e, b) ==
  LET fp == physics[b]
  IN  IF Has(e.networks, fp)
      THEN [e EXCEPT !.networks = [entries |-> [@.entries EXCEPT ![fp] = 0], order |-> Touched(@.order, fp)]]
      ELSE [e EXCEPT !.networks = PutOne(@, fp, 0, NetworkMax)]

Drift(e, b) == e.networks.entries[physics[b]]

Ratcheted(e, b) == [e EXCEPT !.networks.entries[physics[b]] = 1]

-------------------------------------------------------------------------------
(* The result store.                                                       *)
(* Ids are numbered as they are issued, so the smallest is the oldest.     *)

Live(store) == {id \in DOMAIN store.born : now - store.born[id] <= Ttl}

StoreNewest(ids) ==                                                  \* mutant
  IF Cardinality(ids) > MaxResults THEN {id \in ids : \E newer \in ids : id < newer} ELSE ids

StoreOldest(ids) ==
  IF Cardinality(ids) > MaxResults THEN {id \in ids : \E older \in ids : older < id} ELSE ids

\* put: the expired drop out, then the oldest when there is no room.
StorePut(store) ==
  LET new == store.issued + 1
      kept == StoreOldest(Live(store) \cup {new})
  IN  [born |-> [id \in kept |-> IF id = new THEN now ELSE store.born[id]], issued |-> new]

-------------------------------------------------------------------------------
(* compute_qot: [env, value, id].                                          *)

ComputeQot(e, b, seq, dir, comb, slot) ==
  LET key == QotKey(b, seq, dir, comb, slot)
      stored(x) == [x EXCEPT !.store = StorePut(@)]
      answer(x, value) == [env |-> x, value |-> value, id |-> x.store.issued]
      built == BuildNetwork(e, b)
      value == Result(Walked(b, seq, dir), comb, slot, MarginOf[b], Drift(built, b))
  IN  IF Has(e.qot, key)
      THEN answer(stored([e EXCEPT !.qot = Hit(@, key)]), e.qot.entries[key])
      ELSE answer(stored([Ratcheted(built, b) EXCEPT !.qot = PutOne(@, key, value, QotMax)]), value)

\* A propagation that raises has built and perhaps ratcheted the network; the
\* probe of a filtered slot has no carrier left to read.
Raises(seq, dir, slot) == ~ Answerable(seq, dir) \/ slot \in EdgeSlots

-------------------------------------------------------------------------------
(* The evaluator under the full comb: one propagation for every slot.      *)

\* The section whose end a boundary of the walk is taken for.
Boundaries(seq, dir) == Resolved(seq, dir)

\* The increment of a section is what the stretch of the walk up to its
\* boundary added, stored under the section's own fingerprint.
CapturedOrder(b, seq, dir) == [i \in 1 .. Len(seq) |-> Fingerprint(b, Boundaries(seq, dir)[i])]

Captured(b, seq, dir) ==
  LET names == CapturedOrder(b, seq, dir)
  IN  [f \in Range(names) |->
         Fingerprint(b, Resolved(seq, dir)[CHOOSE i \in 1 .. Len(seq) : names[i] = f])]

\* harvest_qot: the carriers that are left, without an identity.
Harvest(chain, margin, drift) ==
  [s \in Slots \ EdgeSlots |-> Result(chain, Slots, s, margin, drift)]

HarvestQot(e, b, seq, dir) ==
  LET key == HarvestKey(b, seq, dir)
      built == BuildNetwork(e, b)
      vec == Harvest(Walked(b, seq, dir), MarginOf[b], Drift(built, b))
  IN  IF Has(e.harvest, key)
      THEN [env |-> [e EXCEPT !.harvest = Hit(@, key)], value |-> e.harvest.entries[key]]
      ELSE [env |-> [Ratcheted(built, b) EXCEPT
                      !.harvest = PutOne(@, key, vec, HarvestMax),
                      !.increments = PutAll(@, Captured(b, seq, dir), CapturedOrder(b, seq, dir), IncrementMax)],
            value |-> vec]

\* compose_gsnr, when the table covers the sections that the request walks.
Wanted(b, seq, dir) == [i \in 1 .. Len(seq) |-> Fingerprint(b, Resolved(seq, dir)[i])]

Composable(e, b, seq, dir, slot) ==
  /\ Answerable(seq, dir) /\ Len(seq) <= MaxHops /\ slot \notin EdgeSlots
  /\ \A f \in Range(Wanted(b, seq, dir)) : Has(e.increments, f)

ComposeGsnr(e, b, seq, dir) ==
  LET wanted == Wanted(b, seq, dir)
  IN  [env |-> [e EXCEPT !.increments.order = FoldLeft(Touched, @, wanted)],
       value |-> [i \in 1 .. Len(seq) |-> e.increments.entries[wanted[i]]]]

-------------------------------------------------------------------------------

Init ==
  /\ physics = [b \in Branches |-> [o \in OMS |-> 0]]
  /\ env = [qot |-> EmptyCache, harvest |-> EmptyCache, increments |-> EmptyCache,
            networks |-> EmptyCache, store |-> [born |-> EmptyMap, issued |-> 0]]
  /\ now = 0

\* apply_nf_delta or apply_loss_delta on one branch, one direction of a span.
Degrade(b, o, level) ==
  /\ physics[b][o] # level
  /\ physics' = [physics EXCEPT ![b][o] = level]
  /\ UNCHANGED <<env, now>>

Compute(b, seq, dir, comb, slot) ==
  /\ ~ Raises(seq, dir, slot)
  /\ env' = ComputeQot(env, b, seq, dir, comb, slot).env
  /\ UNCHANGED <<physics, now>>

\* gated_qot asks both directions and answers with the worse one.
GatedQot(e, b, seq, comb, slot) ==
  LET fwd == ComputeQot(e, b, seq, "forward", comb, slot)
      bwd == ComputeQot(fwd.env, b, seq, "backward", comb, slot)
  IN  [env |-> bwd.env, ids |-> {fwd.id, bwd.id}]

Gated(b, seq, comb, slot) ==
  /\ ~ Raises(seq, "backward", slot)
  /\ env' = GatedQot(env, b, seq, comb, slot).env
  /\ UNCHANGED <<physics, now>>

\* AdapterEvaluator.__call__ on a full comb.
Evaluate(b, seq, dir) ==
  /\ Answerable(seq, dir) \/ Has(env.harvest, HarvestKey(b, seq, dir))
  /\ env' = HarvestQot(env, b, seq, dir).env
  /\ UNCHANGED <<physics, now>>

Compose(b, seq, dir, slot) ==
  /\ Composable(env, b, seq, dir, slot)
  /\ env' = ComposeGsnr(env, b, seq, dir).env
  /\ UNCHANGED <<physics, now>>

\* A propagation that raises on the way: nothing is stored, gains stay ratcheted.
Fail(b) ==
  /\ env' = Ratcheted(BuildNetwork(env, b), b)
  /\ UNCHANGED <<physics, now>>

Tick == /\ now < MaxNow /\ now' = now + 1 /\ UNCHANGED <<physics, env>>

Next ==
  \/ \E d \in Degraded, level \in Levels : Degrade(d[1], d[2], level)
  \/ \E b \in Branches, seq \in QotPaths, dir \in Directions, comb \in Combs :
       \E slot \in comb : env.store.issued < MaxPuts /\ Compute(b, seq, dir, comb, slot)
  \/ \E b \in Branches, seq \in QotPaths, comb \in Combs :
       \E slot \in comb : env.store.issued + 1 < MaxPuts /\ Gated(b, seq, comb, slot)
  \/ \E b \in Branches, seq \in QotPaths, dir \in Directions : Evaluate(b, seq, dir)
  \/ \E b \in Branches, seq \in QotPaths, dir \in Directions, slot \in Slots :
       Compose(b, seq, dir, slot)
  \/ \E b \in Branches : Fail(b)
  \/ Tick

Spec == Init /\ [][Next]_vars

-------------------------------------------------------------------------------
(* Properties.  Each looks at what every possible next question would get. *)

ComputedExactly(e, b, seq, dir, comb, slot) ==
  ~ Raises(seq, dir, slot) =>
    ComputeQot(e, b, seq, dir, comb, slot).value = Fresh(b, seq, dir, comb, slot)

HarvestedExactly(e, b, seq, dir) ==
  IF Answerable(seq, dir)
  THEN HarvestQot(e, b, seq, dir).value
         = [s \in Slots \ EdgeSlots |-> Fresh(b, seq, dir, Slots, s)]
  ELSE ~ Has(e.harvest, HarvestKey(b, seq, dir)) /\ \A comb \in Combs, s \in Slots : ~ Has(e.qot, QotKey(b, seq, dir, comb, s))

ComposedExactly(e, b, seq, dir, slot) ==
  Composable(e, b, seq, dir, slot) =>
    ComposeGsnr(e, b, seq, dir).value = Walked(b, seq, dir).sections

\* "a hit returns a confident wrong number" never happens: whatever was asked,
\* degraded, evicted or aborted before, and on whichever branch, what a call
\* returns from a cache, a reused network or the table of increments is what a
\* propagation from design gains on that very branch returns; a composition is
\* made of the sections that the request walks, and a direction that has no way
\* back is answered from no cache.
AnswerIsExact ==
  \A b \in Branches, seq \in QotPaths, dir \in Directions :
    /\ \A comb \in Combs : \A slot \in comb : ComputedExactly(env, b, seq, dir, comb, slot)
    /\ HarvestedExactly(env, b, seq, dir)
    /\ \A slot \in Slots : ComposedExactly(env, b, seq, dir, slot)

KeepsIts(store, ids) == ids \subseteq DOMAIN store.born

\* "result_id is the key into store": whatever expired or was dropped to make
\* room, also between the two directions of one question, the results that a
\* call names are there when it returns.
AnswerIsKept ==
  \A b \in Branches, seq \in QotPaths, comb \in Combs : \A slot \in comb :
    /\ \A dir \in Directions : ~ Raises(seq, dir, slot) =>
         LET r == ComputeQot(env, b, seq, dir, comb, slot) IN KeepsIts(r.env.store, {r.id})
    /\ ~ Raises(seq, "backward", slot) =>
         LET r == GatedQot(env, b, seq, comb, slot) IN KeepsIts(r.env.store, r.ids)
===============================================================================
