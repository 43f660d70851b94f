---------------------------- MODULE SnapshotStore ----------------------------
(***************************************************************************)
(* SnapshotStore (model/snapshots.py) over a heap of model objects.  The   *)
(* store hands out references: current() is the object callers mutate,     *)
(* get() the stored object itself.  Objects are references here too, so    *)
(* that a missing clone() or freeze() shows as aliasing.  uuid4 ids are    *)
(* drawn in increasing order: only that they are fresh and in what order   *)
(* they entered the OrderedDict matters.                                   *)
(***************************************************************************)
EXTENDS Integers, FiniteSets, Functions

CONSTANTS
  Refs,        \* object identities
  Values,      \* contents of a model object
  Initial,     \* the content the store is built with
  MaxSnapshots, Unbounded,   \* max_snapshots, and its None
  TTL, Forever,              \* ttl_seconds, and its None
  NoId,        \* _current_id is None; also: no id was just returned
  IdBound, ClockBound        \* bounds of the model

Ids == 1 .. IdBound

ASSUME StoreAssumption ==
  /\ Initial \in Values
  /\ MaxSnapshots \in (Nat \ {0}) \cup {Unbounded} /\ Unbounded \notin Nat
  /\ TTL \in Nat \cup {Forever} /\ Forever \notin Nat
  /\ IdBound \in Nat /\ ClockBound \in Nat /\ NoId \notin Nat

VARIABLES
  heap,        \* partial map from Refs: [value, frozen] of each live object
  current,     \* _current
  currentId,   \* _current_id
  snapshots,   \* partial map from Ids to Refs
  createdAt,   \* _created_at, monotonic time of each entry
  held,        \* references callers still hold
  nextId,      \* the id the next put() draws
  clock,       \* time.monotonic()
  returned     \* the id put() has just returned, until the next call

vars == <<heap, current, currentId, snapshots, createdAt, held, nextId, clock, returned>>

Stored == DOMAIN snapshots

Init ==
  \E r \in Refs :
    /\ heap = [x \in {r} |-> [value |-> Initial, frozen |-> FALSE]]
    /\ current = r /\ currentId = NoId
    /\ snapshots = [x \in {} |-> r] /\ createdAt = [x \in {} |-> 0]
    /\ held = {} /\ nextId = 1 /\ clock = 0 /\ returned = NoId

-------------------------------------------------------------------------------
(* Helpers.                                                                *)

\* References nothing points at are free for the next allocation.
Free == Refs \ DOMAIN heap

Put(f, k, v)   == [x \in DOMAIN f \cup {k} |-> IF x = k THEN v ELSE f[x]]
KeepOnly(f, S) == [x \in S |-> f[x]]

\* An object nothing points at is garbage: the heap keeps only the roots.
Collect(h, roots) == KeepOnly(h, roots)

ReapOne(now, id) ==                            \* mutant: reaps the active branch
  TTL # Forever /\ now - createdAt[id] > TTL

\* reap() removes this entry: expired and not the active branch.
Expired(now, id) ==
  TTL # Forever /\ id # currentId /\ now - createdAt[id] > TTL

Reaped == {id \in Stored : ~ Expired(clock, id)}

Oldest(S) == CHOOSE id \in S : \A other \in S : id <= other

EvictNewest(S) ==                              \* mutant: evicts the wrong end
  IF MaxSnapshots = Unbounded THEN S
  ELSE IF Cardinality(S) > MaxSnapshots /\ S \ {currentId} # {}
  THEN S \ {CHOOSE id \in S \ {currentId} : \A other \in S \ {currentId} : id >= other}
  ELSE S

EvictUnprotected(S) ==                         \* mutant: forgets the active branch
  IF MaxSnapshots # Unbounded /\ Cardinality(S) > MaxSnapshots
  THEN S \ {Oldest(S)} ELSE S

\* _store's eviction loop.  It runs after one entry was added to a store
\* within its cap, so it takes at most one turn.
Evict(S) ==
  IF /\ MaxSnapshots # Unbounded /\ Cardinality(S) > MaxSnapshots
     /\ S \ {currentId} # {}
  THEN S \ {Oldest(S \ {currentId})}
  ELSE S

-------------------------------------------------------------------------------
(* The calls.                                                              *)

StoreThawed(arg) ==                            \* mutant: forgets freeze()
  LET id == nextId
      kept == Evict(Reaped \cup {id})
  IN  /\ nextId \in Ids
      /\ \E r \in Free :
           /\ snapshots' = KeepOnly(Put(snapshots, id, r), kept)
           /\ heap' = Collect(Put(heap, r, [value |-> heap[arg].value, frozen |-> FALSE]),
                              Range(snapshots') \cup held \cup {current})
      /\ createdAt' = KeepOnly(Put(createdAt, id, clock), kept)
      /\ nextId' = nextId + 1 /\ returned' = id
      /\ UNCHANGED <<current, currentId, held, clock>>

\* put(model): reap, then store a frozen clone under a fresh id and evict.
StoreClone(arg) ==
  LET id == nextId
      kept == Evict(Reaped \cup {id})
  IN  /\ nextId \in Ids
      /\ \E r \in Free :
           /\ snapshots' = KeepOnly(Put(snapshots, id, r), kept)
           /\ heap' = Collect(Put(heap, r, [value |-> heap[arg].value, frozen |-> TRUE]),
                              Range(snapshots') \cup held \cup {current})
      /\ createdAt' = KeepOnly(Put(createdAt, id, clock), kept)
      /\ nextId' = nextId + 1 /\ returned' = id
      /\ UNCHANGED <<current, currentId, held, clock>>

\* create() is put(current()); put(model) takes an object a caller holds.
Create       == StoreClone(current)
PutModel(r)  == r \in held /\ StoreClone(r)

\* reap()'s loop drops both entries of every expired id.
ReapStored ==
  /\ snapshots' = KeepOnly(snapshots, Reaped)
  /\ createdAt' = KeepOnly(createdAt, Reaped)

Reap ==
  /\ ReapStored
  /\ heap' = Collect(heap, Range(snapshots') \cup held \cup {current})
  /\ returned' = NoId
  /\ UNCHANGED <<current, currentId, held, nextId, clock>>

RestoreAliased(id) ==                          \* mutant: current is the snapshot
  /\ id \in Stored
  /\ ReapStored
  /\ returned' = NoId
  /\ IF id \in Reaped
     THEN /\ current' = snapshots[id] /\ currentId' = id
          /\ heap' = Collect(heap, Range(snapshots') \cup held \cup {current'})
     ELSE /\ heap' = Collect(heap, Range(snapshots') \cup held \cup {current})
          /\ UNCHANGED <<current, currentId>>
  /\ UNCHANGED <<held, nextId, clock>>

\* restore(id), and branch(id) which is the same: reap under the old
\* protection, then clone the snapshot.  An id that has just expired is
\* reaped and the lookup raises, with current untouched.
Restore(id) ==
  /\ id \in Stored
  /\ ReapStored
  /\ returned' = NoId
  /\ IF id \in Reaped
     THEN \E r \in Free :
            /\ current' = r /\ currentId' = id
            /\ heap' = Collect(Put(heap, r, [value |-> heap[snapshots[id]].value, frozen |-> FALSE]),
                               Range(snapshots') \cup held \cup {r})
     ELSE /\ heap' = Collect(heap, Range(snapshots') \cup held \cup {current})
          /\ UNCHANGED <<current, currentId>>
  /\ UNCHANGED <<held, nextId, clock>>

\* get(id) hands out the stored object; it does not reap.
Get(id) ==
  /\ id \in Stored
  /\ held' = held \cup {snapshots[id]}
  /\ returned' = NoId
  /\ UNCHANGED <<heap, current, currentId, snapshots, createdAt, nextId, clock>>

-------------------------------------------------------------------------------
(* The callers.                                                            *)

\* A mutator on current() or on a held object raises when it is frozen.
Mutate(r, v) ==
  /\ r \in held \cup {current}
  /\ ~ heap[r].frozen
  /\ heap' = [heap EXCEPT ![r].value = v]
  /\ returned' = NoId
  /\ UNCHANGED <<current, currentId, snapshots, createdAt, held, nextId, clock>>

\* A caller keeps current() across later calls, or clones an object it can see.
HoldCurrent ==
  /\ held' = held \cup {current}
  /\ returned' = NoId
  /\ UNCHANGED <<heap, current, currentId, snapshots, createdAt, nextId, clock>>

Clone(arg) ==
  /\ arg \in held \cup {current}
  /\ \E r \in Free :
       /\ heap' = Put(heap, r, [value |-> heap[arg].value, frozen |-> FALSE])
       /\ held' = held \cup {r}
  /\ returned' = NoId
  /\ UNCHANGED <<current, currentId, snapshots, createdAt, nextId, clock>>

Release(r) ==
  /\ r \in held
  /\ held' = held \ {r}
  /\ heap' = Collect(heap, Range(snapshots) \cup held' \cup {current})
  /\ returned' = NoId
  /\ UNCHANGED <<current, currentId, snapshots, createdAt, nextId, clock>>

Tick ==
  /\ clock < ClockBound
  /\ clock' = clock + 1
  /\ returned' = NoId
  /\ UNCHANGED <<heap, current, currentId, snapshots, createdAt, held, nextId>>

Next ==
  \/ Create
  \/ \E r \in held : PutModel(r)
  \/ \E id \in Stored : Restore(id)
  \/ \E id \in Stored : Get(id)
  \/ Reap
  \/ \E r \in Refs, v \in Values : Mutate(r, v)
  \/ HoldCurrent
  \/ \E r \in Refs : Clone(r)
  \/ \E r \in held : Release(r)
  \/ Tick

Spec == Init /\ [][Next]_vars

-------------------------------------------------------------------------------
(* Properties.                                                             *)

\* Type correctness: what the store and the callers point at is on the heap.
TypeOK ==
  /\ DOMAIN heap \subseteq Refs
  /\ heap \in [DOMAIN heap -> [value : Values, frozen : BOOLEAN]]
  /\ current \in DOMAIN heap /\ held \subseteq DOMAIN heap
  /\ currentId \in Ids \cup {NoId} /\ returned \in Ids \cup {NoId}
  /\ Stored \subseteq 1 .. nextId - 1
  /\ snapshots \in [Stored -> DOMAIN heap]
  /\ createdAt \in [Stored -> 0 .. clock]
  /\ nextId \in 1 .. IdBound + 1 /\ clock \in 0 .. ClockBound

\* The snapshot the current model was branched from survives every cap
\* eviction and every reap, whatever else is stored meanwhile.
CurrentIdRetained == currentId # NoId => currentId \in Stored

\* The cap is never exceeded between calls.
WithinCap == MaxSnapshots # Unbounded => Cardinality(Stored) <= MaxSnapshots

\* No two snapshots share an object, and none is the object callers mutate as
\* current(): clone() stands at every way in and out.
NoAliasing ==
  /\ \A id \in Stored : snapshots[id] # current /\ heap[snapshots[id]].frozen
  /\ \A a, b \in Stored : a # b => snapshots[a] # snapshots[b]

\* current() can always be mutated: no create, put or restore freezes it.
CurrentMutable == ~ heap[current].frozen

\* A stored snapshot never changes content or id, by whatever references
\* callers got hold of before or after it was stored.
SnapshotsImmutable ==
  [][\A id \in Stored \cap Stored' :
       heap'[snapshots'[id]].value = heap[snapshots[id]].value]_vars

\* A snapshot leaves the store because it expired or, one at a time and the
\* oldest first, because the cap was reached; the active branch never does.
EvictsOldestFirst ==
  [][\A id \in Stored \ Stored' :
       ~ Expired(clock, id) =>
         /\ id # currentId
         /\ \A older \in Stored' : older < id => older = currentId]_vars

\* The id put() returns can be read back by the next call.
PutReturnsStoredId == returned # NoId => returned \in Stored
===============================================================================
