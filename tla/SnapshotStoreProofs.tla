------------------------- MODULE SnapshotStoreProofs -------------------------
(***************************************************************************)
(* Proofs about SnapshotStore, for every cap, TTL, heap and history.  The  *)
(* conjunction of the type invariant with the four store invariants is     *)
(* inductive: clones take free references, so freshness follows from the   *)
(* store pointing into the heap, and an eviction must find its oldest      *)
(* unprotected entry, which exists because ids are naturals.               *)
(***************************************************************************)
EXTENDS SnapshotStore, FiniteSetTheorems, WellFoundedInduction, TLAPS

IInv ==
  /\ TypeOK
  /\ CurrentIdRetained
  /\ WithinCap
  /\ NoAliasing
  /\ CurrentMutable

-------------------------------------------------------------------------------
(* The eviction loop.                                                      *)

\* The oldest of a non-empty set of ids is one of them, and below the others.
LEMMA OldestIn ==
  ASSUME NEW S, S \subseteq Nat, S # {}
  PROVE  Oldest(S) \in S /\ \A k \in S : Oldest(S) <= k
<1>1. PICK n \in S : \A k \in S : ~ (<<k, n>> \in OpToRel(<, Nat))
  BY WFMin, NatLessThanWellFounded
<1>2. ASSUME NEW k \in S PROVE n <= k
  <2>1. k \in Nat /\ n \in Nat
    OBVIOUS
  <2>2. k < n => <<k, n>> \in OpToRel(<, Nat)
    BY <2>1 DEF OpToRel
  <2>3. ~ (k < n)
    BY <1>1, <2>2, Zenon
  <2> QED BY <2>1, <2>3
<1> QED BY <1>2 DEF Oldest

\* What an eviction of S leaves: part of S, the active branch if it was in S,
\* and no more entries than the cap when S was over it by one at most.
LEMMA EvictIs ==
  ASSUME IInv, NEW S, S \subseteq Nat, IsFiniteSet(S)
  PROVE  /\ Evict(S) \subseteq S
         /\ currentId \in S => currentId \in Evict(S)
         /\ (MaxSnapshots # Unbounded /\ Cardinality(S) <= MaxSnapshots + 1)
              => Cardinality(Evict(S)) <= MaxSnapshots
         /\ \A i \in S \ Evict(S) :
              /\ i # currentId /\ \A k \in S \ {currentId} : i <= k
              /\ MaxSnapshots # Unbounded /\ Cardinality(S) > MaxSnapshots
<1> DEFINE O == Oldest(S \ {currentId})
<1>1. S \ {currentId} # {} =>
        O \in S /\ O # currentId /\ \A k \in S \ {currentId} : O <= k
  BY OldestIn
<1>2. IsFiniteSet(S \ {O}) /\ (O \in S => Cardinality(S \ {O}) = Cardinality(S) - 1)
  BY FS_RemoveElement
<1>3. Cardinality(S) \in Nat
  BY FS_CardinalityType
<1> HIDE DEF O
<1>4. Evict(S) = IF /\ MaxSnapshots # Unbounded /\ Cardinality(S) > MaxSnapshots
                    /\ S \ {currentId} # {}
                 THEN S \ {O} ELSE S
  BY DEF Evict, O
<1>5. S \ {currentId} = {} => Cardinality(S) <= 1
  <2> SUFFICES ASSUME S \ {currentId} = {} PROVE Cardinality(S) <= 1
    OBVIOUS
  <2>1. S = {} \/ S = {currentId}
    OBVIOUS
  <2> QED BY <2>1, FS_EmptySet, FS_Singleton
<1>6. MaxSnapshots # Unbounded => MaxSnapshots \in Nat \ {0}
  BY StoreAssumption
<1> QED BY <1>1, <1>2, <1>3, <1>4, <1>5, <1>6

-------------------------------------------------------------------------------
(* The heap: objects a step allocates or forgets.                          *)

Objects == [value : Values, frozen : BOOLEAN]

\* What the store and its callers point at.
Roots == Range(snapshots) \cup held \cup {current}

\* Nothing the store or a caller points at has been collected.
LEMMA RootsOnHeap ==
  ASSUME IInv
  PROVE  Roots \subseteq DOMAIN heap
BY DEF IInv, TypeOK, Roots, Range, Stored

\* The ids in the store are naturals, finitely many, and the next is fresh.
LEMMA StoredFinite ==
  ASSUME IInv
  PROVE  /\ Stored \subseteq Nat /\ IsFiniteSet(Stored) /\ nextId \in Nat
         /\ nextId \notin Stored
         /\ IsFiniteSet(Reaped) /\ Reaped \subseteq Stored
         /\ Cardinality(Reaped) <= Cardinality(Stored)
         /\ currentId \in Stored => currentId \in Reaped
<1>1. nextId \in Nat /\ Stored \subseteq 1 .. nextId - 1
  BY StoreAssumption DEF IInv, TypeOK
<1>2. IsFiniteSet(1 .. nextId - 1)
  BY <1>1, FS_Interval
<1>3. IsFiniteSet(Stored)
  BY <1>1, <1>2, FS_Subset
<1>4. Reaped \subseteq Stored /\ (currentId \in Stored => currentId \in Reaped)
  BY DEF Reaped, Expired
<1>5. IsFiniteSet(Reaped) /\ Cardinality(Reaped) <= Cardinality(Stored)
  BY <1>3, <1>4, FS_Subset
<1> QED BY <1>1, <1>3, <1>4, <1>5

-------------------------------------------------------------------------------
(* The calls.                                                              *)

\* put() leaves: the snapshots it keeps, a frozen clone of arg at the free
\* reference r under nextId, and a heap without what nothing points at.
Kept == Evict(Reaped \cup {nextId})

StoresClone(arg, r) ==
  /\ r \in Refs \ DOMAIN heap /\ arg \in DOMAIN heap
  /\ Stored' = Kept
  /\ snapshots' = [i \in Kept |-> IF i = nextId THEN r ELSE snapshots[i]]
  /\ createdAt' = [i \in Kept |-> IF i = nextId THEN clock ELSE createdAt[i]]
  /\ Roots' \subseteq DOMAIN heap \cup {r}
  /\ DOMAIN heap' = Roots' /\ heap' = [x \in Roots' |-> heap'[x]]
  /\ \A x \in Roots' : heap'[x] =
       IF x = r THEN [value |-> heap[arg].value, frozen |-> TRUE] ELSE heap[x]
  /\ nextId \in Ids /\ nextId' = nextId + 1 /\ returned' = nextId
  /\ UNCHANGED <<current, currentId, held, clock>>

\* put() keeps entries it had, the active branch and no more than the cap.
LEMMA KeptIs ==
  ASSUME IInv
  PROVE  /\ Kept \subseteq Reaped \cup {nextId} /\ Kept \subseteq Stored \cup {nextId}
         /\ currentId \in Stored => currentId \in Kept
         /\ MaxSnapshots # Unbounded => Cardinality(Kept) <= MaxSnapshots
<1>1. /\ IsFiniteSet(Reaped) /\ Reaped \subseteq Nat /\ nextId \in Nat
      /\ Cardinality(Reaped) <= Cardinality(Stored) /\ IsFiniteSet(Stored)
      /\ Reaped \subseteq Stored /\ (currentId \in Stored => currentId \in Reaped)
  BY StoredFinite
<1>2. Cardinality(Reaped) \in Nat /\ Cardinality(Stored) \in Nat
  BY <1>1, FS_CardinalityType
<1>3. /\ IsFiniteSet(Reaped \cup {nextId})
      /\ Cardinality(Reaped \cup {nextId}) \in {Cardinality(Reaped), Cardinality(Reaped) + 1}
  BY <1>1, FS_AddElement
<1>4. MaxSnapshots # Unbounded => /\ MaxSnapshots \in Nat
                                  /\ Cardinality(Reaped \cup {nextId}) <= MaxSnapshots + 1
  BY <1>1, <1>2, <1>3, StoreAssumption DEF IInv, WithinCap
<1>5. /\ Kept \subseteq Reaped \cup {nextId}
      /\ currentId \in Reaped \cup {nextId} => currentId \in Kept
      /\ (MaxSnapshots # Unbounded /\ Cardinality(Reaped \cup {nextId}) <= MaxSnapshots + 1)
           => Cardinality(Kept) <= MaxSnapshots
  BY <1>1, <1>3, EvictIs DEF Kept
<1> QED BY <1>1, <1>4, <1>5

\* StoreClone stores a clone, in the sense above.
LEMMA StoreCloneIs ==
  ASSUME IInv, NEW arg \in held \cup {current}, StoreClone(arg)
  PROVE  \E r \in Refs : StoresClone(arg, r)
<1>1. PICK r \in Free :
        /\ snapshots' = KeepOnly(Put(snapshots, nextId, r), Kept)
        /\ heap' = Collect(Put(heap, r, [value |-> heap[arg].value, frozen |-> TRUE]), Roots')
  BY DEF StoreClone, Roots, Kept
<1>2. /\ nextId \in Ids /\ nextId' = nextId + 1 /\ returned' = nextId
      /\ createdAt' = KeepOnly(Put(createdAt, nextId, clock), Kept)
      /\ UNCHANGED <<current, currentId, held, clock>>
  BY DEF StoreClone, Kept
<1>3. /\ Stored' = Kept
      /\ snapshots' = [i \in Kept |-> IF i = nextId THEN r ELSE snapshots[i]]
      /\ createdAt' = [i \in Kept |-> IF i = nextId THEN clock ELSE createdAt[i]]
  BY <1>1, <1>2, KeptIs, StoredFinite DEF KeepOnly, Put, Stored, IInv, TypeOK
<1>4. arg \in DOMAIN heap /\ r \in Refs \ DOMAIN heap
  BY RootsOnHeap DEF Free, Roots
<1>5. Roots' \subseteq DOMAIN heap \cup {r}
  BY <1>2, <1>3, KeptIs, RootsOnHeap DEF Roots, Range, Stored
<1>6. /\ DOMAIN heap' = Roots' /\ heap' = [x \in Roots' |-> heap'[x]]
      /\ \A x \in Roots' : heap'[x] =
           IF x = r THEN [value |-> heap[arg].value, frozen |-> TRUE] ELSE heap[x]
  BY <1>1, <1>5 DEF Collect, KeepOnly, Put
<1> QED BY <1>2, <1>3, <1>4, <1>5, <1>6 DEF StoresClone

\* create() and put(): the stored clone takes a free reference, so it shares
\* nothing with current() or with an older snapshot.
LEMMA StoreCloneInv ==
  ASSUME IInv, NEW arg \in held \cup {current}, StoreClone(arg)
  PROVE  IInv'
<1>1. PICK r \in Refs : StoresClone(arg, r)
  BY StoreCloneIs
<1>2. /\ nextId \in Ids /\ nextId' = nextId + 1 /\ returned' = nextId
      /\ UNCHANGED <<current, currentId, held, clock>>
  BY <1>1 DEF StoresClone
<1>4. currentId \in Stored => currentId \in Kept
  BY KeptIs
<1>5. /\ Kept \subseteq Stored \cup {nextId} /\ Stored' = Kept
      /\ snapshots' = [i \in Kept |-> IF i = nextId THEN r ELSE snapshots[i]]
      /\ createdAt' = [i \in Kept |-> IF i = nextId THEN clock ELSE createdAt[i]]
  BY <1>1, KeptIs DEF StoresClone
<1>6. arg \in DOMAIN heap /\ r \in Refs /\ r \notin DOMAIN heap
  BY <1>1 DEF StoresClone
<1>7. Roots' \subseteq DOMAIN heap \cup {r}
  BY <1>1 DEF StoresClone
<1>8. /\ DOMAIN heap' = Roots'
      /\ \A x \in Roots' : heap'[x] =
           IF x = r THEN [value |-> heap[arg].value, frozen |-> TRUE] ELSE heap[x]
  BY <1>1 DEF StoresClone
<1>9. heap[arg].value \in Values /\ \A x \in DOMAIN heap : heap[x] \in Objects
  BY <1>6 DEF IInv, TypeOK, Objects
<1>10. heap' \in [Roots' -> Objects]
  <2>1. heap' = [x \in Roots' |-> heap'[x]]
    BY <1>1 DEF StoresClone
  <2>2. [value |-> heap[arg].value, frozen |-> TRUE] \in Objects
    BY <1>9 DEF Objects
  <2>3. \A x \in Roots' : heap'[x] \in Objects
    BY <1>7, <1>8, <1>9, <2>2
  <2> QED BY <2>1, <2>3
<1>11. current # r /\ (\A i \in Stored : snapshots[i] # r)
  BY <1>6, RootsOnHeap DEF Roots, Range, Stored
<1>12. TypeOK'
  <2>1. DOMAIN heap' \subseteq Refs
    BY <1>6, <1>7, <1>8 DEF IInv, TypeOK
  <2>2. current' \in DOMAIN heap' /\ held' \subseteq DOMAIN heap'
    BY <1>8 DEF Roots
  <2>3. snapshots' \in [Stored' -> DOMAIN heap']
    BY <1>5, <1>8 DEF Roots, Range
  <2>4. clock \in Nat /\ createdAt \in [Stored -> 0 .. clock] /\ clock \in 0 .. ClockBound
    BY StoreAssumption DEF IInv, TypeOK
  <2>5. createdAt' \in [Stored' -> 0 .. clock']
    BY <1>2, <1>5, <2>4
  <2>6. nextId' \in 1 .. IdBound + 1 /\ Stored' \subseteq 1 .. nextId' - 1
    BY <1>2, <1>5, StoreAssumption DEF IInv, TypeOK, Ids
  <2>7. heap' \in [DOMAIN heap' -> [value : Values, frozen : BOOLEAN]]
    BY <1>8, <1>10 DEF Objects
  <2>8. currentId' \in Ids \cup {NoId} /\ returned' \in Ids \cup {NoId} /\ clock' \in 0 .. ClockBound
    BY <1>2, <2>4 DEF IInv, TypeOK
  <2> QED BY <2>1, <2>2, <2>3, <2>5, <2>6, <2>7, <2>8 DEF TypeOK
<1>13. CurrentIdRetained'
  BY <1>2, <1>4, <1>5, StoredFinite DEF IInv, CurrentIdRetained
<1>14. WithinCap'
  BY <1>5, KeptIs DEF WithinCap
<1>15. NoAliasing'
  <2>1. \A i \in Stored' : snapshots'[i] \in Roots'
    BY DEF Roots, Range, Stored
  <2> QED BY <1>2, <1>5, <1>8, <1>11, <2>1 DEF IInv, NoAliasing
<1>16. CurrentMutable'
  BY <1>2, <1>8, <1>11 DEF IInv, CurrentMutable, Roots
<1> QED BY <1>12, <1>13, <1>14, <1>15, <1>16 DEF IInv

\* reap() alone: fewer snapshots, the active branch among them.
LEMMA ReapInv ==
  ASSUME IInv, ReapStored, returned' = NoId,
         UNCHANGED <<current, currentId, held, nextId, clock>>,
         heap' = Collect(heap, Roots')
  PROVE  IInv'
<1>1. /\ Stored' = Reaped /\ Reaped \subseteq Stored
      /\ snapshots' = [i \in Reaped |-> snapshots[i]]
      /\ createdAt' = [i \in Reaped |-> createdAt[i]]
  BY StoredFinite DEF ReapStored, KeepOnly, Stored
<1>2. Roots' \subseteq Roots
  BY <1>1 DEF Roots, Range, Stored
<1>3. /\ DOMAIN heap' = Roots' /\ Roots' \subseteq DOMAIN heap
      /\ heap' = [x \in Roots' |-> heap[x]]
  BY <1>2, RootsOnHeap DEF Collect, KeepOnly
<1>4. TypeOK'
  <2>1. snapshots' \in [Stored' -> DOMAIN heap']
    BY <1>1, <1>3 DEF Roots, Range
  <2>2. heap' \in [DOMAIN heap' -> [value : Values, frozen : BOOLEAN]]
    BY <1>3 DEF IInv, TypeOK
  <2>3. createdAt' \in [Stored' -> 0 .. clock']
    BY <1>1 DEF IInv, TypeOK
  <2>4. current' \in DOMAIN heap' /\ held' \subseteq DOMAIN heap'
    BY <1>3 DEF Roots
  <2> QED BY <1>1, <1>3, <2>1, <2>2, <2>3, <2>4 DEF IInv, TypeOK
<1>5. CurrentIdRetained'
  BY <1>1, StoredFinite DEF IInv, CurrentIdRetained
<1>6. WithinCap'
  <2>1. Cardinality(Reaped) \in Nat /\ Cardinality(Stored) \in Nat
    BY StoredFinite, FS_CardinalityType
  <2> QED BY <1>1, <2>1, StoredFinite, StoreAssumption DEF IInv, WithinCap
<1>7. NoAliasing'
  <2>1. \A i \in Stored' : snapshots'[i] \in Roots'
    BY DEF Roots, Range, Stored
  <2> QED BY <1>1, <1>3, <2>1 DEF IInv, NoAliasing
<1>8. CurrentMutable'
  BY <1>3 DEF IInv, CurrentMutable, Roots
<1> QED BY <1>4, <1>5, <1>6, <1>7, <1>8 DEF IInv

\* restore() and branch(): the new current() is a thawed clone of its own.
LEMMA RestoreInv ==
  ASSUME IInv, NEW id \in Stored, Restore(id)
  PROVE  IInv'
<1>1. CASE id \notin Reaped
  BY <1>1, ReapInv DEF Restore, Roots
<1>2. CASE id \in Reaped
  <2> DEFINE copy == [value |-> heap[snapshots[id]].value, frozen |-> FALSE]
  <2>1. PICK r \in Free :
          /\ current' = r /\ currentId' = id
          /\ heap' = Collect(Put(heap, r, copy), Range(snapshots') \cup held \cup {r})
    BY <1>2 DEF Restore
  <2>2. ReapStored /\ returned' = NoId /\ UNCHANGED <<held, nextId, clock>>
    BY DEF Restore
  <2>3. snapshots[id] \in DOMAIN heap
    BY DEF IInv, TypeOK
  <2>4. copy \in Objects
    BY <2>3 DEF IInv, TypeOK, Objects
  <2>18. copy.frozen = FALSE
    OBVIOUS
  <2> HIDE DEF copy
  <2>5. heap' = Collect(Put(heap, r, copy), Roots')
    BY <2>1, <2>2 DEF Roots
  <2>6. /\ Stored' = Reaped /\ Reaped \subseteq Stored
        /\ snapshots' = [i \in Reaped |-> snapshots[i]]
        /\ createdAt' = [i \in Reaped |-> createdAt[i]]
    BY <2>2, StoredFinite DEF ReapStored, KeepOnly, Stored
  <2>7. r \in Refs /\ r \notin DOMAIN heap
    BY DEF Free
  <2>8. Roots' \subseteq DOMAIN heap \cup {r}
    BY <2>1, <2>2, <2>6, RootsOnHeap DEF Roots, Range, Stored
  <2>9. /\ DOMAIN heap' = Roots' /\ heap' = [x \in Roots' |-> heap'[x]]
        /\ \A x \in Roots' : heap'[x] = IF x = r THEN copy ELSE heap[x]
    BY <2>5, <2>8 DEF Collect, KeepOnly, Put
  <2>10. \A x \in DOMAIN heap : heap[x] \in Objects
    BY DEF IInv, TypeOK, Objects
  <2>11. \A x \in Roots' : heap'[x] \in Objects
    BY <2>4, <2>8, <2>9, <2>10
  <2>12. \A i \in Stored' : snapshots'[i] \in Roots' /\ snapshots'[i] # r
    BY <2>6, <2>7, RootsOnHeap DEF Roots, Range, Stored
  <2>13. TypeOK'
    <3>1. heap' \in [DOMAIN heap' -> [value : Values, frozen : BOOLEAN]]
      BY <2>9, <2>11 DEF Objects
    <3>2. DOMAIN heap' \subseteq Refs
      BY <2>7, <2>8, <2>9 DEF IInv, TypeOK
    <3>3. current' \in DOMAIN heap' /\ held' \subseteq DOMAIN heap'
      BY <2>9 DEF Roots
    <3>4. snapshots' \in [Stored' -> DOMAIN heap']
      BY <2>6, <2>9, <2>12
    <3>5. createdAt' \in [Stored' -> 0 .. clock']
      BY <2>2, <2>6 DEF IInv, TypeOK
    <3>6. id \in Ids
      BY StoreAssumption DEF IInv, TypeOK, Ids
    <3> QED BY <2>1, <2>2, <2>6, <3>1, <3>2, <3>3, <3>4, <3>5, <3>6 DEF IInv, TypeOK
  <2>14. CurrentIdRetained'
    BY <1>2, <2>1, <2>6 DEF CurrentIdRetained
  <2>15. WithinCap'
    <3>1. Cardinality(Reaped) \in Nat /\ Cardinality(Stored) \in Nat
      BY StoredFinite, FS_CardinalityType
    <3> QED BY <2>6, <3>1, StoredFinite, StoreAssumption DEF IInv, WithinCap
  <2>16. NoAliasing'
    BY <2>1, <2>6, <2>9, <2>12 DEF IInv, NoAliasing
  <2>17. CurrentMutable'
    BY <2>1, <2>9, <2>18 DEF CurrentMutable, Roots
  <2> QED BY <2>13, <2>14, <2>15, <2>16, <2>17 DEF IInv
<1> QED BY <1>1, <1>2

\* A step that leaves the store and current() alone, and every object they
\* point at as frozen as it was.
LEMMA CallerInv ==
  ASSUME IInv, TypeOK', UNCHANGED <<current, currentId, snapshots>>,
         \A x \in Range(snapshots) \cup {current} : heap'[x].frozen = heap[x].frozen
  PROVE  IInv'
<1>1. Stored' = Stored /\ \A i \in Stored : snapshots[i] \in Range(snapshots)
  BY DEF Stored, Range
<1>2. CurrentIdRetained' /\ WithinCap'
  BY <1>1 DEF IInv, CurrentIdRetained, WithinCap
<1>3. NoAliasing' /\ CurrentMutable'
  BY <1>1 DEF IInv, NoAliasing, CurrentMutable
<1> QED BY <1>2, <1>3 DEF IInv

\* Every step preserves the invariant.
LEMMA NextInv ==
  ASSUME IInv, [Next]_vars
  PROVE  IInv'
<1>1. CASE Create
  BY <1>1, StoreCloneInv DEF Create
<1>2. CASE \E r \in held : PutModel(r)
  BY <1>2, StoreCloneInv DEF PutModel
<1>3. CASE \E id \in Stored : Restore(id)
  BY <1>3, RestoreInv
<1>4. CASE \E id \in Stored : Get(id)
  <2>1. TypeOK'
    BY <1>4 DEF Get, IInv, TypeOK, Stored
  <2> QED BY <1>4, <2>1, CallerInv DEF Get
<1>5. CASE Reap
  BY <1>5, ReapInv DEF Reap, Roots
<1>6. CASE \E r \in Refs, v \in Values : Mutate(r, v)
  <2>1. PICK r \in Refs, v \in Values : Mutate(r, v)
    BY <1>6
  <2>2. r \in DOMAIN heap
    BY <2>1 DEF Mutate, IInv, TypeOK
  <2>3. heap[r] \in Objects /\ \A x \in DOMAIN heap : heap[x] \in Objects
    BY <2>2 DEF IInv, TypeOK, Objects
  <2>4. [heap[r] EXCEPT !.value = v] \in Objects /\ [heap[r] EXCEPT !.value = v].frozen = heap[r].frozen
    BY <2>3 DEF Objects
  <2>5. heap' = [heap EXCEPT ![r] = [heap[r] EXCEPT !.value = v]]
    BY <2>1 DEF Mutate
  <2>6. /\ DOMAIN heap' = DOMAIN heap
        /\ heap' \in [DOMAIN heap -> Objects]
        /\ \A x \in DOMAIN heap : heap'[x].frozen = heap[x].frozen
    BY <2>2, <2>3, <2>4, <2>5 DEF IInv, TypeOK
  <2>7. UNCHANGED <<current, currentId, snapshots, createdAt, held, nextId, clock>> /\ returned' = NoId
    BY <2>1 DEF Mutate
  <2>8. TypeOK'
    BY <2>6, <2>7 DEF IInv, TypeOK, Objects, Stored
  <2>9. Range(snapshots) \cup {current} \subseteq DOMAIN heap
    BY RootsOnHeap DEF Roots
  <2> QED BY <2>6, <2>7, <2>8, <2>9, CallerInv
<1>7. CASE HoldCurrent
  <2>1. TypeOK'
    BY <1>7 DEF HoldCurrent, IInv, TypeOK, Stored
  <2> QED BY <1>7, <2>1, CallerInv DEF HoldCurrent
<1>8. CASE \E arg \in Refs : Clone(arg)
  <2>1. PICK arg \in Refs : Clone(arg)
    BY <1>8
  <2>2. PICK r \in Free :
          /\ heap' = Put(heap, r, [value |-> heap[arg].value, frozen |-> FALSE])
          /\ held' = held \cup {r}
    BY <2>1 DEF Clone
  <2>3. UNCHANGED <<current, currentId, snapshots, createdAt, nextId, clock>> /\ returned' = NoId
    BY <2>1 DEF Clone
  <2>4. arg \in DOMAIN heap /\ r \in Refs /\ r \notin DOMAIN heap
    BY <2>1 DEF Clone, Free, IInv, TypeOK
  <2>5. [value |-> heap[arg].value, frozen |-> FALSE] \in Objects
    BY <2>4 DEF IInv, TypeOK, Objects
  <2>6. /\ DOMAIN heap' = DOMAIN heap \cup {r}
        /\ heap' \in [DOMAIN heap \cup {r} -> Objects]
        /\ \A x \in DOMAIN heap : heap'[x] = heap[x]
    BY <2>2, <2>4, <2>5 DEF Put, IInv, TypeOK, Objects
  <2>7. TypeOK'
    BY <2>2, <2>3, <2>4, <2>6 DEF IInv, TypeOK, Objects, Stored
  <2>8. Range(snapshots) \cup {current} \subseteq DOMAIN heap
    BY RootsOnHeap DEF Roots
  <2> QED BY <2>3, <2>6, <2>7, <2>8, CallerInv
<1>9. CASE \E r \in held : Release(r)
  <2>1. PICK r \in held : Release(r)
    BY <1>9
  <2>2. /\ held' \subseteq held /\ returned' = NoId
        /\ heap' = KeepOnly(heap, Range(snapshots) \cup held' \cup {current})
        /\ UNCHANGED <<current, currentId, snapshots, createdAt, nextId, clock>>
    BY <2>1 DEF Release, Collect
  <2>3. Range(snapshots) \cup held' \cup {current} \subseteq DOMAIN heap
    BY <2>2, RootsOnHeap DEF Roots
  <2>4. TypeOK'
    BY <2>2, <2>3 DEF IInv, TypeOK, KeepOnly, Stored, Range
  <2> QED BY <2>2, <2>4, CallerInv DEF KeepOnly
<1>10. CASE Tick
  <2>1. clock \in Nat /\ clock' = clock + 1 /\ clock' \in 0 .. ClockBound
    BY <1>10, StoreAssumption DEF Tick, IInv, TypeOK
  <2>2. TypeOK'
    BY <1>10, <2>1 DEF Tick, IInv, TypeOK, Stored
  <2> QED BY <1>10, <2>2, CallerInv DEF Tick
<1>11. CASE UNCHANGED vars
  <2>1. TypeOK'
    BY <1>11 DEF vars, IInv, TypeOK, Stored
  <2> QED BY <1>11, <2>1, CallerInv DEF vars
<1> QED BY <1>1, <1>2, <1>3, <1>4, <1>5, <1>6, <1>7, <1>8, <1>9, <1>10, <1>11 DEF Next

\* The store starts with no snapshot and an object of its own as current().
LEMMA InitInv ==
  ASSUME Init
  PROVE  IInv
<1>1. PICK r \in Refs :
        /\ heap = [x \in {r} |-> [value |-> Initial, frozen |-> FALSE]]
        /\ current = r /\ snapshots = [x \in {} |-> r] /\ createdAt = [x \in {} |-> 0]
  BY DEF Init
<1>2. currentId = NoId /\ held = {} /\ nextId = 1 /\ clock = 0 /\ returned = NoId
  BY DEF Init
<1>3. TypeOK
  BY <1>1, <1>2, StoreAssumption DEF TypeOK, Stored
<1>4. Stored = {} /\ Cardinality(Stored) = 0
  BY <1>1, FS_EmptySet DEF Stored
<1> QED BY <1>1, <1>2, <1>3, <1>4, StoreAssumption
        DEF IInv, CurrentIdRetained, WithinCap, NoAliasing, CurrentMutable

-------------------------------------------------------------------------------
(* The theorems.                                                           *)

\* The store's inductive invariant, whatever is put, restored, reaped, held
\* and mutated, in any order.
THEOREM StoreInvariant == Spec => []IInv
BY InitInv, NextInv, PTL DEF Spec

\* SnapshotStore never loses track of an object it or a caller points at.
THEOREM StoreTypeCorrect == Spec => []TypeOK
<1>1. IInv => TypeOK
  BY DEF IInv
<1> QED BY <1>1, StoreInvariant, PTL

\* restore() protects the active branch from every later cap eviction and reap.
THEOREM ActiveBranchRetained == Spec => []CurrentIdRetained
<1>1. IInv => CurrentIdRetained
  BY DEF IInv
<1> QED BY <1>1, StoreInvariant, PTL

\* One turn of _store's loop is enough to keep the store within its cap.
THEOREM StoreWithinCap == Spec => []WithinCap
<1>1. IInv => WithinCap
  BY DEF IInv
<1> QED BY <1>1, StoreInvariant, PTL

\* clone() and freeze() in put() and restore() keep every snapshot apart from
\* current() and from every other snapshot.
THEOREM SnapshotsNeverAlias == Spec => []NoAliasing
<1>1. IInv => NoAliasing
  BY DEF IInv
<1> QED BY <1>1, StoreInvariant, PTL

\* No call of the store leaves callers with a frozen current().
THEOREM CurrentStaysMutable == Spec => []CurrentMutable
<1>1. IInv => CurrentMutable
  BY DEF IInv
<1> QED BY <1>1, StoreInvariant, PTL

-------------------------------------------------------------------------------
(* What a step may never do to a stored snapshot.                          *)

\* Whatever is called, a snapshot that stays keeps its object and content.
LEMMA StoredStay ==
  ASSUME IInv, [Next]_vars, NEW id \in Stored \cap Stored'
  PROVE  snapshots'[id] = snapshots[id] /\ heap'[snapshots[id]].value = heap[snapshots[id]].value
<1>1. snapshots[id] \in DOMAIN heap /\ heap[snapshots[id]].frozen /\ snapshots[id] \in Roots
  BY RootsOnHeap DEF IInv, NoAliasing, Roots, Range, Stored
<1>2. snapshots'[id] \in Roots'
  BY DEF Roots, Range, Stored
<1>3. ASSUME NEW arg \in held \cup {current}, StoreClone(arg)
      PROVE  snapshots'[id] = snapshots[id] /\ heap'[snapshots[id]] = heap[snapshots[id]]
  <2>1. PICK r \in Refs : StoresClone(arg, r)
    BY <1>3, StoreCloneIs
  <2>2. id # nextId
    BY StoredFinite
  <2> QED BY <1>1, <1>2, <2>1, <2>2 DEF StoresClone
<1>4. ASSUME ReapStored
      PROVE  snapshots'[id] = snapshots[id] /\ id \in Reaped
  BY <1>4, StoredFinite DEF ReapStored, KeepOnly, Stored
<1>5. CASE Create
  BY <1>3, <1>5 DEF Create
<1>6. CASE \E r \in held : PutModel(r)
  BY <1>3, <1>6 DEF PutModel
<1>7. CASE \E i \in Stored : Restore(i)
  <2>1. PICK i \in Stored : Restore(i)
    BY <1>7
  <2>2. ReapStored /\ UNCHANGED held
    BY <2>1 DEF Restore
  <2>3. CASE i \in Reaped
    <3>1. PICK r \in Free :
            heap' = Collect(Put(heap, r, [value |-> heap[snapshots[i]].value, frozen |-> FALSE]),
                            Range(snapshots') \cup held \cup {r})
      BY <2>1, <2>3 DEF Restore
    <3>2. snapshots'[id] \in Range(snapshots') /\ snapshots[id] # r
      BY <1>1 DEF Range, Stored, Free
    <3> QED BY <1>1, <1>4, <2>2, <3>1, <3>2 DEF Collect, KeepOnly, Put
  <2>4. CASE i \notin Reaped
    <3>1. heap' = Collect(heap, Roots')
      BY <2>1, <2>4 DEF Restore, Roots
    <3> QED BY <1>2, <1>4, <2>2, <3>1 DEF Collect, KeepOnly
  <2> QED BY <2>3, <2>4
<1>8. CASE Reap
  <2>1. ReapStored /\ heap' = Collect(heap, Roots')
    BY <1>8 DEF Reap, Roots
  <2> QED BY <1>2, <1>4, <2>1 DEF Collect, KeepOnly
<1>9. CASE \E r \in Refs, v \in Values : Mutate(r, v)
  BY <1>1, <1>9 DEF Mutate, IInv, TypeOK
<1>10. CASE \E arg \in Refs : Clone(arg)
  BY <1>1, <1>10 DEF Clone, Put, Free
<1>11. CASE \E r \in held : Release(r)
  <2>1. snapshots' = snapshots /\ heap' = Collect(heap, Range(snapshots') \cup held' \cup {current'})
    BY <1>11 DEF Release
  <2> QED BY <1>2, <2>1 DEF Roots, Collect, KeepOnly
<1>12. CASE UNCHANGED <<heap, snapshots>>
  BY <1>12
<1> QED BY <1>5, <1>6, <1>7, <1>8, <1>9, <1>10, <1>11, <1>12
        DEF Next, Get, HoldCurrent, Tick, vars

\* Whatever is called, a snapshot that goes had expired, or was the oldest but
\* for the active branch.
LEMMA OldestGo ==
  ASSUME IInv, [Next]_vars, NEW id \in Stored \ Stored', ~ Expired(clock, id)
  PROVE  id # currentId /\ \A older \in Stored' : older < id => older = currentId
<1>1. id \in Reaped
  BY DEF Reaped
<1>2. ASSUME NEW arg \in held \cup {current}, StoreClone(arg)
      PROVE  id # currentId /\ \A older \in Stored' : older < id => older = currentId
  <2>1. Stored' = Kept
    BY <1>2, StoreCloneIs DEF StoresClone
  <2> DEFINE S == Reaped \cup {nextId}
  <2>2. S \subseteq Nat /\ IsFiniteSet(S)
    BY StoredFinite, FS_AddElement
  <2>3. Kept = Evict(S) /\ Kept \subseteq S
    BY KeptIs DEF Kept
  <2>4. id \in S \ Evict(S)
    BY <1>1, <2>1, <2>3
  <2>5. id # currentId /\ \A k \in S \ {currentId} : id <= k
    BY <2>2, <2>4, EvictIs
  <2> QED BY <2>1, <2>2, <2>3, <2>4, <2>5
<1>3. ~ ReapStored
  BY <1>1, StoredFinite DEF ReapStored, KeepOnly, Stored
<1>4. ~ UNCHANGED snapshots
  BY DEF Stored
<1>5. CASE Create
  BY <1>2, <1>5 DEF Create
<1>6. CASE \E r \in held : PutModel(r)
  BY <1>2, <1>6 DEF PutModel
<1> QED BY <1>3, <1>4, <1>5, <1>6
        DEF Next, Restore, Get, Reap, Mutate, HoldCurrent, Clone, Release, Tick, vars

\* A stored snapshot is immutable, whatever references callers hold: the only
\* writable objects are those the store does not point at.
THEOREM SnapshotsStayImmutable == Spec => SnapshotsImmutable
<1>1. IInv /\ [Next]_vars =>
        [\A id \in Stored \cap Stored' :
           heap'[snapshots'[id]].value = heap[snapshots[id]].value]_vars
  BY StoredStay
<1> QED BY <1>1, StoreInvariant, PTL DEF Spec, SnapshotsImmutable

\* The cap evicts the oldest entry first and never the active branch.
THEOREM OldestEvictedFirst == Spec => EvictsOldestFirst
<1>1. IInv /\ [Next]_vars =>
        [\A id \in Stored \ Stored' :
           ~ Expired(clock, id) =>
             /\ id # currentId
             /\ \A older \in Stored' : older < id => older = currentId]_vars
  BY OldestGo
<1> QED BY <1>1, StoreInvariant, PTL DEF Spec, EvictsOldestFirst

-------------------------------------------------------------------------------
(* The id put() returns, when the cap leaves room for it.                  *)

\* With room for two, an eviction that takes the entry just stored would have
\* found an older unprotected one.
LEMMA NextKept ==
  ASSUME IInv, MaxSnapshots # 1
  PROVE  nextId \in Kept
<1> DEFINE S == Reaped \cup {nextId}
<1>1. /\ S \subseteq Nat /\ IsFiniteSet(S) /\ nextId \in Nat
      /\ \A k \in S : k <= nextId
  BY StoredFinite, FS_AddElement DEF IInv, TypeOK
<1> SUFFICES ASSUME nextId \notin Evict(S) PROVE FALSE
  BY DEF Kept
<1>2. /\ \A k \in S \ {currentId} : nextId <= k
      /\ MaxSnapshots # Unbounded /\ Cardinality(S) > MaxSnapshots
  BY <1>1, EvictIs
<1>3. S \subseteq {nextId} \cup {currentId}
  BY <1>1, <1>2
<1>4. IsFiniteSet({nextId}) /\ Cardinality({nextId}) = 1
  BY FS_Singleton
<1>5. /\ IsFiniteSet({nextId} \cup {currentId})
      /\ Cardinality({nextId} \cup {currentId}) \in {1, 2}
  BY <1>4, FS_AddElement
<1>6. Cardinality(S) <= Cardinality({nextId} \cup {currentId}) /\ Cardinality(S) \in Nat
  BY <1>1, <1>3, <1>5, FS_Subset, FS_CardinalityType
<1>7. MaxSnapshots \in Nat /\ MaxSnapshots >= 2
  BY <1>2, StoreAssumption
<1> QED BY <1>2, <1>5, <1>6, <1>7

\* Unless max_snapshots is 1, the id put() or create() returns is in the store
\* when the caller gets it.  (With 1 it need not be: a branch fills the store.)
THEOREM ReturnedIdIsStored == MaxSnapshots # 1 => (Spec => []PutReturnsStoredId)
<1> SUFFICES ASSUME MaxSnapshots # 1 PROVE Spec => []PutReturnsStoredId
  OBVIOUS
<1>1. Init => PutReturnsStoredId
  BY DEF Init, PutReturnsStoredId
<1>2. ASSUME IInv, PutReturnsStoredId, [Next]_vars PROVE PutReturnsStoredId'
  <2>1. ASSUME NEW arg \in held \cup {current}, StoreClone(arg) PROVE PutReturnsStoredId'
    <3>1. PICK r \in Refs : StoresClone(arg, r)
      BY <1>2, <2>1, StoreCloneIs
    <3>2. Stored' = Kept /\ returned' = nextId
      BY <3>1 DEF StoresClone
    <3>3. nextId \in Kept
      BY <1>2, NextKept
    <3> QED BY <3>2, <3>3 DEF PutReturnsStoredId
  <2>2. CASE Create
    BY <2>1, <2>2 DEF Create
  <2>3. CASE \E r \in held : PutModel(r)
    BY <2>1, <2>3 DEF PutModel
  <2>4. CASE returned' = NoId
    BY <2>4 DEF PutReturnsStoredId
  <2>5. CASE UNCHANGED vars
    BY <1>2, <2>5 DEF vars, PutReturnsStoredId, Stored
  <2> QED BY <1>2, <2>2, <2>3, <2>4, <2>5
          DEF Next, Restore, Get, Reap, Mutate, HoldCurrent, Clone, Release, Tick
<1> QED BY <1>1, <1>2, StoreInvariant, PTL DEF Spec
===============================================================================
