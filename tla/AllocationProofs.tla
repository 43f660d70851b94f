--------------------------- MODULE AllocationProofs ---------------------------
(***************************************************************************)
(* Proofs about the packer, for every topology, every model to start from, *)
(* every list of demands, every inventory and every caps.  What a search   *)
(* offers fits the clone it was made on (Slots, Probes, Placements), the   *)
(* answer is made of that (Answers), and provisioning lights exactly the   *)
(* runs it was given and leaves what was there (Provisioning, Landing).    *)
(* The invariant of the solve follows, and from it the theorems: the       *)
(* inventory, the slots, the records, the links that are down, and the two *)
(* sides of a protected demand.                                            *)
(***************************************************************************)
EXTENDS Allocation, RoutingProofs

-------------------------------------------------------------------------------
(* Routes.                                                                 *)

\* A route is a non-empty sequence of legs.
LEMMA RoutesOnAre ==
  ASSUME NEW g, NEW legs, NEW src, NEW dst, NEW r \in RoutesOn(g, legs, src, dst)
  PROVE  r \in Seq(legs) /\ 1 \in DOMAIN r
<1> DEFINE from == [leg \in legs |-> From(leg)]
           to == [leg \in legs |-> To(leg)]
<1>1. r \in SimpleWalks(legs, from, to)
  BY DEF RoutesOn
<1> HIDE DEF from, to
<1>2. PICK n \in 1 .. Cardinality(Nodes) - 1 : Joined(r, n, legs, from, to)
  BY <1>1, SimpleWalksAre
<1>3. Cardinality(Nodes) \in Nat
  BY RoutesAssumption, FS_CardinalityType
<1>4. n \in Nat /\ 1 <= n
  BY <1>3
<1>5. r \in [1 .. n -> legs]
  BY <1>2 DEF Joined
<1> QED BY <1>4, <1>5, SeqDef

LEMMA RoutesOnFinite ==
  ASSUME NEW g, NEW legs, IsFiniteSet(legs), NEW src, NEW dst
  PROVE  IsFiniteSet(RoutesOn(g, legs, src, dst))
<1> DEFINE from == [leg \in legs |-> From(leg)]
           to == [leg \in legs |-> To(leg)]
           W == SimpleWalks(legs, from, to)
           R == RoutesOn(g, legs, src, dst)
<1>1. R \in SUBSET W
  BY DEF RoutesOn
<1>2. IsFiniteSet(W)
  <2> HIDE DEF from, to
  <2> QED BY WalksFinite
<1> HIDE DEF W, R
<1>3. IsFiniteSet(R)
  BY <1>1, <1>2, FS_Subset
<1> QED BY <1>3 DEF R

\* A run of new sections, before it is judged, or a lightpath of the model.
FreshLeg(leg) == \E n \in Nat \ {0} : leg = Leg(NewRun, leg.oms) /\ IsWalk(leg.oms, n, OMS)
OldLeg(m, leg) == \E id \in Lit(m) : leg = Leg(id, m.lightpaths[id].oms)

LEMMA LegsOfAre ==
  ASSUME NEW m, NEW g, DOMAIN g.residual \subseteq Lit(m), NEW leg \in LegsOf(m, g)
  PROVE  FreshLeg(leg) \/ OldLeg(m, leg)
<1>1. CASE leg \in AllRuns
  <2>1. PICK r \in OmsRoutes(OMS) : leg = Leg(NewRun, r)
    BY <1>1 DEF AllRuns
  <2>2. PICK n \in 1 .. Cardinality(Nodes) - 1 : IsWalk(r, n, OMS)
    BY WalksAre
  <2>3. Cardinality(Nodes) \in Nat
    BY RoutesAssumption, FS_CardinalityType
  <2>4. n \in Nat \ {0}
    BY <2>3
  <2>5. leg.oms = r
    BY <2>1 DEF Leg
  <2> QED BY <2>1, <2>2, <2>4, <2>5 DEF FreshLeg
<1>2. CASE leg \notin AllRuns
  <2>1. PICK id \in DOMAIN g.residual : leg = Leg(id, m.lightpaths[id].oms)
    BY <1>2 DEF LegsOf
  <2> QED BY <2>1 DEF OldLeg
<1> QED BY <1>1, <1>2

LEMMA LegsOfFinite ==
  ASSUME NEW m, NEW g, IsFiniteSet(Lit(m)), DOMAIN g.residual \subseteq Lit(m)
  PROVE  IsFiniteSet(LegsOf(m, g))
<1> DEFINE D == DOMAIN g.residual
           old == [id \in D |-> Leg(id, m.lightpaths[id].oms)]
           Old == {Leg(id, m.lightpaths[id].oms) : id \in D}
           R == OmsRoutes(OMS)
           new == [r \in R |-> Leg(NewRun, r)]
           L == LegsOf(m, g)
<1>1. D \in SUBSET Lit(m)
  OBVIOUS
<1>2. IsFiniteSet(D)
  <2> HIDE DEF D
  <2> QED BY <1>1, FS_Subset
<1>3. old \in Surjection(D, Old)
  BY DEF Surjection
<1>4. new \in Surjection(R, AllRuns)
  BY DEF Surjection, AllRuns
<1>5. L \in SUBSET (Old \cup AllRuns)
  BY DEF LegsOf
<1> HIDE DEF L, Old, old, D, new
<1>6. IsFiniteSet(Old)
  BY <1>2, <1>3, FS_Surjection
<1>7. IsFiniteSet(R)
  BY RoutesAssumption, WalksFinite DEF OmsRoutes
<1> HIDE DEF R
<1>8. IsFiniteSet(AllRuns)
  BY <1>4, <1>7, FS_Surjection
<1>9. IsFiniteSet(Old \cup AllRuns)
  BY <1>6, <1>8, FS_Union
<1>10. IsFiniteSet(L)
  BY <1>5, <1>9, FS_Subset
<1> QED BY <1>10 DEF L


\* A route weighs a number of tenths.
LEMMA RouteWeighs ==
  ASSUME NEW L, NEW r \in Seq(L), \A leg \in L : IsNew(leg) => Len(leg.oms) \in Nat
  PROVE  Weight(r) \in Nat
<1> DEFINE D == DOMAIN r
           f == [i \in D |-> IF IsNew(r[i]) THEN 50 + Len(r[i].oms) ELSE 10]
<1>1. Weight(r) = Total(f, D)
  BY DEF Weight
<1>2. D = 1 .. Len(r) /\ Len(r) \in Nat /\ \A i \in D : r[i] \in L
  BY LenProperties
<1>3. Counts(f, D)
  BY <1>2 DEF Counts
<1>4. IsFiniteSet(D)
  <2> DEFINE n == Len(r)
  <2>1. 1 \in Int /\ n \in Int /\ D = 1 .. n
    BY <1>2
  <2> HIDE DEF n, D
  <2>2. IsFiniteSet(1 .. n)
    BY <2>1, FS_Interval, Zenon
  <2> QED BY <2>1, <2>2
<1> HIDE DEF D, f
<1>5. Total(f, D) \in Nat
  BY <1>3, <1>4, TotalTakes
<1> QED BY <1>1, <1>5

\* Putting the cheapest of what is left next lists routes of the set.
LEMMA CheapestIn ==
  ASSUME NEW R, R # {}, \A r \in R : Weight(r) \in Nat
  PROVE  Cheapest(R) \in R
<1> DEFINE T == {Weight(r) : r \in R}
<1>1. T \in SUBSET Nat /\ T # {}
  OBVIOUS
<1>2. PICK n \in T : \A k \in T : n <= k
  <2> HIDE DEF T
  <2> QED BY <1>1, LeastIn
<1>3. PICK r \in R : Weight(r) = n
  BY <1>2
<1>4. \A q \in R : Weight(r) <= Weight(q)
  BY <1>2, <1>3
<1> QED BY <1>4 DEF Cheapest

LEMMA ByWeightIs ==
  ASSUME NEW R, IsFiniteSet(R), \A r \in R : Weight(r) \in Nat
  PROVE  ByWeight(R) \in Seq(R)
<1> DEFINE n == Cardinality(R)
           s == [i \in 1 .. n |-> i]
           add(done) == Append(done, Cheapest(R \ Range(done)))
           F(h) == [i \in 0 .. Len(s) |-> IF i = 0 THEN <<>> ELSE add(h[i - 1])]
           after == CHOOSE h : h = F(h)
           A == Seq(R)
           g == [p \in A \X (1 .. n) |-> IF Len(p[1]) < n THEN add(p[1]) ELSE <<>>]
<1>1. ByWeight(R) = after[Len(s)]
  BY DEF ByWeight, Folded
<1>2. n \in Nat
  BY FS_CardinalityType
<1> HIDE DEF n
<1>3. Len(s) = n
  <2>1. s \in Seq(Nat) /\ DOMAIN s = 1 .. n
    BY <1>2
  <2> QED BY <1>2, <2>1, LenProperties
<1>4. ASSUME NEW done \in A, Len(done) < n
      PROVE  add(done) \in A /\ Len(add(done)) = Len(done) + 1
  <2> DEFINE k == Len(done)
  <2>1. done \in Surjection(1 .. k, Range(done)) /\ Range(done) \in SUBSET R
    BY RangeEquality, RangeOfSeq DEF Surjection
  <2>2. k \in Nat /\ IsFiniteSet(1 .. k) /\ Cardinality(1 .. k) = k
    <3>1. k \in Nat /\ 1 \in Int /\ k \in Int
      OBVIOUS
    <3> HIDE DEF k
    <3>2. IsFiniteSet(1 .. k) /\ Cardinality(1 .. k) = IF 1 > k THEN 0 ELSE k - 1 + 1
      BY <3>1, FS_Interval
    <3> QED BY <3>1, <3>2
  <2>3. k < n
    BY <1>4
  <2> HIDE DEF k
  <2>4. Cardinality(Range(done)) <= k
    BY <2>1, <2>2, FS_Surjection
  <2>5. R # Range(done)
    <3>1. Cardinality(R) = n /\ Cardinality(Range(done)) <= k /\ k < n /\ k \in Nat
      BY <2>2, <2>3, <2>4 DEF n
    <3>2. IsFiniteSet(Range(done))
      BY <2>1, FS_Subset
    <3>3. Cardinality(Range(done)) \in Nat
      BY <3>2, FS_CardinalityType
    <3> QED BY <1>2, <3>1, <3>3
  <2>6. Cheapest(R \ Range(done)) \in R \ Range(done)
    BY <2>1, <2>5, CheapestIn
  <2> QED BY <2>6, AppendProperties
<1>5. /\ g \in [A \X (1 .. n) -> A] /\ <<>> \in A
      /\ \A p \in A, i \in 1 .. n : g[<<p, i>>] = IF Len(p) < n THEN add(p) ELSE <<>>
  <2>1. \A p \in A : (IF Len(p) < n THEN add(p) ELSE <<>>) \in A
    BY <1>4
  <2> HIDE DEF add, A
  <2>2. <<>> \in A
    BY DEF A
  <2> QED BY <2>1, <2>2
<1> HIDE DEF add, g, s
<1>6. PICK h : Folds(h, n, <<>>, g) /\ \A i \in 0 .. n : h[i] \in A
  <2> HIDE DEF A
  <2> QED BY <1>2, <1>5, FoldTyped, Zenon
<1> DEFINE T == {i \in 0 .. n : Len(h[i]) = i /\ (i # 0 => h[i] = add(h[i - 1]))}
<1>7. 0 \in T
  BY <1>2, <1>6 DEF Folds
<1>8. ASSUME NEW i \in 1 .. n, i - 1 \in T
      PROVE  i \in T
  <2>1. i - 1 \in 0 .. n /\ i - 1 < n /\ i \in 0 .. n /\ i # 0 /\ i - 1 + 1 = i
    BY <1>2
  <2>2. h[i - 1] \in A /\ Len(h[i - 1]) = i - 1
    BY <1>6, <1>8, <2>1
  <2>3. h[i] = g[<<h[i - 1], i>>]
    BY <1>6 DEF Folds
  <2>4. h[i] = add(h[i - 1])
    BY <1>5, <2>1, <2>2, <2>3
  <2>5. Len(h[i]) = i
    BY <1>4, <2>1, <2>2, <2>4
  <2> QED BY <2>1, <2>4, <2>5
<1>9. \A i \in 0 .. n : i \in T
  <2> HIDE DEF T
  <2> QED BY <1>2, <1>7, <1>8, UpTo
<1>10. h = F(h)
  <2>1. h = [i \in 0 .. n |-> h[i]] /\ h[0] = <<>>
    BY <1>6 DEF Folds, OnTurns
  <2>2. \A i \in 0 .. n : h[i] = IF i = 0 THEN <<>> ELSE add(h[i - 1])
    BY <1>9, <2>1
  <2> QED BY <1>3, <2>1, <2>2
<1>11. after = F(after)
  BY <1>10
<1> HIDE DEF after
<1>12. \A i \in 0 .. n : after[i] = IF i = 0 THEN <<>> ELSE add(after[i - 1])
  BY <1>3, <1>11
<1> DEFINE U == {i \in 0 .. n : after[i] \in A /\ Len(after[i]) = i}
<1>13. 0 \in U
  <2>1. 0 \in 0 .. n
    BY <1>2
  <2>2. after[0] = <<>>
    BY <1>12, <2>1
  <2> QED BY <1>5, <2>1, <2>2
<1>14. ASSUME NEW i \in 1 .. n, i - 1 \in U
       PROVE  i \in U
  <2>1. i - 1 < n /\ i \in 0 .. n /\ i # 0 /\ i - 1 + 1 = i
    BY <1>2
  <2>2. after[i] = add(after[i - 1]) /\ after[i - 1] \in A /\ Len(after[i - 1]) = i - 1
    BY <1>12, <1>14, <2>1
  <2> QED BY <1>4, <2>1, <2>2
<1>15. \A i \in 0 .. n : i \in U
  <2> HIDE DEF U
  <2> QED BY <1>2, <1>13, <1>14, UpTo
<1> QED BY <1>1, <1>2, <1>3, <1>15

-------------------------------------------------------------------------------
(* Slots.                                                                  *)

Path == Seq(OMS) \ {<<>>}

\* A leg on the way to its slot and its mode; ids are those of old legs.
SlotLegs(ids) ==
  [id : ids, oms : Path, slot : Slots \cup {NoSlot}, mode : {NoMode}, gsnr : {0}, estimated : {FALSE}]

\* Two runs do not meet: another slot, or no section in common.
Clear(a, b) == a.slot # b.slot \/ Range(a.oms) \cap Range(b.oms) = {}

\* s[k] is r[k] on a slot that neither the state lights nor an earlier run takes.
OnFreeSlot(state, s, r, k) ==
  IF IsNew(r[k])
  THEN /\ s[k] = [r[k] EXCEPT !.slot = s[k].slot]
       /\ s[k].slot # NoSlot => /\ \A o \in Range(s[k].oms) : s[k].slot \notin state[o]
                                /\ \A j \in 1 .. k - 1 : IsNew(s[j]) => Clear(s[j], s[k])
  ELSE s[k] = r[k]

\* s is leg on a slot that is free after the legs already done.
FitsAfter(state, done, leg, s) ==
  IF IsNew(leg)
  THEN /\ s = [leg EXCEPT !.slot = s.slot]
       /\ s.slot # NoSlot => /\ \A o \in Range(s.oms) : s.slot \notin state[o]
                             /\ \A j \in 1 .. Len(done) : IsNew(done[j]) => Clear(done[j], s)
  ELSE s = leg

LEMMA OnSlotIs ==
  ASSUME NEW ids, NEW state, NEW done \in Seq(SlotLegs(ids)), NEW leg \in SlotLegs(ids)
  PROVE  /\ OnSlot(state, done, leg) \in SlotLegs(ids)
         /\ FitsAfter(state, done, leg, OnSlot(state, done, leg))
<1>1. CASE ~ IsNew(leg)
  BY <1>1 DEF OnSlot, FitsAfter
<1>2. CASE IsNew(leg)
  <2> DEFINE merged == Merged(state, Taken(done))
             w == FirstFitSlot(merged, leg.oms)
             s == [leg EXCEPT !.slot = w]
  <2>1. OnSlot(state, done, leg) = s
    BY <1>2 DEF OnSlot
  <2>2. w # NoSlot => w \in Slots /\ \A o \in OMS \cap Range(leg.oms) : w \notin merged[o]
    <3> HIDE DEF merged
    <3> QED BY FirstFitFree
  <2>3. \A o \in OMS : merged[o] = state[o] \cup Taken(done)[o]
    BY DEF Merged
  <2> HIDE DEF merged, w
  <2>4. leg.oms \in Seq(OMS) /\ Range(leg.oms) \subseteq OMS
    <3>1. leg.oms \in Seq(OMS)
      BY DEF SlotLegs, Path
    <3> QED BY <3>1, RangeOfSeq
  <2>5. s \in SlotLegs(ids) /\ s.slot = w /\ s.oms = leg.oms
    BY <2>2 DEF SlotLegs
  <2>6. ASSUME NEW j \in 1 .. Len(done), IsNew(done[j]), w # NoSlot
        PROVE  Clear(done[j], s)
    <3>1. SUFFICES ASSUME NEW o \in Range(done[j].oms) \cap Range(leg.oms) PROVE done[j].slot # w
      BY <2>5 DEF Clear
    <3>2. o \in OMS /\ w \notin Taken(done)[o]
      BY <2>2, <2>3, <2>4, <2>6
    <3>3. j \in DOMAIN done
      BY LenProperties
    <3>4. done[j].slot \in Taken(done)[o]
      BY <2>6, <3>2, <3>3 DEF Taken
    <3> QED BY <3>2, <3>4
  <2>7. w # NoSlot => \A o \in Range(s.oms) : s.slot \notin state[o]
    BY <2>2, <2>3, <2>4, <2>5
  <2> HIDE DEF s
  <2>8. s = [leg EXCEPT !.slot = s.slot]
    BY <2>5 DEF s
  <2>9. FitsAfter(state, done, leg, s)
    BY <1>2, <2>5, <2>6, <2>7, <2>8 DEF FitsAfter
  <2> QED BY <2>1, <2>5, <2>9
<1> QED BY <1>1, <1>2

\* Each leg of a route gets the lowest slot that is free of all that.
LEMMA AssignSlotsIs ==
  ASSUME NEW ids, NEW state, NEW r \in Seq(SlotLegs(ids))
  PROVE  /\ AssignSlots(state, r) \in Seq(SlotLegs(ids))
         /\ Len(AssignSlots(state, r)) = Len(r)
         /\ \A k \in 1 .. Len(r) : OnFreeSlot(state, AssignSlots(state, r), r, k)
<1> DEFINE n == Len(r)
           A == Seq(SlotLegs(ids))
           add(done, leg) == Append(done, OnSlot(state, done, leg))
           F(h) == [i \in 0 .. n |-> IF i = 0 THEN <<>> ELSE add(h[i - 1], r[i])]
           after == CHOOSE h : h = F(h)
           g == [p \in A \X (1 .. n) |-> add(p[1], r[p[2]])]
<1>1. AssignSlots(state, r) = after[n]
  BY DEF AssignSlots, Folded
<1>2. n \in Nat /\ \A i \in 1 .. n : r[i] \in SlotLegs(ids)
  OBVIOUS
<1>3. ASSUME NEW done \in A, NEW i \in 1 .. n
      PROVE  /\ add(done, r[i]) \in A
             /\ Len(add(done, r[i])) = Len(done) + 1 /\ Len(done) \in Nat
             /\ \A k \in 1 .. Len(done) : add(done, r[i])[k] = done[k]
             /\ add(done, r[i])[Len(done) + 1] = OnSlot(state, done, r[i])
  <2>1. OnSlot(state, done, r[i]) \in SlotLegs(ids)
    BY <1>2, OnSlotIs
  <2> QED BY <2>1, AppendProperties, LenProperties
<1> HIDE DEF n, add
<1>4. g \in [A \X (1 .. n) -> A] /\ <<>> \in A /\ \A p \in A, i \in 1 .. n : g[<<p, i>>] = add(p, r[i])
  <2>1. <<>> \in A
    OBVIOUS
  <2> HIDE DEF A
  <2> QED BY <1>3, <2>1
<1> HIDE DEF g
<1>5. PICK h : Folds(h, n, <<>>, g) /\ \A i \in 0 .. n : h[i] \in A
  <2> HIDE DEF A
  <2> QED BY <1>2, <1>4, FoldTyped, Zenon
<1>6. h = F(h)
  <2>1. \A i \in 1 .. n : i - 1 \in 0 .. n
    BY <1>2
  <2>2. \A i \in 1 .. n : h[i] = add(h[i - 1], r[i])
    BY <1>4, <1>5, <2>1 DEF Folds
  <2>3. \A i \in 0 .. n : i # 0 => i \in 1 .. n
    BY <1>2
  <2>4. h = [i \in 0 .. n |-> h[i]] /\ h[0] = <<>>
    BY <1>5 DEF Folds, OnTurns
  <2> QED BY <2>2, <2>3, <2>4
<1>7. after = F(after)
  BY <1>6
<1> HIDE DEF after
<1>8. after[0] = <<>> /\ \A i \in 1 .. n : after[i] = add(after[i - 1], r[i])
  <2>1. \A i \in 0 .. n : after[i] = IF i = 0 THEN <<>> ELSE add(after[i - 1], r[i])
    BY <1>7
  <2>2. 0 \in 0 .. n /\ \A i \in 1 .. n : i \in 0 .. n /\ i # 0
    BY <1>2
  <2> QED BY <2>1, <2>2
<1> DEFINE Good(i) == /\ after[i] \in A /\ Len(after[i]) = i
                      /\ \A k \in 1 .. i : OnFreeSlot(state, after[i], r, k)
           T == {i \in 0 .. n : Good(i)}
<1>9. 0 \in T
  <2>1. 0 \in 0 .. n /\ after[0] \in A /\ Len(after[0]) = 0 /\ \A k \in 1 .. 0 : FALSE
    BY <1>2, <1>4, <1>8
  <2> QED BY <2>1
<1>10. ASSUME NEW i \in 1 .. n, i - 1 \in T
       PROVE  i \in T
  <2> DEFINE t == after[i - 1]
             u == after[i]
  <2>1. /\ u \in A /\ Len(u) = i /\ i \in Nat /\ i - 1 + 1 = i
        /\ \A k \in 1 .. i - 1 : u[k] = t[k]
        /\ u[i] = OnSlot(state, t, r[i])
    <3>1. t \in A /\ Len(t) = i - 1 /\ u = add(t, r[i]) /\ i - 1 + 1 = i /\ i \in Nat
      BY <1>2, <1>8, <1>10
    <3> HIDE DEF t, u, A
    <3>2. /\ add(t, r[i]) \in A /\ Len(add(t, r[i])) = Len(t) + 1
          /\ \A k \in 1 .. Len(t) : add(t, r[i])[k] = t[k]
          /\ add(t, r[i])[Len(t) + 1] = OnSlot(state, t, r[i])
      BY <1>3, <3>1, Zenon
    <3>3. Len(t) + 1 = i
      BY <3>1
    <3> QED BY <3>1, <3>2, <3>3, Zenon
  <2>2. t \in A /\ Len(t) = i - 1 /\ \A k \in 1 .. i - 1 : OnFreeSlot(state, t, r, k)
    BY <1>10
  <2> HIDE DEF t, u, A
  <2>3. ASSUME NEW k \in 1 .. i - 1
        PROVE  OnFreeSlot(state, u, r, k)
    <3>1. \A j \in 1 .. k - 1 : u[j] = t[j]
      BY <2>1
    <3>2. u[k] = t[k]
      BY <2>1
    <3> QED BY <2>2, <3>1, <3>2 DEF OnFreeSlot
  <2>4. OnFreeSlot(state, u, r, i)
    <3>1. t \in Seq(SlotLegs(ids)) /\ r[i] \in SlotLegs(ids)
      BY <1>2, <2>2 DEF A
    <3> DEFINE s == OnSlot(state, t, r[i])
    <3>2. FitsAfter(state, t, r[i], s)
      BY <3>1, OnSlotIs, Zenon
    <3>3. \A j \in 1 .. i - 1 : j \in 1 .. Len(t) /\ u[j] = t[j]
      BY <2>1, <2>2
    <3>4. u[i] = s
      BY <2>1
    <3> HIDE DEF s
    <3> QED BY <3>2, <3>3, <3>4 DEF OnFreeSlot, FitsAfter
  <2>5. \A k \in 1 .. i : k \in 1 .. i - 1 \/ k = i
    BY <2>1
  <2>6. \A k \in 1 .. i : OnFreeSlot(state, u, r, k)
    BY <2>3, <2>4, <2>5
  <2>7. i \in 0 .. n
    OBVIOUS
  <2> QED BY <2>1, <2>6, <2>7 DEF u
<1>11. \A i \in 0 .. n : i \in T
  <2> HIDE DEF T
  <2> QED BY <1>2, <1>9, <1>10, UpTo
<1>12. Good(n)
  BY <1>2, <1>11
<1> QED BY <1>1, <1>12 DEF n

-------------------------------------------------------------------------------
(* Probes.                                                                 *)

\* out is what probing leg among its siblings left of it.
JudgedLeg(state, legs, leg, out) ==
  IF IsNew(leg)
  THEN out.mode # NoMode /\ \E seen : out = Judge(seen, leg, ProbeComb(state, legs, leg))
  ELSE out = leg

JudgedLegs(state, legs, out) ==
  /\ out \in Seq(Range(out)) /\ Len(out) = Len(legs)
  /\ \A k \in 1 .. Len(legs) : JudgedLeg(state, legs, legs[k], out[k])

\* The tables a search may come by, and the legs it may leave.
Tables(seen, legs) == SUBSET (seen \cup UNION {BothWays(legs[k].oms) : k \in 1 .. Len(legs)})
Judgements(seen, state, legs) ==
  Range(legs) \cup {Judge(p[1], legs[p[2]], ProbeComb(state, legs, legs[p[2]])) :
                      p \in Tables(seen, legs) \X (1 .. Len(legs))}
Searches(seen, state, legs) ==
  [table : Tables(seen, legs), legs : Seq(Judgements(seen, state, legs)),
   ok : BOOLEAN, raises : BOOLEAN]

\* One leg: the search goes on with it, or it ends.
GoesOn(acc, next, seen, state, legs, leg) ==
  /\ ~ acc.raises /\ acc.ok
  /\ \E out : /\ next.legs = Append(acc.legs, out) /\ out \in Judgements(seen, state, legs)
             /\ JudgedLeg(state, legs, leg, out)

OneLegOn(acc, next, seen, state, legs, leg) ==
  /\ next \in Searches(seen, state, legs)
  /\ next.raises \/ ~ next.ok \/ GoesOn(acc, next, seen, state, legs, leg)

LEMMA JudgeNextIs ==
  ASSUME NEW A, NEW seen, NEW state, NEW legs \in Seq(A), NEW k \in 1 .. Len(legs),
         NEW acc \in Searches(seen, state, legs)
  PROVE  OneLegOn(acc, JudgeNext(state, legs, acc, legs[k]), seen, state, legs, legs[k])
<1> DEFINE leg == legs[k]
           comb == ProbeComb(state, legs, leg)
           out == Judge(acc.table, leg, comb)
           next == JudgeNext(state, legs, acc, leg)
           J == Judgements(seen, state, legs)
           T == Tables(seen, legs)
<1>1. leg \in Range(legs)
  BY LenProperties DEF Range
<1>2. leg \in J
  BY <1>1 DEF Judgements
<1>3. /\ acc = [table |-> acc.table, legs |-> acc.legs, ok |-> acc.ok, raises |-> acc.raises]
      /\ acc.table \in T /\ acc.legs \in Seq(J) /\ acc.ok \in BOOLEAN /\ acc.raises \in BOOLEAN
  BY DEF Searches
<1>4. out \in J
  <2> DEFINE p == <<acc.table, k>>
  <2>1. p \in T \X (1 .. Len(legs)) /\ p[1] = acc.table /\ p[2] = k
    BY <1>3
  <2> HIDE DEF p, T
  <2>2. out = Judge(p[1], legs[p[2]], ProbeComb(state, legs, legs[p[2]]))
    BY <2>1
  <2> QED BY <2>1, <2>2 DEF Judgements, T
<1>5. Calibrated(acc.table, leg.oms, comb) \in T
  BY <1>3 DEF Calibrated, Tables
<1>6. Append(acc.legs, leg) \in Seq(J) /\ Append(acc.legs, out) \in Seq(J)
  BY <1>2, <1>3, <1>4, AppendProperties
<1> DEFINE S == [table : T, legs : Seq(J), ok : BOOLEAN, raises : BOOLEAN]
           Goes(nx) == OneLegOn(acc, nx, seen, state, legs, leg)
<1>7. CASE acc.raises \/ ~ acc.ok
  <2>1. next = acc
    BY <1>7 DEF JudgeNext
  <2>2. acc \in S
    BY DEF Searches
  <2> HIDE DEF next
  <2>3. Goes(next)
    BY <1>7, <2>1, <2>2 DEF OneLegOn, Searches
  <2> QED BY <2>3 DEF next
<1>8. CASE ~ acc.raises /\ acc.ok /\ ~ IsNew(leg)
  <2>1. next = [acc EXCEPT !.legs = Append(@, leg)]
    BY <1>8 DEF JudgeNext
  <2>2. JudgedLeg(state, legs, leg, leg)
    BY <1>8 DEF JudgedLeg
  <2> HIDE DEF next, J, T, leg
  <2>3. next \in S /\ next.legs = Append(acc.legs, leg)
    BY <1>3, <1>6, <2>1
  <2> HIDE DEF S
  <2>4. GoesOn(acc, next, seen, state, legs, leg)
    BY <1>2, <1>8, <2>2, <2>3 DEF GoesOn, J
  <2>5. Goes(next)
    BY <2>3, <2>4 DEF OneLegOn, S, Searches, J, T
  <2> QED BY <2>5 DEF next, leg
<1>9. CASE ~ acc.raises /\ acc.ok /\ IsNew(leg)
  <2>1. next = ProbeLeg(acc, leg, comb)
    BY <1>9 DEF JudgeNext
  <2>2. CASE ~ Propagatable(leg.oms)
    <3>1. next = [acc EXCEPT !.raises = TRUE]
      BY <2>1, <2>2 DEF ProbeLeg
    <3> HIDE DEF next, J, T
    <3>2. next \in S /\ next.raises
      BY <1>3, <3>1
    <3>3. Goes(next)
      BY <3>2 DEF OneLegOn, Searches, J, T
    <3> QED BY <3>3 DEF next
  <2>3. CASE Propagatable(leg.oms)
    <3>1. next = [acc EXCEPT !.legs = Append(@, out), !.ok = out.mode # NoMode,
                             !.table = Calibrated(@, leg.oms, comb)]
      BY <2>1, <2>3 DEF ProbeLeg
    <3>2. out.mode # NoMode => JudgedLeg(state, legs, leg, out)
      BY <1>9 DEF JudgedLeg
    <3> HIDE DEF next, J, T, out, comb
    <3>3. next \in S /\ next.legs = Append(acc.legs, out) /\ (next.ok <=> out.mode # NoMode)
      BY <1>3, <1>5, <1>6, <3>1
    <3> HIDE DEF S
    <3>4. next.ok => GoesOn(acc, next, seen, state, legs, leg)
      BY <1>4, <1>9, <3>2, <3>3 DEF GoesOn, J
    <3>5. Goes(next)
      BY <3>3, <3>4 DEF OneLegOn, S, Searches, J, T
    <3> QED BY <3>5 DEF next
  <2> QED BY <2>2, <2>3
<1> QED BY <1>7, <1>8, <1>9

\* A search that comes to its end has judged every leg.
LEMMA JudgedIs ==
  ASSUME NEW A, NEW seen, NEW state, NEW legs \in Seq(A)
  PROVE  LET judged == Judged(seen, state, legs)
         IN  ~ judged.raises /\ judged.ok => JudgedLegs(state, legs, judged.legs)
<1> DEFINE n == Len(legs)
           start == [table |-> seen, legs |-> <<>>, ok |-> TRUE, raises |-> FALSE]
           S == Searches(seen, state, legs)
           step(acc, leg) == JudgeNext(state, legs, acc, leg)
           F(h) == [i \in 0 .. n |-> IF i = 0 THEN start ELSE step(h[i - 1], legs[i])]
           after == CHOOSE h : h = F(h)
           g == [p \in S \X (1 .. n) |-> step(p[1], legs[p[2]])]
<1>1. Judged(seen, state, legs) = after[n]
  BY DEF Judged, Folded
<1>2. n \in Nat
  BY LenProperties
<1>3. start \in S
  <2>1. seen \in Tables(seen, legs)
    BY DEF Tables
  <2> QED BY <2>1 DEF Searches
<1>4. g \in [S \X (1 .. n) -> S] /\ \A p \in S, i \in 1 .. n : g[<<p, i>>] = step(p, legs[i])
  <2>1. \A p \in S, i \in 1 .. n : step(p, legs[i]) \in S
    <3> SUFFICES ASSUME NEW p \in S, NEW i \in 1 .. n PROVE step(p, legs[i]) \in S
      OBVIOUS
    <3> QED BY JudgeNextIs DEF OneLegOn
  <2> HIDE DEF S, step, n
  <2> QED BY <2>1
<1> HIDE DEF g, start
<1>5. PICK h : Folds(h, n, start, g) /\ \A i \in 0 .. n : h[i] \in S
  <2> HIDE DEF S, n
  <2> QED BY <1>2, <1>3, <1>4, FoldTyped, Zenon
<1> HIDE DEF n
<1>6. h = F(h)
  <2> HIDE DEF step, S
  <2>1. \A i \in 1 .. n : i - 1 \in 0 .. n
    BY <1>2
  <2>2. \A i \in 1 .. n : h[i] = step(h[i - 1], legs[i])
    BY <1>4, <1>5, <2>1 DEF Folds
  <2>3. \A i \in 0 .. n : i # 0 => i \in 1 .. n
    BY <1>2
  <2>4. h = [i \in 0 .. n |-> h[i]] /\ h[0] = start
    BY <1>5 DEF Folds, OnTurns
  <2> QED BY <2>2, <2>3, <2>4
<1>7. after = F(after)
  BY <1>6
<1> HIDE DEF after
<1>8. after[0] = start /\ \A i \in 1 .. n : after[i] = step(after[i - 1], legs[i])
  <2> HIDE DEF step
  <2>1. \A i \in 0 .. n : after[i] = IF i = 0 THEN start ELSE step(after[i - 1], legs[i])
    BY <1>7
  <2>2. 0 \in 0 .. n /\ \A i \in 1 .. n : i \in 0 .. n /\ i # 0
    BY <1>2
  <2> QED BY <2>1, <2>2
<1> DEFINE Ended(i) == after[i].raises \/ ~ after[i].ok
           All(i) == /\ Len(after[i].legs) = i
                     /\ \A k \in 1 .. i : JudgedLeg(state, legs, legs[k], after[i].legs[k])
           T == {i \in 0 .. n : after[i] \in S /\ (Ended(i) \/ All(i))}
<1>9. 0 \in T
  <2>1. 0 \in 0 .. n /\ after[0] \in S /\ Len(after[0].legs) = 0 /\ \A k \in 1 .. 0 : FALSE
    BY <1>2, <1>3, <1>8 DEF start
  <2> QED BY <2>1
<1>10. ASSUME NEW i \in 1 .. n, i - 1 \in T
       PROVE  i \in T
  <2> DEFINE t == after[i - 1]
             u == after[i]
             J == Judgements(seen, state, legs)
  <2>1. t \in S /\ u = JudgeNext(state, legs, t, legs[i]) /\ i \in Nat /\ i \in 0 .. n /\ i \in 1 .. Len(legs)
    BY <1>2, <1>8, <1>10 DEF n
  <2>2. Ended(i - 1) \/ All(i - 1)
    BY <1>10
  <2> HIDE DEF t, u
  <2>7. OneLegOn(t, u, seen, state, legs, legs[i])
    BY <2>1, JudgeNextIs
  <2>3. u \in S
    BY <2>7 DEF OneLegOn
  <2>4. u.raises \/ ~ u.ok
        \/ /\ ~ t.raises /\ t.ok
           /\ \E out : u.legs = Append(t.legs, out) /\ out \in J /\ JudgedLeg(state, legs, legs[i], out)
    BY <2>7 DEF OneLegOn, GoesOn
  <2>5. CASE u.raises \/ ~ u.ok
    BY <2>1, <2>3, <2>5 DEF u
  <2>6. CASE ~ (u.raises \/ ~ u.ok)
    <3>1. PICK out : u.legs = Append(t.legs, out) /\ out \in J /\ JudgedLeg(state, legs, legs[i], out)
      BY <2>4, <2>6
    <3>2. /\ Len(t.legs) = i - 1 /\ t.legs \in Seq(J)
          /\ \A k \in 1 .. i - 1 : JudgedLeg(state, legs, legs[k], t.legs[k])
      BY <2>1, <2>2, <2>4, <2>6 DEF t, Searches
    <3> HIDE DEF J
    <3>3. /\ Len(u.legs) = i /\ u.legs[i] = out
          /\ \A k \in 1 .. i - 1 : u.legs[k] = t.legs[k]
      <4>1. /\ Len(Append(t.legs, out)) = Len(t.legs) + 1
            /\ \A k \in 1 .. Len(t.legs) : Append(t.legs, out)[k] = t.legs[k]
            /\ Append(t.legs, out)[Len(t.legs) + 1] = out
        BY <3>1, <3>2, AppendProperties
      <4>2. i - 1 + 1 = i
        BY <2>1
      <4> QED BY <3>1, <3>2, <4>1, <4>2, Zenon
    <3>4. ASSUME NEW k \in 1 .. i
          PROVE  JudgedLeg(state, legs, legs[k], u.legs[k])
      <4>1. k \in 1 .. i - 1 \/ k = i
        BY <2>1
      <4>2. CASE k = i
        BY <3>1, <3>3, <4>2, Zenon
      <4>3. CASE k \in 1 .. i - 1
        BY <3>2, <3>3, <4>3, Zenon
      <4> QED BY <4>1, <4>2, <4>3
    <3>5. All(i)
      BY <3>3, <3>4 DEF u
    <3> QED BY <2>1, <2>3, <3>5 DEF u
  <2> QED BY <2>5, <2>6
<1>11. \A i \in 0 .. n : i \in T
  <2> HIDE DEF T
  <2> QED BY <1>2, <1>9, <1>10, UpTo
<1>12. after[n] \in S /\ (Ended(n) \/ All(n))
  BY <1>2, <1>11
<1>13. ASSUME ~ Ended(n)
       PROVE  JudgedLegs(state, legs, after[n].legs)
  <2> DEFINE out == after[n].legs
             J == Judgements(seen, state, legs)
  <2>1. out \in Seq(J)
    BY <1>12 DEF Searches
  <2>2. All(n)
    BY <1>12, <1>13
  <2> HIDE DEF J
  <2>3. out \in Seq(Range(out))
    BY <2>1, SeqOfRange
  <2> QED BY <2>2, <2>3 DEF JudgedLegs, n
<1> QED BY <1>1, <1>13

-------------------------------------------------------------------------------
(* Placements.                                                             *)

\* Every lightpath of the model runs over sections.
OnPaths(m) == \A id \in Lit(m) : m.lightpaths[id].oms \in Path

\* A run was probed on the comb that the fill policy names.
ProbedRun(leg) ==
  \E seen, comb :
    /\ leg.gsnr = WorseDirection(seen, leg.oms, leg.slot, comb)
    /\ leg.mode = BestFeasibleMode(leg.gsnr)
    /\ leg.estimated = CanCompose(seen, leg.oms, comb)
    /\ FillPolicy = "full" => comb = Slots

\* A run that the model leaves room for.
RunOn(m, leg) ==
  /\ leg.oms \in Path /\ leg.slot \in Slots /\ leg.mode # NoMode
  /\ \A id \in Lit(m) : Clear(m.lightpaths[id], leg)
  /\ ProbedRun(leg)

\* Legs that fit the model and each other.
LegsFit(m, legs) ==
  /\ legs \in Seq(Range(legs))
  /\ \A k \in 1 .. Len(legs) : IF IsNew(legs[k]) THEN RunOn(m, legs[k]) ELSE OldLeg(m, legs[k])
  /\ \A j, k \in 1 .. Len(legs) : j # k /\ IsNew(legs[j]) /\ IsNew(legs[k]) => Clear(legs[j], legs[k])

IdsOf(m) == Lit(m) \cup {NewRun}

LEMMA RouteTyped ==
  ASSUME NEW m, OnPaths(m), NEW g, DOMAIN g.residual \subseteq Lit(m), NEW leg \in LegsOf(m, g)
  PROVE  leg \in SlotLegs(IdsOf(m)) /\ (~ IsNew(leg) => OldLeg(m, leg))
<1>1. CASE FreshLeg(leg)
  <2>1. PICK n \in Nat \ {0} : leg = Leg(NewRun, leg.oms) /\ IsWalk(leg.oms, n, OMS)
    BY <1>1 DEF FreshLeg
  <2>2. leg.oms \in [1 .. n -> OMS]
    BY <2>1 DEF IsWalk
  <2>3. leg.oms \in Seq(OMS) /\ Len(leg.oms) = n
    BY <2>2, SeqDef
  <2>4. leg.oms \in Path
    BY <2>3 DEF Path
  <2>5. leg.id = NewRun
    BY <2>1 DEF Leg
  <2> DEFINE q == leg.oms
  <2>6. Leg(NewRun, q) \in SlotLegs(IdsOf(m))
    BY <2>4 DEF Leg, SlotLegs, IdsOf
  <2> QED BY <2>1, <2>5, <2>6 DEF IsNew
<1>2. CASE OldLeg(m, leg)
  <2>1. PICK id \in Lit(m) : leg = Leg(id, m.lightpaths[id].oms)
    BY <1>2 DEF OldLeg
  <2>2. m.lightpaths[id].oms \in Path
    BY DEF OnPaths
  <2> DEFINE q == m.lightpaths[id].oms
  <2>3. Leg(id, q) \in SlotLegs(IdsOf(m))
    BY <2>2 DEF Leg, SlotLegs, IdsOf
  <2> QED BY <1>2, <2>1, <2>3
<1> QED BY <1>1, <1>2, LegsOfAre

\* What is slotted and judged fits.
LEMMA JudgedFit ==
  ASSUME NEW m, OnPaths(m), NEW g, DOMAIN g.residual \subseteq Lit(m), NEW r \in Seq(LegsOf(m, g)),
         NEW legs, legs = AssignSlots(BuildSpectrumState(m), r), HasSlots(legs),
         NEW out, JudgedLegs(BuildSpectrumState(m), legs, out)
  PROVE  LegsFit(m, out)
<1> DEFINE state == BuildSpectrumState(m)
           n == Len(r)
           T == SlotLegs(IdsOf(m))
<1>1. \A leg \in LegsOf(m, g) : leg \in T /\ (~ IsNew(leg) => OldLeg(m, leg))
  BY RouteTyped
<1>2. r \in Seq(T) /\ \A k \in 1 .. n : ~ IsNew(r[k]) => OldLeg(m, r[k])
  <2> HIDE DEF T
  <2>1. n \in Nat /\ r \in [1 .. n -> LegsOf(m, g)]
    BY LenProperties
  <2>2. r \in [1 .. n -> T] /\ \A k \in 1 .. n : ~ IsNew(r[k]) => OldLeg(m, r[k])
    BY <1>1, <2>1
  <2> QED BY <2>1, <2>2, SeqDef
<1>3. legs \in Seq(T) /\ Len(legs) = n /\ \A k \in 1 .. n : OnFreeSlot(state, legs, r, k)
  <2> HIDE DEF n, state
  <2> QED BY <1>2, AssignSlotsIs DEF n, state
<1>4. \A k \in 1 .. n : legs[k] \in T /\ r[k] \in T /\ k \in DOMAIN legs
  BY <1>2, <1>3, LenProperties
<1> HIDE DEF state
<1>5. out \in Seq(Range(out)) /\ Len(out) = n /\ \A k \in 1 .. n : JudgedLeg(state, legs, legs[k], out[k])
  BY <1>3 DEF JudgedLegs, state
<1> HIDE DEF n
<1>6. ASSUME NEW k \in 1 .. n
      PROVE  /\ IsNew(r[k]) <=> IsNew(legs[k])
             /\ ~ IsNew(r[k]) => legs[k] = r[k]
             /\ IsNew(legs[k]) => legs[k].slot # NoSlot
  BY <1>3, <1>4 DEF OnFreeSlot, IsNew, SlotLegs, HasSlots
<1>7. ASSUME NEW k \in 1 .. n, IsNew(legs[k])
      PROVE  /\ \A o \in Range(legs[k].oms) : legs[k].slot \notin state[o]
             /\ \A j \in 1 .. k - 1 : IsNew(legs[j]) => Clear(legs[j], legs[k])
  BY <1>3, <1>6, <1>7 DEF OnFreeSlot
<1>8. ASSUME NEW k \in 1 .. n, IsNew(legs[k])
      PROVE  /\ legs[k].oms \in Path /\ legs[k].slot \in Slots
             /\ \A id \in Lit(m) : Clear(m.lightpaths[id], legs[k])
  <2>1. legs[k].oms \in Path /\ legs[k].slot \in Slots
    BY <1>4, <1>6, <1>8 DEF SlotLegs
  <2>2. Range(legs[k].oms) \subseteq OMS
    BY <2>1, RangeOfSeq DEF Path
  <2>3. ASSUME NEW id \in Lit(m), m.lightpaths[id].slot = legs[k].slot,
               NEW o \in Range(m.lightpaths[id].oms) \cap Range(legs[k].oms)
        PROVE  FALSE
    <3>1. o \in OMS /\ legs[k].slot \notin state[o]
      BY <1>7, <1>8, <2>2
    <3>2. m.lightpaths[id].slot \in state[o]
      BY <2>3, <3>1 DEF state, BuildSpectrumState, OmsOf
    <3> QED BY <2>3, <3>1, <3>2
  <2> QED BY <2>1, <2>3 DEF Clear
<1>9. ASSUME NEW k \in 1 .. n, IsNew(legs[k])
      PROVE  /\ out[k].id = legs[k].id /\ out[k].oms = legs[k].oms /\ out[k].slot = legs[k].slot
             /\ out[k].mode # NoMode /\ ProbedRun(out[k])
  <2> DEFINE leg == legs[k]
             comb == ProbeComb(state, legs, leg)
  <2>1. PICK seen : out[k] = Judge(seen, leg, comb)
    BY <1>5, <1>9 DEF JudgedLeg
  <2>2. out[k].mode # NoMode
    BY <1>5, <1>9 DEF JudgedLeg
  <2>3. leg \in T
    BY <1>4
  <2>4. FillPolicy = "full" => comb = Slots
    <3> SUFFICES ASSUME FillPolicy = "full" PROVE comb = Slots
      OBVIOUS
    <3>1. comb = Slots \cup {o.slot : o \in {o \in Range(legs) : IsNew(o) /\ Range(o.oms) \cap Range(leg.oms) # {}}}
      BY DEF ProbeComb, Loading
    <3>2. ASSUME NEW o \in Range(legs), IsNew(o) PROVE o.slot \in Slots
      <4>1. PICK j \in 1 .. n : o = legs[j]
        BY <1>3, RangeEquality
      <4> QED BY <1>8, <3>2, <4>1
    <3> QED BY <3>1, <3>2
  <2> HIDE DEF leg, comb
  <2>5. /\ out[k].id = leg.id /\ out[k].oms = leg.oms /\ out[k].slot = leg.slot
        /\ out[k].gsnr = WorseDirection(seen, leg.oms, leg.slot, comb)
        /\ out[k].mode = BestFeasibleMode(out[k].gsnr)
        /\ out[k].estimated = CanCompose(seen, leg.oms, comb)
    BY <2>1, <2>3 DEF Judge, SlotLegs
  <2>6. ProbedRun(out[k])
    BY <2>4, <2>5 DEF ProbedRun
  <2> QED BY <2>2, <2>5, <2>6 DEF leg
<1>10. \A k \in 1 .. n : ~ IsNew(legs[k]) => out[k] = legs[k]
  BY <1>5 DEF JudgedLeg
<1>11. ASSUME NEW k \in 1 .. n
       PROVE  /\ IsNew(out[k]) <=> IsNew(legs[k])
              /\ IF IsNew(out[k]) THEN RunOn(m, out[k]) ELSE OldLeg(m, out[k])
  <2>1. CASE IsNew(legs[k])
    <3>1. IsNew(out[k])
      BY <1>9, <2>1 DEF IsNew
    <3>2. RunOn(m, out[k])
      BY <1>8, <1>9, <2>1 DEF RunOn, Clear
    <3> QED BY <2>1, <3>1, <3>2
  <2>2. CASE ~ IsNew(legs[k])
    BY <1>2, <1>6, <1>10, <2>2
  <2> QED BY <2>1, <2>2
<1>12. ASSUME NEW j \in 1 .. n, NEW k \in 1 .. n, j # k, IsNew(out[j]), IsNew(out[k])
       PROVE  Clear(out[j], out[k])
  <2>1. IsNew(legs[j]) /\ IsNew(legs[k])
    BY <1>11, <1>12
  <2>2. n \in Nat
    BY <1>3, LenProperties
  <2>3. Clear(legs[j], legs[k])
    <3>1. CASE j < k
      <4>1. j \in 1 .. k - 1
        BY <2>2, <3>1
      <4> QED BY <1>7, <2>1, <4>1
    <3>2. CASE k < j
      <4>1. k \in 1 .. j - 1
        BY <2>2, <3>2
      <4> QED BY <1>7, <2>1, <4>1 DEF Clear
    <3> QED BY <1>12, <2>2, <3>1, <3>2
  <2> QED BY <1>9, <2>1, <2>3 DEF Clear
<1> QED BY <1>5, <1>11, <1>12 DEF LegsFit

\* Placements whose legs fit the model.
AllFit(m, out) ==
  out \in Seq(Range(out)) /\ \A k \in 1 .. Len(out) : LegsFit(m, out[k].legs)

LEMMA OneMoreFits ==
  ASSUME NEW m, NEW out, AllFit(m, out), NEW p, LegsFit(m, p.legs)
  PROVE  AllFit(m, Append(out, p))
<1> DEFINE A == Range(out) \cup {p}
           t == Append(out, p)
<1>1. out \in Seq(A) /\ p \in A
  BY SeqMonotonic DEF AllFit
<1> HIDE DEF A
<1>2. /\ t \in Seq(A) /\ Len(t) = Len(out) + 1 /\ Len(out) \in Nat
      /\ t[Len(out) + 1] = p /\ \A k \in 1 .. Len(out) : t[k] = out[k]
  BY <1>1, AppendProperties, LenProperties
<1> HIDE DEF t
<1>3. t \in Seq(Range(t))
  BY <1>2, SeqOfRange
<1>4. ASSUME NEW k \in 1 .. Len(t)
      PROVE  LegsFit(m, t[k].legs)
  <2>1. k \in 1 .. Len(out) \/ k = Len(out) + 1
    BY <1>2
  <2>2. CASE k \in 1 .. Len(out)
    BY <1>2, <2>2 DEF AllFit
  <2>3. CASE k = Len(out) + 1
    BY <1>2, <2>3
  <2> QED BY <2>1, <2>2, <2>3
<1>5. AllFit(m, t)
  BY <1>3, <1>4 DEF AllFit
<1> QED BY <1>5 DEF t

LEMMA BothFit ==
  ASSUME NEW m, NEW a, AllFit(m, a), NEW b, AllFit(m, b)
  PROVE  AllFit(m, a \o b)
<1> DEFINE A == Range(a) \cup Range(b)
           t == a \o b
<1>1. a \in Seq(A) /\ b \in Seq(A)
  BY SeqMonotonic DEF AllFit
<1> HIDE DEF A
<1>2. /\ t \in Seq(A) /\ Len(t) = Len(a) + Len(b) /\ Len(a) \in Nat /\ Len(b) \in Nat
      /\ \A k \in 1 .. Len(t) : t[k] = IF k <= Len(a) THEN a[k] ELSE b[k - Len(a)]
  BY <1>1, ConcatProperties, LenProperties
<1> HIDE DEF t
<1>3. t \in Seq(Range(t))
  BY <1>2, SeqOfRange
<1>4. ASSUME NEW k \in 1 .. Len(t)
      PROVE  LegsFit(m, t[k].legs)
  <2>2. CASE k <= Len(a)
    <3>1. k \in 1 .. Len(a) /\ t[k] = a[k]
      BY <1>2, <2>2
    <3> QED BY <3>1 DEF AllFit
  <2>3. CASE ~ (k <= Len(a))
    <3>1. k - Len(a) \in 1 .. Len(b) /\ t[k] = b[k - Len(a)]
      BY <1>2, <2>3
    <3> QED BY <3>1 DEF AllFit
  <2> QED BY <2>2, <2>3
<1>5. AllFit(m, t)
  BY <1>3, <1>4 DEF AllFit
<1> QED BY <1>5 DEF t

LEMMA FilteredFit ==
  ASSUME NEW m, NEW out, AllFit(m, out), NEW S
  PROVE  AllFit(m, Filtered(out, S))
<1> DEFINE t == Filtered(out, S)
           A == Range(out)
<1>1. out \in Seq(A)
  BY DEF AllFit
<1> HIDE DEF A
<1>2. t \in Seq(A) /\ \E at : Rises(at, t, out)
  BY <1>1, FilteredIs
<1> HIDE DEF t
<1>3. t \in Seq(Range(t))
  BY <1>2, SeqOfRange
<1>4. PICK at : Rises(at, t, out)
  BY <1>2
<1>5. ASSUME NEW k \in 1 .. Len(t)
      PROVE  LegsFit(m, t[k].legs)
  <2>1. at[k] \in 1 .. Len(out) /\ t[k] = out[at[k]]
    BY <1>4 DEF Rises
  <2> QED BY <2>1 DEF AllFit
<1>6. AllFit(m, t)
  BY <1>3, <1>5 DEF AllFit
<1> QED BY <1>6 DEF t

\* A search that kept only what fits.
Fruitful(m, h) ==
  /\ h = [table |-> h.table, probed |-> h.probed, out |-> h.out, stop |-> h.stop, raises |-> h.raises]
  /\ AllFit(m, h.out)

\* A search keeps its fields, whatever becomes of their values.
LEMMA SearchFields ==
  ASSUME NEW t, NEW p, NEW o, NEW s, NEW r, NEW x, NEW y, NEW z,
         NEW h, h = [table |-> t, probed |-> p, out |-> o, stop |-> s, raises |-> r]
  PROVE  /\ [h EXCEPT !.out = x] = [table |-> t, probed |-> p, out |-> x, stop |-> s, raises |-> r]
         /\ [h EXCEPT !.out = x, !.stop = y]
              = [table |-> t, probed |-> p, out |-> x, stop |-> y, raises |-> r]
         /\ [h EXCEPT !.probed = x, !.table = y, !.raises = z]
              = [table |-> y, probed |-> x, out |-> o, stop |-> s, raises |-> z]
<1>1. [h EXCEPT !.out = x] = [table |-> t, probed |-> p, out |-> x, stop |-> s, raises |-> r]
  OBVIOUS
<1>2. [h EXCEPT !.out = x, !.stop = y] = [table |-> t, probed |-> p, out |-> x, stop |-> y, raises |-> r]
  <2> DEFINE k == [h EXCEPT !.out = x, !.stop = y]
  <2>1. k \in [table : {t}, probed : {p}, out : {x}, stop : {y}, raises : {r}]
    OBVIOUS
  <2> HIDE DEF k
  <2>2. k = [table |-> t, probed |-> p, out |-> x, stop |-> y, raises |-> r]
    BY <2>1
  <2> QED BY <2>2 DEF k
<1>3. [h EXCEPT !.probed = x, !.table = y, !.raises = z]
        = [table |-> y, probed |-> x, out |-> o, stop |-> s, raises |-> z]
  <2> DEFINE k == [h EXCEPT !.probed = x, !.table = y, !.raises = z]
  <2>1. k \in [table : {y}, probed : {x}, out : {o}, stop : {s}, raises : {z}]
    OBVIOUS
  <2> HIDE DEF k
  <2>2. k = [table |-> y, probed |-> x, out |-> o, stop |-> s, raises |-> z]
    BY <2>1
  <2> QED BY <2>2 DEF k
<1> QED BY <1>1, <1>2, <1>3, Zenon

LEMMA FruitfulIs ==
  ASSUME NEW m, NEW t, NEW p, NEW o, NEW s, NEW r, AllFit(m, o),
         NEW h, h = [table |-> t, probed |-> p, out |-> o, stop |-> s, raises |-> r]
  PROVE  Fruitful(m, h)
  BY DEF Fruitful

LEMMA TryRouteFits ==
  ASSUME NEW m, OnPaths(m), NEW g, DOMAIN g.residual \subseteq Lit(m), NEW r \in Seq(LegsOf(m, g)),
         NEW h, Fruitful(m, h), NEW gbps, NEW early
  PROVE  Fruitful(m, TryRoute(h, m, g, BuildSpectrumState(m), r, gbps, early))
<1> DEFINE state == BuildSpectrumState(m)
           legs == AssignSlots(state, r)
           judged == Judged(h.table, state, legs)
           u == TryRoute(h, m, g, state, r, gbps, early)
           p == [legs |-> judged.legs, restored |-> RestoredRate(g, judged.legs, gbps)]
           probed == [h EXCEPT !.probed = @ + 1, !.table = judged.table, !.raises = judged.raises]
           kept == [probed EXCEPT !.out = Append(@, p), !.stop = early /\ StopsSearch(m, p, gbps)]
<1>1. u = h \/ (HasSlots(legs) /\ u = Accept(h, m, g, judged, gbps, early))
  BY DEF TryRoute
<1>2. Accept(h, m, g, judged, gbps, early) = probed
        \/ (~ judged.raises /\ judged.ok /\ Accept(h, m, g, judged, gbps, early) = kept)
  BY DEF Accept
<1>3. Fruitful(m, probed) /\ probed.out = h.out
  <2> HIDE DEF judged
  <2>1. h = [table |-> h.table, probed |-> h.probed, out |-> h.out, stop |-> h.stop, raises |-> h.raises]
    BY DEF Fruitful
  <2> DEFINE x == h.probed + 1
             y == judged.table
             z == judged.raises
  <2> HIDE DEF x, y, z
  <2>4. probed = [h EXCEPT !.probed = x, !.table = y, !.raises = z]
    BY DEF x, y, z
  <2>2. probed = [table |-> y, probed |-> x, out |-> h.out, stop |-> h.stop, raises |-> z]
    <3> HIDE DEF probed
    <3> QED BY <2>1, <2>4, SearchFields, Zenon
  <2> HIDE DEF probed
  <2>3. AllFit(m, h.out)
    BY DEF Fruitful
  <2> QED BY <2>2, <2>3, FruitfulIs
<1>4. ASSUME HasSlots(legs), ~ judged.raises, judged.ok
      PROVE  Fruitful(m, kept)
  <2>1. legs \in Seq(Range(legs))
    <3> HIDE DEF state
    <3>1. r \in Seq(SlotLegs(IdsOf(m)))
      <4> DEFINE n == Len(r)
                 T == SlotLegs(IdsOf(m))
      <4>1. n \in Nat /\ r \in [1 .. n -> LegsOf(m, g)]
        BY LenProperties
      <4>2. \A leg \in LegsOf(m, g) : leg \in T
        BY RouteTyped
      <4> HIDE DEF T, n
      <4>3. r \in [1 .. n -> T]
        BY <4>1, <4>2
      <4> QED BY <4>1, <4>3, SeqDef DEF T
    <3>2. legs \in Seq(SlotLegs(IdsOf(m)))
      BY <3>1, AssignSlotsIs
    <3> HIDE DEF legs
    <3> QED BY <3>2, SeqOfRange
  <2>2. JudgedLegs(state, legs, judged.legs)
    <3> HIDE DEF legs, state
    <3> QED BY <1>4, <2>1, JudgedIs
  <2>3. LegsFit(m, judged.legs)
    <3> HIDE DEF judged
    <3>1. JudgedLegs(BuildSpectrumState(m), legs, judged.legs) /\ HasSlots(legs)
          /\ legs = AssignSlots(BuildSpectrumState(m), r)
      BY <1>4, <2>2
    <3> HIDE DEF legs, state
    <3> QED BY <3>1, JudgedFit
  <2> HIDE DEF judged
  <2>4. p.legs = judged.legs
    OBVIOUS
  <2> HIDE DEF p
  <2>5. AllFit(m, Append(h.out, p))
    BY <2>3, <2>4, OneMoreFits DEF Fruitful
  <2> DEFINE stop == early /\ StopsSearch(m, p, gbps)
  <2> HIDE DEF stop, probed
  <2>6. kept = [probed EXCEPT !.out = Append(h.out, p), !.stop = stop]
    BY <1>3 DEF stop
  <2>7. probed = [table |-> probed.table, probed |-> probed.probed, out |-> probed.out,
                  stop |-> probed.stop, raises |-> probed.raises]
    BY <1>3 DEF Fruitful
  <2>8. kept = [table |-> probed.table, probed |-> probed.probed, out |-> Append(h.out, p),
                stop |-> stop, raises |-> probed.raises]
    <3> HIDE DEF kept
    <3> QED BY <2>6, <2>7, SearchFields, Zenon
  <2> HIDE DEF kept
  <2> QED BY <2>5, <2>8, FruitfulIs
<1>5. Fruitful(m, u)
  <2> HIDE DEF judged, legs, kept, probed, u
  <2> QED BY <1>1, <1>2, <1>3, <1>4
<1> QED BY <1>5

LEMMA PlaceDemandsFit ==
  ASSUME NEW m, OnPaths(m), NEW g, DOMAIN g.residual \subseteq Lit(m),
         NEW routes \in Seq(Seq(LegsOf(m, g))), NEW h, Fruitful(m, h), NEW gbps, NEW early
  PROVE  Fruitful(m, PlaceDemands(h, m, g, routes, gbps, early))
<1> DEFINE n == Len(routes)
           step(acc, i) == TryRoute(acc, m, g, BuildSpectrumState(m), routes[i], gbps, early)
           F(f) == [i \in 0 .. n |-> IF i = 0 THEN h ELSE step(f[i - 1], i)]
           after == CHOOSE f : f = F(f)
           Some(k) == \E f : OnTurns(f, k) /\ f[0] = h /\ \A i \in 1 .. k : f[i] = step(f[i - 1], i)
           T == {k \in 0 .. n : Some(k)}
<1>1. PlaceDemands(h, m, g, routes, gbps, early) = after[n]
  BY DEF PlaceDemands, Folded
<1>2. n \in Nat /\ \A i \in 1 .. n : routes[i] \in Seq(LegsOf(m, g))
  BY LenProperties, ElementOfSeq
<1>3. ASSUME NEW acc, Fruitful(m, acc), NEW i \in 1 .. n
      PROVE  Fruitful(m, step(acc, i))
  BY <1>2, <1>3, TryRouteFits
<1> HIDE DEF step, n
<1>4. 0 \in T
  <2> DEFINE f == [i \in 0 .. 0 |-> h]
  <2>1. OnTurns(f, 0) /\ f[0] = h
    BY DEF OnTurns
  <2> HIDE DEF f
  <2> QED BY <1>2, <2>1
<1>5. ASSUME NEW k \in 1 .. n, k - 1 \in T
      PROVE  k \in T
  <2>1. PICK f : OnTurns(f, k - 1) /\ f[0] = h /\ \A i \in 1 .. k - 1 : f[i] = step(f[i - 1], i)
    BY <1>5
  <2>2. k \in Nat \ {0} /\ k \in 0 .. n /\ 0 \in 0 .. k - 1
    BY <1>2
  <2>3. PICK e : Prolongs(e, f, k, step(f[k - 1], k))
    BY <2>2, Longer
  <2>4. ASSUME NEW i \in 1 .. k
        PROVE  e[i] = step(e[i - 1], i)
    <3>1. i - 1 \in 0 .. k - 1 /\ (i = k \/ (i \in 0 .. k - 1 /\ i \in 1 .. k - 1))
      OBVIOUS
    <3> QED BY <2>1, <2>3, <3>1 DEF Prolongs
  <2>5. OnTurns(e, k) /\ e[0] = h
    BY <2>1, <2>2, <2>3 DEF Prolongs
  <2> QED BY <2>2, <2>4, <2>5
<1>6. Some(n)
  <2> HIDE DEF Some
  <2>1. \A i \in 0 .. n : i \in T
    <3> HIDE DEF T
    <3> QED BY <1>2, <1>4, <1>5, UpTo
  <2>2. n \in 0 .. n
    BY <1>2
  <2> QED BY <2>1, <2>2
<1>7. after = F(after)
  <2>1. PICK f : OnTurns(f, n) /\ f[0] = h /\ \A i \in 1 .. n : f[i] = step(f[i - 1], i)
    BY <1>6
  <2>2. \A i \in 0 .. n : f[i] = IF i = 0 THEN h ELSE step(f[i - 1], i)
    <3>1. \A i \in 0 .. n : i = 0 \/ i \in 1 .. n
      BY <1>2
    <3> QED BY <2>1, <3>1
  <2>3. f = F(f)
    BY <2>1, <2>2, Zenon DEF OnTurns
  <2> QED BY <2>3
<1> HIDE DEF after
<1>8. after[0] = h /\ \A i \in 1 .. n : after[i] = step(after[i - 1], i)
  <2>1. \A i \in 0 .. n : after[i] = IF i = 0 THEN h ELSE step(after[i - 1], i)
    BY <1>7
  <2>2. 0 \in 0 .. n /\ \A i \in 1 .. n : i \in 0 .. n /\ i # 0
    BY <1>2
  <2> QED BY <2>1, <2>2
<1> DEFINE U == {i \in 0 .. n : Fruitful(m, after[i])}
<1>9. 0 \in U
  BY <1>2, <1>8
<1>10. ASSUME NEW i \in 1 .. n, i - 1 \in U
       PROVE  i \in U
  BY <1>2, <1>3, <1>8, <1>10
<1>11. \A i \in 0 .. n : i \in U
  <2> HIDE DEF U
  <2> QED BY <1>2, <1>9, <1>10, UpTo
<1> QED BY <1>1, <1>2, <1>11

\* Nothing found yet.
LEMMA HarvestFits ==
  ASSUME NEW m, NEW seen
  PROVE  Fruitful(m, Harvest(seen))
<1>1. AllFit(m, <<>>)
  BY DEF AllFit
<1> QED BY <1>1 DEF Fruitful, Harvest

LEMMA HarvestPlacementsFit ==
  ASSUME NEW m, OnPaths(m), IsFiniteSet(Lit(m)), NEW g, DOMAIN g.residual \subseteq Lit(m),
         NEW seen, NEW src, NEW dst, NEW gbps, NEW early
  PROVE  Fruitful(m, HarvestPlacements(seen, m, g, src, dst, gbps, early))
<1> DEFINE L == LegsOf(m, g)
           R == RoutesOn(g, L, src, dst)
           routes == ByWeight(R)
           fresh == Filtered(routes, {r \in Range(routes) : UnderPolicy("new_only", r)})
           first == PlaceDemands(Harvest(seen), m, g, routes, gbps, early)
           again == PlaceDemands(Harvest(first.table), m, g, fresh, gbps, early)
           more == Filtered(again.out, {p \in Range(again.out) :
                            RouteKey(p) \notin {RouteKey(q) : q \in Range(first.out)}})
           merged == [again EXCEPT !.out = first.out \o more]
<1>1. HarvestPlacements(seen, m, g, src, dst, gbps, early) \in {first, merged}
  BY DEF HarvestPlacements, HarvestOver
<1>2. routes \in Seq(Seq(L))
  <2>1. IsFiniteSet(L)
    BY LegsOfFinite
  <2>2. \A leg \in L : IsNew(leg) => Len(leg.oms) \in Nat
    <3> SUFFICES ASSUME NEW leg \in L PROVE Len(leg.oms) \in Nat
      OBVIOUS
    <3>1. leg \in SlotLegs(IdsOf(m))
      BY RouteTyped
    <3>2. leg.oms \in Path
      BY <3>1 DEF SlotLegs
    <3> QED BY <3>2, LenProperties DEF Path
  <2> HIDE DEF L
  <2>3. IsFiniteSet(R)
    BY <2>1, RoutesOnFinite
  <2>4. \A r \in R : r \in Seq(L)
    BY RoutesOnAre
  <2>5. \A r \in R : Weight(r) \in Nat
    BY <2>2, <2>4, RouteWeighs
  <2> HIDE DEF R
  <2>6. routes \in Seq(R)
    BY <2>3, <2>5, ByWeightIs
  <2>7. R \subseteq Seq(L)
    BY <2>4
  <2> QED BY <2>6, <2>7, SeqMonotonic
<1> HIDE DEF routes
<1>3. fresh \in Seq(Seq(L))
  BY <1>2, FilteredIs
<1> HIDE DEF fresh
<1>4. Fruitful(m, first)
  BY <1>2, PlaceDemandsFit, HarvestFits
<1>5. Fruitful(m, again)
  BY <1>3, PlaceDemandsFit, HarvestFits
<1> HIDE DEF first, again
<1>6. AllFit(m, first.out) /\ AllFit(m, more)
  BY <1>4, <1>5, FilteredFit DEF Fruitful
<1> HIDE DEF more
<1>7. AllFit(m, first.out \o more)
  BY <1>6, BothFit
<1>8. Fruitful(m, merged)
  <2> DEFINE out == first.out \o more
  <2> HIDE DEF out
  <2>1. merged = [again EXCEPT !.out = out]
    BY DEF out
  <2> HIDE DEF merged
  <2>2. again = [table |-> again.table, probed |-> again.probed, out |-> again.out,
                 stop |-> again.stop, raises |-> again.raises]
    BY <1>5 DEF Fruitful
  <2>3. merged = [table |-> again.table, probed |-> again.probed, out |-> out,
                  stop |-> again.stop, raises |-> again.raises]
    BY <2>1, <2>2, SearchFields
  <2> QED BY <1>7, <2>3, FruitfulIs DEF out
<1> QED BY <1>1, <1>4, <1>8

-------------------------------------------------------------------------------
(* Answers.                                                                *)

LEMMA SomeFit ==
  ASSUME NEW m, NEW out, AllFit(m, out), NEW t \in Seq(Range(out))
  PROVE  AllFit(m, t)
<1>1. t \in Seq(Range(t))
  BY SeqOfRange
<1>2. ASSUME NEW k \in 1 .. Len(t)
      PROVE  LegsFit(m, t[k].legs)
  <2>1. t[k] \in Range(out)
    BY ElementOfSeq
  <2>2. Range(out) = {out[i] : i \in 1 .. Len(out)}
    BY RangeEquality DEF AllFit
  <2>3. PICK i \in 1 .. Len(out) : t[k] = out[i]
    BY <2>1, <2>2
  <2> QED BY <2>3 DEF AllFit
<1> QED BY <1>1, <1>2 DEF AllFit

LEMMA LegsOnPaths ==
  ASSUME NEW m, OnPaths(m), NEW legs, LegsFit(m, legs)
  PROVE  \A k \in 1 .. Len(legs) : legs[k].oms \in Path
<1> SUFFICES ASSUME NEW k \in 1 .. Len(legs) PROVE legs[k].oms \in Path
  OBVIOUS
<1>1. RunOn(m, legs[k]) \/ OldLeg(m, legs[k])
  BY DEF LegsFit
<1>2. CASE RunOn(m, legs[k])
  BY <1>2 DEF RunOn
<1>3. CASE OldLeg(m, legs[k])
  <2>1. PICK id \in Lit(m) : legs[k] = Leg(id, m.lightpaths[id].oms)
    BY <1>3 DEF OldLeg
  <2>2. legs[k].oms = m.lightpaths[id].oms
    BY <2>1 DEF Leg
  <2> QED BY <2>2 DEF OnPaths
<1> QED BY <1>1, <1>2, <1>3

\* What two placements are compared on are the sections of all their legs.
LEMMA SectionsAre ==
  ASSUME NEW m, OnPaths(m), NEW legs, LegsFit(m, legs)
  PROVE  /\ Sections(legs) \in Seq(OMS)
         /\ \A k \in 1 .. Len(legs) : Range(legs[k].oms) \subseteq Range(Sections(legs))
<1> DEFINE A == Range(legs)
           old == ReusedLegs(legs)
           new == NewLegs(legs)
           both == old \o new
           n == Len(both)
           f == [i \in 1 .. n |-> both[i].oms]
           secs == Sections(legs)
<1>1. legs \in Seq(A)
  BY DEF LegsFit
<1>2. \A leg \in A : leg.oms \in Seq(OMS)
  <2>1. A = {legs[k] : k \in 1 .. Len(legs)}
    BY <1>1, RangeEquality
  <2>2. \A k \in 1 .. Len(legs) : legs[k].oms \in Path
    BY LegsOnPaths
  <2> HIDE DEF A
  <2> QED BY <2>1, <2>2 DEF Path
<1> HIDE DEF A
<1>3. /\ old \in Seq(A) /\ new \in Seq(A)
      /\ \A x : x \in A => x \in Range(old) \/ x \in Range(new)
  <2>1. /\ old \in Seq(A)
        /\ \A x : x \in Range(old) <=> x \in Range(legs) /\ x \in {leg \in Range(legs) : ~ IsNew(leg)}
    BY <1>1, FilteredIs DEF ReusedLegs
  <2>2. /\ new \in Seq(A)
        /\ \A x : x \in Range(new) <=> x \in Range(legs) /\ x \in {leg \in Range(legs) : IsNew(leg)}
    BY <1>1, FilteredIs DEF NewLegs
  <2> QED BY <2>1, <2>2 DEF A
<1> HIDE DEF old, new
<1>4. both \in Seq(A) /\ n \in Nat /\ DOMAIN both = 1 .. n
  BY <1>3, ConcatProperties, LenProperties
<1>5. Range(both) = Range(old) \cup Range(new) /\ Range(both) = {both[i] : i \in 1 .. n}
  <2>1. Range(both) = Range(old) \cup Range(new)
    BY <1>3, RangeConcatenation
  <2> HIDE DEF both
  <2>2. Range(both) = {both[i] : i \in 1 .. Len(both)}
    BY <1>4, RangeEquality
  <2> QED BY <2>1, <2>2
<1>6. secs = FlattenSeq(<<>> \o f)
  BY <1>4 DEF Sections, Mapped, both, old, new
<1> HIDE DEF both, n
<1>7. f = [i \in 1 .. n |-> f[i]] /\ \A i \in 1 .. n : f[i] = both[i].oms /\ f[i] \in Seq(OMS)
  BY <1>2, <1>4, ElementOfSeq DEF n
<1> HIDE DEF f, secs
<1>8. f \in Seq({f[i] : i \in 1 .. n}) /\ Len(f) = n /\ <<>> \o f = f
  BY <1>4, <1>7, SeqOfFcn
<1>9. f \in Seq(Seq(OMS))
  <2>1. {f[i] : i \in 1 .. n} \subseteq Seq(OMS)
    BY <1>7
  <2> QED BY <1>8, <2>1, SeqMonotonic
<1>10. secs = FlattenSeq(f)
  BY <1>6, <1>8, Zenon
<1>11. secs \in Seq(OMS) /\ \A i \in 1 .. n : Range(f[i]) \subseteq Range(secs)
  BY <1>8, <1>9, <1>10, FlattenRange
<1>12. ASSUME NEW k \in 1 .. Len(legs)
       PROVE  Range(legs[k].oms) \subseteq Range(secs)
  <2>1. legs[k] \in A
    BY <1>1, ElementOfSeq
  <2>2. legs[k] \in Range(both)
    BY <1>3, <1>5, <2>1
  <2>3. PICK i \in 1 .. n : legs[k] = both[i]
    BY <1>5, <2>2
  <2>4. f[i] = legs[k].oms
    BY <1>7, <2>3
  <2> QED BY <1>11, <2>4
<1> QED BY <1>11, <1>12 DEF secs

KeysOf(d, p) == PlacementKeys(p, d.basis, d.level, {d.src, d.dst})

\* Placements that fit and can be built.
Buildable(m, cands) == AllFit(m, cands) /\ \A p \in Range(cands) : Materializable(m, p)

\* The placements that a demand is served by.
Serves(m, d, picks) ==
  /\ Buildable(m, picks)
  /\ Len(picks) = IF d.protected THEN 2 ELSE 1
  /\ d.protected /\ ~ d.bestEffort => KeysOf(d, picks[1]) \cap KeysOf(d, picks[2]) = {}

LEMMA SomeBuildable ==
  ASSUME NEW m, NEW out, Buildable(m, out), NEW t \in Seq(Range(out))
  PROVE  Buildable(m, t)
<1>1. AllFit(m, t)
  BY SomeFit DEF Buildable
<1>2. Range(t) \subseteq Range(out)
  BY RangeOfSeq
<1> QED BY <1>1, <1>2 DEF Buildable

LEMMA PairIs ==
  ASSUME NEW m, OnPaths(m), NEW cands, Buildable(m, cands), NEW d, d.protected,
         NEW picks, picks = Picked(d, cands), picks # <<>>
  PROVE  Serves(m, d, picks)
<1> DEFINE n == Len(cands)
           f == [i \in 1 .. n |-> KeysOf(d, cands[i])]
           scored == ScoredPairs(Mapped(cands, LAMBDA c : PlacementKeys(c, d.basis, d.level, {d.src, d.dst})))
           p == FirstPair(scored)
<1>1. cands \in Seq(Range(cands)) /\ n \in Nat /\ DOMAIN cands = 1 .. n
  BY LenProperties DEF Buildable, AllFit
<1>2. picks = DisjointPlacements(cands, d.basis, d.level, d.bestEffort, {d.src, d.dst})
  BY DEF Picked
<1>3. /\ scored # {} /\ ~ (p[1] > 0 /\ ~ d.bestEffort)
      /\ picks = <<cands[p[2]], cands[p[3]]>>
  BY <1>2 DEF DisjointPlacements
<1>4. scored = ScoredPairs(<<>> \o f)
  BY <1>1 DEF Mapped, KeysOf
<1>5. f = [i \in 1 .. n |-> f[i]] /\ \A i \in 1 .. n : f[i] = KeysOf(d, cands[i])
  OBVIOUS
<1> HIDE DEF f, scored, n
<1>6. \A i \in 1 .. n : IsFiniteSet(f[i])
  <2> SUFFICES ASSUME NEW i \in 1 .. n PROVE IsFiniteSet(KeysOf(d, cands[i]))
    BY <1>5
  <2>1. LegsFit(m, cands[i].legs)
    BY DEF Buildable, AllFit, n
  <2>2. Sections(cands[i].legs) \in Seq(OMS)
    BY <2>1, SectionsAre
  <2> QED BY <2>2, KeysFinite DEF KeysOf, PlacementKeys
<1>7. Scoring(scored, f, n)
  BY <1>1, <1>4, <1>5, <1>6, ScoresAre
<1>8. p \in scored
  BY <1>3, <1>7, FirstPairIs DEF Scoring
<1> HIDE DEF p
<1>9. /\ p[1] \in Nat /\ p[2] \in 1 .. n /\ p[3] \in 1 .. n
      /\ p[1] = 0 <=> f[p[2]] \cap f[p[3]] = {}
  BY <1>7, <1>8 DEF Scoring, IsScore
<1> DEFINE a == cands[p[2]]
           b == cands[p[3]]
<1>10. a \in Range(cands) /\ b \in Range(cands)
  BY <1>1, <1>9, ElementOfSeq DEF n
<1>11. ASSUME ~ d.bestEffort
       PROVE  KeysOf(d, a) \cap KeysOf(d, b) = {}
  <2>1. p[1] = 0
    BY <1>3, <1>9, <1>11
  <2> QED BY <1>5, <1>9, <2>1
<1> HIDE DEF a, b
<1>12. picks = <<a, b>>
  BY <1>3 DEF a, b
<1>13. picks \in Seq(Range(cands)) /\ Len(picks) = 2 /\ picks[1] = a /\ picks[2] = b
  BY <1>10, <1>12
<1>14. Buildable(m, picks)
  BY <1>13, SomeBuildable
<1> QED BY <1>11, <1>13, <1>14 DEF Serves

LEMMA PickedIs ==
  ASSUME NEW m, OnPaths(m), NEW cands, Buildable(m, cands), NEW d,
         NEW picks, picks = Picked(d, cands), picks # <<>>
  PROVE  Serves(m, d, picks)
<1>1. CASE d.protected
  BY <1>1, PairIs
<1>2. CASE ~ d.protected
  <2>1. picks = Take(cands, 1)
    BY <1>2 DEF Picked
  <2>2. cands \in Seq(Range(cands))
    BY DEF Buildable, AllFit
  <2>3. picks \in Seq(Range(cands)) /\ Len(picks) <= 1
    BY <2>1, <2>2, TakeIs
  <2>4. Len(picks) \in Nat \ {0}
    BY <2>3, EmptySeq
  <2> DEFINE n == Len(picks)
  <2>7. n \in Nat \ {0} /\ n <= 1
    BY <2>3, <2>4
  <2> HIDE DEF n
  <2>8. n = 1
    BY <2>7
  <2>5. Len(picks) = 1
    BY <2>8 DEF n
  <2>6. Buildable(m, picks)
    BY <2>3, SomeBuildable
  <2> QED BY <1>2, <2>5, <2>6 DEF Serves
<1> QED BY <1>1, <1>2

IsAnswer(answer) == answer = Answer(answer.reason, answer.picks, answer.table, answer.raises)

Answers(answer, reason, picks) == IsAnswer(answer) /\ answer.reason = reason /\ answer.picks = picks

LEMMA AnswersAre ==
  ASSUME NEW reason, NEW picks, NEW seen, NEW raises, NEW answer,
         answer = Answer(reason, picks, seen, raises)
  PROVE  Answers(answer, reason, picks)
<1>1. answer = [reason |-> reason, picks |-> picks, table |-> seen, raises |-> raises]
  BY DEF Answer
<1> QED BY <1>1 DEF Answers, IsAnswer, Answer

LEMMA AnswerFromIs ==
  ASSUME OnPaths(work), NEW d, NEW h, Fruitful(work, h), NEW answer,
         answer = AnswerFrom(d, h, Candidates(h))
  PROVE  IsAnswer(answer) /\ (answer.reason = "found" => Serves(work, d, answer.picks))
<1> DEFINE cands == Candidates(h)
           picks == Picked(d, cands)
<1>1. Buildable(work, cands)
  <2>1. AllFit(work, cands)
    BY FilteredFit DEF Candidates, Fruitful
  <2>2. \A p \in Range(cands) : p \in {p_ \in Range(h.out) : Materializable(work, p_)}
    BY FilteredIs DEF Candidates, CurrentModel, Fruitful, AllFit
  <2> QED BY <2>1, <2>2 DEF Buildable
<1> HIDE DEF cands
<1>2. answer = AnswerFrom(d, h, cands)
  BY DEF cands
<1>3. CASE h.raises
  <2>1. answer = Answer("raised", <<>>, h.table, TRUE)
    BY <1>2, <1>3 DEF AnswerFrom
  <2>2. Answers(answer, "raised", <<>>)
    <3> HIDE DEF picks
    <3> QED BY <2>1, AnswersAre, Zenon
  <2> QED BY <2>2 DEF Answers
<1>4. CASE ~ h.raises /\ cands = <<>>
  <2>1. answer = Answer("no feasible route", <<>>, h.table, FALSE)
    BY <1>2, <1>4 DEF AnswerFrom
  <2>2. Answers(answer, "no feasible route", <<>>)
    <3> HIDE DEF picks
    <3> QED BY <2>1, AnswersAre, Zenon
  <2> QED BY <2>2 DEF Answers
<1>5. CASE ~ h.raises /\ cands # <<>> /\ picks = <<>>
  <2>1. answer = Answer("no disjoint feasible pair", picks, h.table, FALSE)
    BY <1>2, <1>5 DEF AnswerFrom
  <2>2. Answers(answer, "no disjoint feasible pair", picks)
    <3> HIDE DEF picks
    <3> QED BY <2>1, AnswersAre, Zenon
  <2> QED BY <2>2 DEF Answers
<1>6. CASE ~ h.raises /\ cands # <<>> /\ picks # <<>>
  <2>1. answer = Answer("found", picks, h.table, FALSE)
    BY <1>2, <1>6 DEF AnswerFrom
  <2> HIDE DEF picks
  <2>2. Serves(work, d, picks)
    BY <1>1, <1>6, PickedIs DEF picks
  <2>3. Answers(answer, "found", picks)
    BY <2>1, AnswersAre, Zenon
  <2> QED BY <2>2, <2>3, Zenon DEF Answers
<1> QED BY <1>3, <1>4, <1>5, <1>6

LEMMA HarvestAtFits ==
  ASSUME OnPaths(work), IsFiniteSet(Lit(work)), NEW seen, NEW d, NEW atLeast
  PROVE  Fruitful(work, HarvestAt(seen, d, atLeast))
<1> DEFINE g == LayeredGraph(work, {}, atLeast)
<1>1. DOMAIN g.residual \subseteq Lit(work)
  BY DEF LayeredGraph, Reusable
<1> HIDE DEF g
<1>2. HarvestAt(seen, d, atLeast) = HarvestPlacements(seen, work, g, d.src, d.dst, Demand[d.id], ~ d.protected)
  BY DEF HarvestAt, CurrentModel, g
<1>3. Fruitful(work, HarvestPlacements(seen, work, g, d.src, d.dst, Demand[d.id], ~ d.protected))
  BY <1>1, HarvestPlacementsFit
<1> QED BY <1>2, <1>3, Zenon

\* What a demand is answered with fits what the ones before it left.
LEMMA RoutedIs ==
  ASSUME OnPaths(work), IsFiniteSet(Lit(work)), NEW d, NEW answer, answer = Routed(d),
         answer.reason = "found"
  PROVE  Serves(work, d, answer.picks)
<1> DEFINE h == HarvestAt(table, d, Demand[d.id])
           k == HarvestAt(h.table, d, 0)
           x == AnswerFrom(d, h, Candidates(h))
           y == AnswerFrom(d, k, Candidates(k))
           z == [y EXCEPT !.reason = x.reason]
<1>1. Fruitful(work, h) /\ Fruitful(work, k)
  BY HarvestAtFits
<1>2. answer = Harvested(d, h) \/ answer = Answer("no router at endpoint", <<>>, table, FALSE)
  BY DEF Routed
<1>3. IsAnswer(x) /\ (x.reason = "found" => Serves(work, d, x.picks))
  BY <1>1, AnswerFromIs
<1>4. IsAnswer(y) /\ (y.reason = "found" => Serves(work, d, y.picks))
  BY <1>1, AnswerFromIs
<1>5. CASE answer = Harvested(d, h)
  <2>1. answer = IF x.reason \in {"found", "raised"} THEN x
                 ELSE IF y.reason = "no feasible route" THEN z ELSE y
    BY <1>5 DEF Harvested, Unfiltered
  <2> HIDE DEF x, y, z
  <2>2. CASE answer = x
    BY <1>3, <2>2
  <2>3. CASE answer = y
    BY <1>4, <2>3
  <2>4. CASE x.reason \notin {"found", "raised"} /\ answer = z
    <3>1. z.reason = x.reason
      BY <1>4 DEF z, IsAnswer, Answer
    <3> QED BY <2>4, <3>1
  <2> QED BY <2>1, <2>2, <2>3, <2>4
<1>6. CASE answer = Answer("no router at endpoint", <<>>, table, FALSE)
  <2>1. Answers(answer, "no router at endpoint", <<>>)
    BY <1>6, AnswersAre, Zenon
  <2> QED BY <2>1 DEF Answers
<1> QED BY <1>2, <1>5, <1>6

-------------------------------------------------------------------------------
(* Provisioning.                                                           *)

IsBuild(b) ==
  b = [model |-> b.model, segments |-> b.segments, runs |-> b.runs, seeds |-> b.seeds, ok |-> b.ok]

LEMMA BuildFields ==
  ASSUME NEW b, IsBuild(b), NEW x, NEW y
  PROVE  /\ [b EXCEPT !.segments = x]
              = [model |-> b.model, segments |-> x, runs |-> b.runs, seeds |-> b.seeds, ok |-> b.ok]
         /\ [b EXCEPT !.ok = x]
              = [model |-> b.model, segments |-> b.segments, runs |-> b.runs, seeds |-> b.seeds, ok |-> x]
         /\ [b EXCEPT !.model = x]
              = [model |-> x, segments |-> b.segments, runs |-> b.runs, seeds |-> b.seeds, ok |-> b.ok]
         /\ [b EXCEPT !.model = x, !.ok = y]
              = [model |-> x, segments |-> b.segments, runs |-> b.runs, seeds |-> b.seeds, ok |-> y]
<1>1. [b EXCEPT !.segments = x]
        = [model |-> b.model, segments |-> x, runs |-> b.runs, seeds |-> b.seeds, ok |-> b.ok]
  BY DEF IsBuild
<1>2. [b EXCEPT !.ok = x]
        = [model |-> b.model, segments |-> b.segments, runs |-> b.runs, seeds |-> b.seeds, ok |-> x]
  BY DEF IsBuild
<1>3. [b EXCEPT !.model = x]
        = [model |-> x, segments |-> b.segments, runs |-> b.runs, seeds |-> b.seeds, ok |-> b.ok]
  BY DEF IsBuild
<1>4. [b EXCEPT !.model = x, !.ok = y]
        = [model |-> x, segments |-> b.segments, runs |-> b.runs, seeds |-> b.seeds, ok |-> y]
  <2> DEFINE k == [b EXCEPT !.model = x, !.ok = y]
  <2>1. k \in [model : {x}, segments : {b.segments}, runs : {b.runs}, seeds : {b.seeds}, ok : {y}]
    BY DEF IsBuild
  <2> HIDE DEF k
  <2>2. k = [model |-> x, segments |-> b.segments, runs |-> b.runs, seeds |-> b.seeds, ok |-> y]
    BY <2>1
  <2> QED BY <2>2 DEF k
<1> QED BY <1>1, <1>2, <1>3, <1>4, Zenon

\* The record that add_lightpath is given for a leg.
RunSpec(leg) == [oms |-> leg.oms, mode |-> leg.mode, slot |-> leg.slot]

\* What was lit before, and each run besides.
LitBesides(lit, base, runs) ==
  /\ IsFiniteSet(DOMAIN runs) /\ DOMAIN runs \cap DOMAIN base = {}
  /\ DOMAIN lit = DOMAIN base \cup DOMAIN runs
  /\ \A id \in DOMAIN base : lit[id] = base[id]
  /\ \A id \in DOMAIN runs : lit[id] = RunSpec(runs[id])

\* Each run is one of the first k legs, each leg one run at most.
At(at, runs, legs, k) ==
  /\ \A id \in DOMAIN runs : at[id] \in 1 .. k /\ runs[id] = legs[at[id]]
  /\ \A a, b \in DOMAIN runs : a # b => at[a] # at[b]
DrawnFrom(runs, legs, k) == \E at : At(at, runs, legs, k)

\* The record of each run is that of its own judgement.
Seeded(seeds, runs) ==
  /\ DOMAIN seeds = DOMAIN runs
  /\ \A id \in DOMAIN runs : seeds[id] = SeedOf(runs[id].mode, runs[id].gsnr)

\* The paths of these services, working and protection, cross links of the model.
IsService(s) == s = [src |-> s.src, dst |-> s.dst, working |-> s.working, protection |-> s.protection]
Present(m, S) ==
  \A s \in S : /\ s \in DOMAIN m.services /\ IsService(m.services[s])
               /\ AllPresent(m, m.services[s].working) /\ AllPresent(m, m.services[s].protection)

\* None is no id that a template mints.
LinksNamed ==
  \A prefix, service, i, n : [prefix |-> prefix, service |-> service, i |-> i, n |-> n] # NoLink

LinksKept(m, n) == \A k \in DOMAIN m.ipLinks : k \in DOMAIN n.ipLinks /\ n.ipLinks[k] = m.ipLinks[k]

\* A link of n through which a leg is taken: of a reused lightpath a link that
\* m had, of a new run the link added with it.
RidesLeg(n, m, k, leg) ==
  /\ k \in DOMAIN n.ipLinks
  /\ IF IsNew(leg)
     THEN /\ k \notin DOMAIN m.ipLinks /\ n.ipLinks[k].lightpath \in Lit(n) \ Lit(m)
          /\ n.lightpaths[n.ipLinks[k].lightpath] = RunSpec(leg)
     ELSE k \in DOMAIN m.ipLinks /\ n.ipLinks[k].lightpath = leg.id

RidesSome(n, m, k, L) == \E leg \in L : RidesLeg(n, m, k, leg)

\* Every segment of a build is one of these legs.
Wired(b, m, L) ==
  LinksNamed => \E B : b.segments \in Seq(B) /\ \A x \in B : RidesSome(b.model, m, x.id, L)

Lighted(b, m, legs, k, S) ==
  /\ IsBuild(b) /\ IsRecord(b.model)
  /\ LitBesides(b.model.lightpaths, m.lightpaths, b.runs)
  /\ DrawnFrom(b.runs, legs, k) /\ Seeded(b.seeds, b.runs)
  /\ Present(b.model, S) /\ LinksKept(m, b.model)

Built(b, m, legs, k, S, L) ==
  Lighted(b, m, legs, k, S) /\ b.model.services = m.services /\ Wired(b, m, L)

\* A provision that went through lit its lightpath and added its link.
LEMMA ProvisionIs ==
  ASSUME NEW m, IsRecord(m), NEW id, NEW lp, NEW link, NEW a, NEW z,
         NEW applied, applied = ApplyOp(m, Provision(id, lp, link, a, z)), applied.ok
  PROVE  /\ id \notin Lit(m) /\ IsRecord(applied.model)
         /\ applied.model.lightpaths = Put(m.lightpaths, id, lp)
         /\ applied.model.services = m.services
         /\ LinksKept(m, applied.model)
         /\ link # NoLink =>
              /\ link \notin DOMAIN m.ipLinks /\ link \in DOMAIN applied.model.ipLinks
              /\ applied.model.ipLinks[link].lightpath = id
<1> DEFINE op == Provision(id, lp, link, a, z)
           added == AddLightpath(m, id, lp)
           bound == AddIPLink(added, link, BoundLink(op))
<1>1. op.op = "provision" /\ op.id = id /\ op.lp = lp /\ op.linkId = link
  BY DEF Provision
<1> HIDE DEF op
<1>2. applied = ApplyProvision(m, op)
  BY <1>1 DEF ApplyOp, op
<1>3. ASSUME NEW x, NEW ok \in BOOLEAN, NEW r, r = [ok |-> ok, model |-> x]
      PROVE  r.ok = ok /\ r.model = x
  BY <1>3
<1>4. \/ applied = PlanError(m) \/ applied = PlanError(added)
      \/ /\ CanAddLightpath(m, id, lp)
         /\ \/ applied = Applied(added) /\ link = NoLink
            \/ applied = Applied(bound) /\ CanAddIPLink(added, link, BoundLink(op))
  BY <1>1, <1>2 DEF ApplyProvision
<1> HIDE DEF bound, added
<1>5. /\ CanAddLightpath(m, id, lp)
      /\ \/ applied.model = added /\ link = NoLink
         \/ applied.model = bound /\ CanAddIPLink(added, link, BoundLink(op))
  <2>1. applied # PlanError(m) /\ applied # PlanError(added)
    BY <1>3 DEF PlanError
  <2>2. applied = Applied(added) => applied.model = added
    BY <1>3 DEF Applied
  <2>3. applied = Applied(bound) => applied.model = bound
    BY <1>3 DEF Applied
  <2> QED BY <1>4, <2>1, <2>2, <2>3
<1>6. id \notin Lit(m)
  BY <1>5 DEF CanAddLightpath
<1>7. /\ IsRecord(added) /\ added.lightpaths = Put(m.lightpaths, id, lp)
      /\ added.services = m.services /\ added.ipLinks = m.ipLinks
  <2>1. Is(added, Put(m.lightpaths, id, lp), m.before \cup (Lit(m) \X {id}),
           Drop(m.qot, Sharing(m, lp.oms, id)), m.ipLinks, m.services, m.failed, m.impair)
    BY <1>6, AddLightpathIs DEF added
  <2> QED BY <2>1, IsFields
<1>8. /\ IsRecord(bound) /\ bound.lightpaths = added.lightpaths
      /\ bound.services = added.services /\ bound.ipLinks = Put(added.ipLinks, link, BoundLink(op))
  <2> DEFINE links == Put(added.ipLinks, link, BoundLink(op))
  <2>1. bound = [added EXCEPT !.ipLinks = links]
    BY Zenon DEF bound, AddIPLink
  <2> HIDE DEF links
  <2>2. Is([added EXCEPT !.ipLinks = links], added.lightpaths, added.before, added.qot, links,
           added.services, added.failed, added.impair)
    BY <1>7, SetField DEF IsRecord
  <2>3. Is(bound, added.lightpaths, added.before, added.qot, links,
           added.services, added.failed, added.impair)
    BY <2>1, <2>2, Zenon
  <2> QED BY <2>3, IsFields DEF links
<1>9. LinksKept(m, added)
  BY <1>7 DEF LinksKept
<1>10. ASSUME CanAddIPLink(added, link, BoundLink(op))
       PROVE  /\ LinksKept(m, bound) /\ link \notin DOMAIN m.ipLinks /\ link \in DOMAIN bound.ipLinks
              /\ bound.ipLinks[link].lightpath = id
  <2>1. link \notin DOMAIN m.ipLinks
    BY <1>7, <1>10 DEF CanAddIPLink
  <2>2. BoundLink(op).lightpath = id
    BY <1>1 DEF BoundLink
  <2> QED BY <1>7, <1>8, <2>1, <2>2 DEF Put, LinksKept
<1> QED BY <1>5, <1>6, <1>7, <1>8, <1>9, <1>10

LEMMA StillPresent ==
  ASSUME NEW m, NEW S, Present(m, S), NEW n, n.services = m.services, LinksKept(m, n)
  PROVE  Present(n, S)
  BY DEF Present, AllPresent, LinksKept

\* Records are put over a model that stays what it is.
WithRecords(m, q) == [m EXCEPT !.qot = q]

LEMMA RecordsPut ==
  ASSUME NEW m, IsRecord(m), NEW q
  PROVE  LET n == WithRecords(m, q)
         IN  /\ IsRecord(n) /\ n.lightpaths = m.lightpaths /\ n.services = m.services
             /\ n.ipLinks = m.ipLinks /\ n.qot = q
<1> DEFINE n == WithRecords(m, q)
<1>1. Is([m EXCEPT !.qot = q], m.lightpaths, m.before, q, m.ipLinks, m.services, m.failed, m.impair)
  BY SetField DEF IsRecord
<1>2. Is(n, m.lightpaths, m.before, q, m.ipLinks, m.services, m.failed, m.impair)
  BY <1>1 DEF WithRecords
<1> HIDE DEF n
<1>3. /\ IsRecord(n) /\ n.lightpaths = m.lightpaths /\ n.services = m.services
      /\ n.ipLinks = m.ipLinks /\ n.qot = q
  BY <1>2, IsFields
<1> QED BY <1>3 DEF n

\* One more run.
LEMMA LitOneMore ==
  ASSUME NEW lit, NEW base, NEW runs, LitBesides(lit, base, runs), NEW id, id \notin DOMAIN lit, NEW leg
  PROVE  LitBesides(Put(lit, id, RunSpec(leg)), base, Put(runs, id, leg))
<1> DEFINE more == Put(runs, id, leg)
           now == Put(lit, id, RunSpec(leg))
<1>1. /\ DOMAIN more = DOMAIN runs \cup {id} /\ more[id] = leg
      /\ \A x \in DOMAIN runs : x # id => more[x] = runs[x]
  BY DEF Put
<1>2. /\ DOMAIN now = DOMAIN lit \cup {id} /\ now[id] = RunSpec(leg)
      /\ \A x \in DOMAIN lit : x # id => now[x] = lit[x]
  BY DEF Put
<1> HIDE DEF more, now
<1>3. IsFiniteSet(DOMAIN more)
  BY <1>1, FS_AddElement DEF LitBesides
<1> QED BY <1>1, <1>2, <1>3 DEF LitBesides, more, now

LEMMA DrawnOneMore ==
  ASSUME NEW k \in Nat \ {0}, NEW runs, NEW legs, DrawnFrom(runs, legs, k - 1), NEW id, id \notin DOMAIN runs
  PROVE  DrawnFrom(Put(runs, id, legs[k]), legs, k)
<1> DEFINE more == Put(runs, id, legs[k])
<1>1. PICK at : At(at, runs, legs, k - 1)
  BY DEF DrawnFrom
<1> DEFINE to == [x \in DOMAIN runs \cup {id} |-> IF x = id THEN k ELSE at[x]]
<1>2. /\ DOMAIN more = DOMAIN runs \cup {id} /\ more[id] = legs[k]
      /\ \A x \in DOMAIN runs : x # id => more[x] = runs[x]
  BY DEF Put
<1>3. to[id] = k /\ \A x \in DOMAIN runs : to[x] = at[x]
  OBVIOUS
<1> HIDE DEF more, to
<1>4. \A i \in 1 .. k - 1 : i \in 1 .. k /\ i # k
  OBVIOUS
<1>5. k \in 1 .. k
  OBVIOUS
<1>6. At(to, more, legs, k)
  <2>1. \A x \in DOMAIN more : to[x] \in 1 .. k /\ more[x] = legs[to[x]]
    BY <1>1, <1>2, <1>3, <1>4, <1>5 DEF At
  <2>2. \A a, b \in DOMAIN more : a # b => to[a] # to[b]
    BY <1>1, <1>2, <1>3, <1>4 DEF At
  <2> QED BY <2>1, <2>2 DEF At
<1> QED BY <1>6 DEF DrawnFrom, more

\* A leg is still taken through its link when more is lit and added.
LEMMA StillRides ==
  ASSUME NEW n, NEW m, NEW k, NEW L, RidesSome(n, m, k, L), NEW u, LinksKept(n, u),
         \A id \in Lit(n) : id \in Lit(u) /\ u.lightpaths[id] = n.lightpaths[id]
  PROVE  RidesSome(u, m, k, L)
  BY DEF RidesSome, RidesLeg, LinksKept

LEMMA StillWired ==
  ASSUME NEW b, NEW m, NEW L, Wired(b, m, L), NEW c, c.segments = b.segments,
         LinksKept(b.model, c.model),
         \A id \in Lit(b.model) : id \in Lit(c.model) /\ c.model.lightpaths[id] = b.model.lightpaths[id]
  PROVE  Wired(c, m, L)
<1> SUFFICES ASSUME LinksNamed
             PROVE  \E B : c.segments \in Seq(B) /\ \A x \in B : RidesSome(c.model, m, x.id, L)
  BY DEF Wired
<1>1. PICK B : b.segments \in Seq(B) /\ \A x \in B : RidesSome(b.model, m, x.id, L)
  BY DEF Wired
<1>2. \A x \in B : RidesSome(c.model, m, x.id, L)
  BY <1>1, StillRides
<1> QED BY <1>1, <1>2

\* Provisioning the k-th leg.
LEMMA RunBuilds ==
  ASSUME NEW m, NEW legs, NEW S, NEW L, NEW k \in Nat \ {0}, NEW b, Built(b, m, legs, k - 1, S, L),
         NEW lp, NEW link, LinksNamed => link # NoLink, legs[k] \in L, IsNew(legs[k])
  PROVE  Built(ProvisionRun(b, legs[k], lp, link), m, legs, k, S, L)
<1> DEFINE leg == legs[k]
           a == RouterAt[From(leg)]
           z == RouterAt[To(leg)]
           applied == ApplyOp(b.model, Provision(lp, RunSpec(leg), link, a, z))
           seed == SeedOf(leg.mode, leg.gsnr)
           n == SetQot(applied.model, lp, seed)
           segments == Append(b.segments, [a |-> a, z |-> z, id |-> link])
           next == [model |-> n, segments |-> segments, runs |-> Put(b.runs, lp, leg),
                    seeds |-> Put(b.seeds, lp, seed), ok |-> TRUE]
           u == ProvisionRun(b, leg, lp, link)
<1>1. u = IF ~ applied.ok THEN [b EXCEPT !.ok = FALSE] ELSE next
  BY DEF ProvisionRun, RunSpec
<1>2. CASE ~ applied.ok
  <2>1. u = [b EXCEPT !.ok = FALSE]
    BY <1>1, <1>2
  <2> HIDE DEF u
  <2>2. u = [model |-> b.model, segments |-> b.segments, runs |-> b.runs, seeds |-> b.seeds, ok |-> FALSE]
    BY <2>1, BuildFields DEF Built, Lighted
  <2>3. IsBuild(u) /\ u.model = b.model /\ u.runs = b.runs /\ u.seeds = b.seeds /\ u.segments = b.segments
    BY <2>2 DEF IsBuild
  <2>4. DrawnFrom(b.runs, legs, k)
    <3>1. PICK at : At(at, b.runs, legs, k - 1)
      BY DEF Built, Lighted, DrawnFrom
    <3>2. \A i \in 1 .. k - 1 : i \in 1 .. k
      OBVIOUS
    <3>3. At(at, b.runs, legs, k)
      BY <3>1, <3>2 DEF At
    <3> QED BY <3>3 DEF DrawnFrom
  <2>5. Built(u, m, legs, k, S, L)
    BY <2>3, <2>4 DEF Built, Lighted, Wired
  <2> QED BY <2>5 DEF u
<1>3. CASE applied.ok
  <2>1. /\ lp \notin Lit(b.model) /\ IsRecord(applied.model)
        /\ applied.model.lightpaths = Put(b.model.lightpaths, lp, RunSpec(leg))
        /\ applied.model.services = b.model.services
        /\ LinksKept(b.model, applied.model)
        /\ link # NoLink =>
             /\ link \notin DOMAIN b.model.ipLinks /\ link \in DOMAIN applied.model.ipLinks
             /\ applied.model.ipLinks[link].lightpath = lp
    <3> HIDE DEF a, z, leg
    <3> QED BY <1>3, ProvisionIs DEF Built, Lighted
  <2> HIDE DEF applied, seed
  <2>2. n = WithRecords(applied.model, Put(applied.model.qot, lp, seed))
    BY Zenon DEF SetQot, WithRecords
  <2> HIDE DEF n
  <2>3. /\ IsRecord(n) /\ n.lightpaths = applied.model.lightpaths
        /\ n.services = applied.model.services /\ n.ipLinks = applied.model.ipLinks
    BY <2>1, <2>2, RecordsPut
  <2> HIDE DEF segments, leg
  <2>4. IsBuild(next) /\ next.model = n /\ next.segments = segments /\ next.runs = Put(b.runs, lp, leg) /\ next.seeds = Put(b.seeds, lp, seed)
    BY DEF IsBuild
  <2> HIDE DEF next, u
  <2>5. LitBesides(n.lightpaths, m.lightpaths, next.runs)
    <3>1. lp \notin DOMAIN b.model.lightpaths /\ LitBesides(b.model.lightpaths, m.lightpaths, b.runs)
      BY <2>1 DEF Lit, Built, Lighted
    <3>2. LitBesides(Put(b.model.lightpaths, lp, RunSpec(leg)), m.lightpaths, Put(b.runs, lp, leg))
      BY <3>1, LitOneMore
    <3> QED BY <2>1, <2>3, <2>4, <3>2, Zenon
  <2>6. lp \notin DOMAIN b.runs
    BY <2>1 DEF Built, Lighted, LitBesides, Lit
  <2>7. DrawnFrom(next.runs, legs, k)
    <3>1. DrawnFrom(b.runs, legs, k - 1)
      BY DEF Built, Lighted
    <3>2. DrawnFrom(Put(b.runs, lp, legs[k]), legs, k)
      BY <2>6, <3>1, DrawnOneMore
    <3> QED BY <2>4, <3>2, Zenon DEF leg
  <2>8. Seeded(next.seeds, next.runs)
    <3>1. Seeded(b.seeds, b.runs)
      BY DEF Built, Lighted
    <3> QED BY <2>4, <3>1 DEF Seeded, Put, seed
  <2>9. Present(n, S)
    <3>1. LinksKept(b.model, n) /\ n.services = b.model.services
      BY <2>1, <2>3 DEF LinksKept
    <3> QED BY <3>1, StillPresent DEF Built, Lighted
  <2>10. LinksKept(m, n)
    BY <2>1, <2>3 DEF LinksKept, Built, Lighted
  <2>11. Wired(next, m, L)
    <3> SUFFICES ASSUME LinksNamed
                 PROVE  \E B : segments \in Seq(B) /\ \A x \in B : RidesSome(n, m, x.id, L)
      BY <2>4 DEF Wired
    <3>1. PICK B : b.segments \in Seq(B) /\ \A x \in B : RidesSome(b.model, m, x.id, L)
      BY DEF Wired, Built
    <3> DEFINE last == [a |-> a, z |-> z, id |-> link]
               C == B \cup {last}
    <3>2. last.id = link
      OBVIOUS
    <3>3. segments = Append(b.segments, last)
      BY DEF segments
    <3> HIDE DEF last
    <3>4. b.segments \in Seq(C) /\ last \in C
      BY <3>1, SeqMonotonic
    <3> HIDE DEF C
    <3>5. segments \in Seq(C)
      BY <3>3, <3>4, AppendProperties
    <3>6. /\ LinksKept(b.model, n) /\ \A id \in Lit(b.model) : id \in Lit(n) /\ n.lightpaths[id] = b.model.lightpaths[id]
          /\ lp \in Lit(n) /\ n.lightpaths[lp] = RunSpec(leg)
      BY <2>1, <2>3 DEF LinksKept, Lit, Put
    <3>7. RidesSome(n, m, link, L)
      <4>1. link \notin DOMAIN m.ipLinks /\ link \in DOMAIN n.ipLinks /\ n.ipLinks[link].lightpath = lp
        BY <2>1, <2>3 DEF Built, Lighted, LinksKept
      <4>2. lp \notin Lit(m)
        BY <2>1 DEF Built, Lighted, LitBesides, Lit
      <4>3. RidesLeg(n, m, link, leg)
        BY <3>6, <4>1, <4>2 DEF RidesLeg, leg
      <4> QED BY <4>3 DEF RidesSome, leg
    <3>8. \A x \in B : RidesSome(n, m, x.id, L)
      BY <3>1, <3>6, StillRides
    <3>9. \A x \in C : RidesSome(n, m, x.id, L)
      BY <3>2, <3>7, <3>8 DEF C
    <3> QED BY <3>5, <3>9
  <2>12. Built(next, m, legs, k, S, L)
    BY <2>1, <2>3, <2>4, <2>5, <2>7, <2>8, <2>9, <2>10, <2>11 DEF Built, Lighted
  <2> QED BY <1>1, <1>3, <2>12 DEF u, leg
<1> QED BY <1>2, <1>3

-------------------------------------------------------------------------------
\* What a template mints is no None.
LEMMA MintedNamed ==
  ASSUME NEW taken, NEW prefix, NEW s, NEW i, LinksNamed
  PROVE  MintUnique(taken, Template(prefix, s, i)) # NoLink
<1> DEFINE t == Template(prefix, s, i)
<1>1. t = [prefix |-> prefix, service |-> s, i |-> i, n |-> 1]
  BY DEF Template
<1>2. ASSUME NEW n
      PROVE  [t EXCEPT !.n = n] = [prefix |-> prefix, service |-> s, i |-> i, n |-> n]
  BY <1>1
<1> HIDE DEF t
<1>3. t # NoLink /\ \A n : [t EXCEPT !.n = n] # NoLink
  BY <1>1, <1>2 DEF LinksNamed
<1>4. MintUnique(taken, t) # NoLink
  BY <1>3 DEF MintUnique
<1> QED BY <1>4 DEF t

\* Provisioning stops at the first leg that raises.
LEMMA AllBuilt ==
  ASSUME NEW A, NEW m, NEW legs \in Seq(A), NEW S, NEW L, NEW b, Built(b, m, legs, 0, S, L), NEW s, NEW prefix,
         \A i \in 1 .. Len(legs) : legs[i] \in L /\ IsNew(legs[i])
  PROVE  Built(ProvisionAll(b, legs, s, prefix), m, legs, Len(legs), S, L)
<1> DEFINE at == [i \in DOMAIN legs |-> i]
           n == Len(at)
           run(acc, i) == ProvisionRun(acc, legs[i], MintUnique(Lit(acc.model), Template(prefix, s, i)),
                                       MintUnique(DOMAIN acc.model.ipLinks, Template(prefix, s, i)))
           step(acc, i) == IF acc.ok THEN run(acc, i) ELSE acc
           F(f) == [i \in 0 .. n |-> IF i = 0 THEN b ELSE step(f[i - 1], at[i])]
           after == CHOOSE f : f = F(f)
           Some(k) == \E f : OnTurns(f, k) /\ f[0] = b /\ \A i \in 1 .. k : f[i] = step(f[i - 1], i)
           T == {k \in 0 .. n : Some(k)}
<1>1. ProvisionAll(b, legs, s, prefix) = after[n]
  BY DEF ProvisionAll, Folded
<1>2. n \in Nat /\ n = Len(legs) /\ \A i \in 1 .. n : at[i] = i
  <2>1. DOMAIN legs = 1 .. Len(legs) /\ Len(legs) \in Nat
    BY LenProperties
  <2>2. Len(at) = Len(legs) /\ \A i \in 1 .. Len(legs) : at[i] = i
    BY <2>1, SeqOfFcn
  <2> QED BY <2>1, <2>2
<1>3. ASSUME NEW k \in 1 .. n, NEW acc, Built(acc, m, legs, k - 1, S, L)
      PROVE  Built(step(acc, k), m, legs, k, S, L)
  <2>1. k \in Nat \ {0} /\ legs[k] \in L /\ IsNew(legs[k])
    BY <1>2
  <2>2. CASE acc.ok
    <3> DEFINE lp == MintUnique(Lit(acc.model), Template(prefix, s, k))
               link == MintUnique(DOMAIN acc.model.ipLinks, Template(prefix, s, k))
    <3>2. LinksNamed => link # NoLink
      BY MintedNamed
    <3> HIDE DEF lp, link
    <3>3. Built(ProvisionRun(acc, legs[k], lp, link), m, legs, k, S, L)
      BY <1>3, <2>1, <3>2, RunBuilds
    <3>1. Built(run(acc, k), m, legs, k, S, L)
      BY <3>3 DEF lp, link
    <3> QED BY <2>2, <3>1
  <2>3. CASE ~ acc.ok
    <3>1. PICK to : At(to, acc.runs, legs, k - 1)
      BY <1>3 DEF Built, Lighted, DrawnFrom
    <3>2. \A i \in 1 .. k - 1 : i \in 1 .. k
      BY <2>1
    <3>3. At(to, acc.runs, legs, k)
      BY <3>1, <3>2 DEF At
    <3>4. DrawnFrom(acc.runs, legs, k)
      BY <3>3 DEF DrawnFrom
    <3>5. Built(acc, m, legs, k, S, L)
      BY <1>3, <3>4 DEF Built, Lighted
    <3> QED BY <2>3, <3>5
  <2> QED BY <2>2, <2>3
<1> HIDE DEF step, n, at
<1>4. 0 \in T
  <2> DEFINE f == [i \in 0 .. 0 |-> b]
  <2>1. OnTurns(f, 0) /\ f[0] = b
    BY DEF OnTurns
  <2> HIDE DEF f
  <2> QED BY <1>2, <2>1
<1>5. ASSUME NEW k \in 1 .. n, k - 1 \in T
      PROVE  k \in T
  <2>1. PICK f : OnTurns(f, k - 1) /\ f[0] = b /\ \A i \in 1 .. k - 1 : f[i] = step(f[i - 1], i)
    BY <1>5
  <2>2. k \in Nat \ {0} /\ k \in 0 .. n /\ 0 \in 0 .. k - 1
    BY <1>2
  <2>3. PICK e : Prolongs(e, f, k, step(f[k - 1], k))
    BY <2>2, Longer
  <2>4. ASSUME NEW i \in 1 .. k
        PROVE  e[i] = step(e[i - 1], i)
    <3>1. i - 1 \in 0 .. k - 1 /\ (i = k \/ (i \in 0 .. k - 1 /\ i \in 1 .. k - 1))
      OBVIOUS
    <3> QED BY <2>1, <2>3, <3>1 DEF Prolongs
  <2>5. OnTurns(e, k) /\ e[0] = b
    BY <2>1, <2>2, <2>3 DEF Prolongs
  <2> QED BY <2>2, <2>4, <2>5
<1>6. Some(n)
  <2> HIDE DEF Some
  <2>1. \A i \in 0 .. n : i \in T
    <3> HIDE DEF T
    <3> QED BY <1>2, <1>4, <1>5, UpTo
  <2>2. n \in 0 .. n
    BY <1>2
  <2> QED BY <2>1, <2>2
<1>7. after = F(after)
  <2>1. PICK f : OnTurns(f, n) /\ f[0] = b /\ \A i \in 1 .. n : f[i] = step(f[i - 1], i)
    BY <1>6
  <2>2. \A i \in 0 .. n : f[i] = IF i = 0 THEN b ELSE step(f[i - 1], at[i])
    <3>1. \A i \in 0 .. n : i = 0 \/ i \in 1 .. n
      BY <1>2
    <3> QED BY <1>2, <2>1, <3>1
  <2>3. f = F(f)
    BY <2>1, <2>2, Zenon DEF OnTurns
  <2> QED BY <2>3
<1> HIDE DEF after
<1>8. after[0] = b /\ \A i \in 1 .. n : after[i] = step(after[i - 1], i)
  <2>1. \A i \in 0 .. n : after[i] = IF i = 0 THEN b ELSE step(after[i - 1], at[i])
    BY <1>7
  <2>2. 0 \in 0 .. n /\ \A i \in 1 .. n : i \in 0 .. n /\ i # 0
    BY <1>2
  <2> QED BY <1>2, <2>1, <2>2
<1> DEFINE U == {i \in 0 .. n : Built(after[i], m, legs, i, S, L)}
<1>9. 0 \in U
  BY <1>2, <1>8
<1>10. ASSUME NEW i \in 1 .. n, i - 1 \in U
       PROVE  i \in U
  BY <1>2, <1>3, <1>8, <1>10
<1>11. \A i \in 0 .. n : i \in U
  <2> HIDE DEF U
  <2> QED BY <1>2, <1>9, <1>10, UpTo
<1>12. Built(after[n], m, legs, n, S, L)
  BY <1>2, <1>11
<1> QED BY <1>1, <1>2, <1>12

\* The reused legs add segments and nothing else.
OnlyReused(b, m) ==
  b = [model |-> m, segments |-> b.segments, runs |-> EmptyMap, seeds |-> EmptyMap, ok |-> TRUE]

ReuseAll(m, legs) == Folded(LAMBDA b, leg : Reuse(b, leg.id), Start(m), legs)

\* Each is taken through a link of its lightpath.
Reusing(b, m, L) == OnlyReused(b, m) /\ Wired(b, m, L)

LEMMA ReusedOnly ==
  ASSUME NEW A, NEW m, NEW legs \in Seq(A), NEW L,
         \A i \in 1 .. Len(legs) : legs[i] \in L /\ ~ IsNew(legs[i]) /\ BoundLinks(m, legs[i].id) # {}
  PROVE  Reusing(ReuseAll(m, legs), m, L)
<1> DEFINE n == Len(legs)
           step(acc, i) == Reuse(acc, legs[i].id)
           F(f) == [i \in 0 .. n |-> IF i = 0 THEN Start(m) ELSE step(f[i - 1], i)]
           after == CHOOSE f : f = F(f)
           Some(k) == \E f : OnTurns(f, k) /\ f[0] = Start(m) /\ \A i \in 1 .. k : f[i] = step(f[i - 1], i)
           T == {k \in 0 .. n : Some(k)}
<1>1. ReuseAll(m, legs) = after[n]
  BY DEF ReuseAll, Folded
<1>2. n \in Nat
  BY LenProperties
<1>3. ASSUME NEW acc, Reusing(acc, m, L), NEW i \in 1 .. n
      PROVE  Reusing(step(acc, i), m, L)
  <2> DEFINE x == Append(acc.segments, Segment(acc.model, LinkOf(acc.model, legs[i].id)))
             u == step(acc, i)
  <2>1. u = [acc EXCEPT !.segments = x]
    BY DEF Reuse
  <2> HIDE DEF x, u
  <2>2. IsBuild(acc) /\ acc.model = m /\ acc.runs = EmptyMap /\ acc.seeds = EmptyMap /\ acc.ok = TRUE
    BY <1>3 DEF Reusing, OnlyReused, IsBuild
  <2>3. u = [model |-> acc.model, segments |-> x, runs |-> acc.runs, seeds |-> acc.seeds, ok |-> acc.ok]
    BY <2>1, <2>2, BuildFields
  <2>4. OnlyReused(u, m) /\ u.segments = x /\ u.model = m
    BY <2>2, <2>3 DEF OnlyReused
  <2>5. Wired(u, m, L)
    <3> SUFFICES ASSUME LinksNamed
                 PROVE  \E B : x \in Seq(B) /\ \A y \in B : RidesSome(m, m, y.id, L)
      BY <2>4 DEF Wired
    <3>1. PICK B : acc.segments \in Seq(B) /\ \A y \in B : RidesSome(m, m, y.id, L)
      BY <1>3, <2>2 DEF Reusing, Wired
    <3> DEFINE leg == legs[i]
               k == LinkOf(m, leg.id)
               last == Segment(m, k)
               C == B \cup {last}
    <3>2. leg \in L /\ ~ IsNew(leg) /\ k \in BoundLinks(m, leg.id)
      BY DEF LinkOf
    <3>3. x = Append(acc.segments, last) /\ last.id = k
      BY <2>2 DEF x, Segment
    <3> HIDE DEF leg, k
    <3>4. RidesSome(m, m, k, L)
      BY <3>2 DEF RidesSome, RidesLeg, BoundLinks
    <3> HIDE DEF last
    <3>5. acc.segments \in Seq(C) /\ last \in C
      BY <3>1, SeqMonotonic
    <3>6. \A y \in C : RidesSome(m, m, y.id, L)
      BY <3>1, <3>3, <3>4
    <3> HIDE DEF C
    <3>7. x \in Seq(C)
      BY <3>3, <3>5, AppendProperties
    <3> QED BY <3>6, <3>7
  <2> QED BY <2>4, <2>5 DEF u, Reusing
<1>4. Reusing(Start(m), m, L)
  <2>1. OnlyReused(Start(m), m) /\ Start(m).segments = <<>>
    BY DEF Start, OnlyReused
  <2>2. Start(m).segments \in Seq({}) /\ \A x \in {} : RidesSome(Start(m).model, m, x.id, L)
    BY <2>1
  <2>3. Wired(Start(m), m, L)
    BY <2>2 DEF Wired
  <2> QED BY <2>1, <2>3 DEF Reusing
<1> HIDE DEF step, n
<1>5. 0 \in T
  <2> DEFINE f == [i \in 0 .. 0 |-> Start(m)]
  <2>1. OnTurns(f, 0) /\ f[0] = Start(m)
    BY DEF OnTurns
  <2> HIDE DEF f
  <2> QED BY <1>2, <2>1
<1>6. ASSUME NEW k \in 1 .. n, k - 1 \in T
      PROVE  k \in T
  <2>1. PICK f : OnTurns(f, k - 1) /\ f[0] = Start(m) /\ \A i \in 1 .. k - 1 : f[i] = step(f[i - 1], i)
    BY <1>6
  <2>2. k \in Nat \ {0} /\ k \in 0 .. n /\ 0 \in 0 .. k - 1
    BY <1>2
  <2>3. PICK e : Prolongs(e, f, k, step(f[k - 1], k))
    BY <2>2, Longer
  <2>4. ASSUME NEW i \in 1 .. k
        PROVE  e[i] = step(e[i - 1], i)
    <3>1. i - 1 \in 0 .. k - 1 /\ (i = k \/ (i \in 0 .. k - 1 /\ i \in 1 .. k - 1))
      OBVIOUS
    <3> QED BY <2>1, <2>3, <3>1 DEF Prolongs
  <2>5. OnTurns(e, k) /\ e[0] = Start(m)
    BY <2>1, <2>2, <2>3 DEF Prolongs
  <2> QED BY <2>2, <2>4, <2>5
<1>7. Some(n)
  <2> HIDE DEF Some
  <2>1. \A i \in 0 .. n : i \in T
    <3> HIDE DEF T
    <3> QED BY <1>2, <1>5, <1>6, UpTo
  <2>2. n \in 0 .. n
    BY <1>2
  <2> QED BY <2>1, <2>2
<1>8. after = F(after)
  <2>1. PICK f : OnTurns(f, n) /\ f[0] = Start(m) /\ \A i \in 1 .. n : f[i] = step(f[i - 1], i)
    BY <1>7
  <2>2. \A i \in 0 .. n : f[i] = IF i = 0 THEN Start(m) ELSE step(f[i - 1], i)
    <3>1. \A i \in 0 .. n : i = 0 \/ i \in 1 .. n
      BY <1>2
    <3> QED BY <2>1, <3>1
  <2>3. f = F(f)
    BY <2>1, <2>2, Zenon DEF OnTurns
  <2> QED BY <2>3
<1> HIDE DEF after
<1>9. after[0] = Start(m) /\ \A i \in 1 .. n : after[i] = step(after[i - 1], i)
  <2>1. \A i \in 0 .. n : after[i] = IF i = 0 THEN Start(m) ELSE step(after[i - 1], i)
    BY <1>8
  <2>2. 0 \in 0 .. n /\ \A i \in 1 .. n : i \in 0 .. n /\ i # 0
    BY <1>2
  <2> QED BY <2>1, <2>2
<1> DEFINE U == {i \in 0 .. n : Reusing(after[i], m, L)}
<1>10. 0 \in U
  BY <1>2, <1>4, <1>9
<1>11. ASSUME NEW i \in 1 .. n, i - 1 \in U
       PROVE  i \in U
  BY <1>2, <1>3, <1>9, <1>11
<1>12. \A i \in 0 .. n : i \in U
  <2> HIDE DEF U
  <2> QED BY <1>2, <1>10, <1>11, UpTo
<1> QED BY <1>1, <1>2, <1>12

\* The new runs of a placement are lit next to its reused lightpaths.
LEMMA MaterializeIs ==
  ASSUME NEW m, IsRecord(m), NEW S, Present(m, S), NEW p, p.legs \in Seq(Range(p.legs)), Materializable(m, p),
         NEW s, NEW prefix
  PROVE  Built(Materialize(m, p, s, prefix), m, NewLegs(p.legs), Len(NewLegs(p.legs)), S, Range(p.legs))
<1> DEFINE old == ReusedLegs(p.legs)
           new == NewLegs(p.legs)
           reused == ReuseAll(m, old)
           b == ProvisionAll(reused, new, s, prefix)
           u == Materialize(m, p, s, prefix)
<1>1. u = [b EXCEPT !.model = Reseed(@, b.seeds)]
  BY DEF Materialize, ReuseAll
<1> DEFINE L == Range(p.legs)
<1>2. /\ old \in Seq(L) /\ new \in Seq(L)
      /\ \A x \in Range(old) : x \in L /\ ~ IsNew(x) /\ BoundLinks(m, x.id) # {}
      /\ \A x \in Range(new) : x \in L /\ IsNew(x)
  <2>1. /\ old \in Seq(L)
        /\ \A x : x \in Range(old) <=> x \in Range(p.legs) /\ x \in {leg \in Range(p.legs) : ~ IsNew(leg)}
    BY FilteredIs DEF ReusedLegs
  <2>2. /\ new \in Seq(L)
        /\ \A x : x \in Range(new) <=> x \in Range(p.legs) /\ x \in {leg \in Range(p.legs) : IsNew(leg)}
    BY FilteredIs DEF NewLegs
  <2> HIDE DEF old, new
  <2> QED BY <2>1, <2>2 DEF Materializable
<1> HIDE DEF old, new, L
<1>13. /\ \A i \in 1 .. Len(old) : old[i] \in L /\ ~ IsNew(old[i]) /\ BoundLinks(m, old[i].id) # {}
       /\ \A i \in 1 .. Len(new) : new[i] \in L /\ IsNew(new[i])
  <2>1. Range(old) = {old[i] : i \in 1 .. Len(old)} /\ Range(new) = {new[i] : i \in 1 .. Len(new)}
    BY <1>2, RangeEquality
  <2> QED BY <1>2, <2>1
<1>3. Reusing(reused, m, L)
  BY <1>2, <1>13, ReusedOnly
<1> HIDE DEF reused
<1>4. Built(reused, m, new, 0, S, L)
  <2>1. IsBuild(reused) /\ reused.model = m /\ reused.runs = EmptyMap /\ reused.seeds = EmptyMap
    BY <1>3 DEF Reusing, OnlyReused, IsBuild
  <2>2. DOMAIN EmptyMap = {}
    BY DEF EmptyMap
  <2>3. LitBesides(m.lightpaths, m.lightpaths, EmptyMap)
    BY <2>2, FS_EmptySet DEF LitBesides
  <2>4. At(EmptyMap, EmptyMap, new, 0)
    BY <2>2 DEF At
  <2>5. DrawnFrom(EmptyMap, new, 0)
    BY <2>4 DEF DrawnFrom
  <2>6. Seeded(EmptyMap, EmptyMap)
    BY <2>2 DEF Seeded
  <2>7. LinksKept(m, m)
    BY DEF LinksKept
  <2> QED BY <1>3, <2>1, <2>3, <2>5, <2>6, <2>7 DEF Built, Lighted, Reusing
<1>5. Built(b, m, new, Len(new), S, L)
  BY <1>2, <1>4, <1>13, AllBuilt
<1> HIDE DEF b
<1> DEFINE n == Reseed(b.model, b.seeds)
<1>6. n = WithRecords(b.model, Overlay(b.seeds, b.model.qot))
  BY Zenon DEF Reseed, WithRecords
<1>7. u = [b EXCEPT !.model = n]
  BY <1>1
<1> HIDE DEF n, u
<1>8. u = [model |-> n, segments |-> b.segments, runs |-> b.runs, seeds |-> b.seeds, ok |-> b.ok]
  BY <1>5, <1>7, BuildFields DEF Built, Lighted
<1>9. IsBuild(u) /\ u.model = n /\ u.runs = b.runs /\ u.seeds = b.seeds /\ u.segments = b.segments
  BY <1>8 DEF IsBuild
<1>10. IsRecord(n) /\ n.lightpaths = b.model.lightpaths /\ n.services = b.model.services
       /\ n.ipLinks = b.model.ipLinks
  BY <1>5, <1>6, RecordsPut DEF Built, Lighted
<1>11. Present(n, S) /\ LinksKept(m, n)
  <2>1. LinksKept(b.model, n) /\ LinksKept(m, b.model)
    BY <1>5, <1>10 DEF LinksKept, Built, Lighted
  <2>2. Present(n, S)
    BY <1>5, <1>10, <2>1, StillPresent DEF Built, Lighted
  <2> QED BY <2>1, <2>2 DEF LinksKept
<1>14. Wired(u, m, L)
  <2>1. Wired(b, m, L)
    BY <1>5 DEF Built
  <2>2. LinksKept(b.model, u.model) /\ \A id \in Lit(b.model) : id \in Lit(u.model) /\ u.model.lightpaths[id] = b.model.lightpaths[id]
    BY <1>9, <1>10 DEF LinksKept, Lit
  <2> QED BY <1>9, <2>1, <2>2, StillWired
<1>12. Built(u, m, new, Len(new), S, L)
  BY <1>5, <1>9, <1>10, <1>11, <1>14 DEF Built, Lighted
<1> QED BY <1>12 DEF u, new, L

-------------------------------------------------------------------------------
(* Paths.                                                                  *)

\* The stitched path takes links of the segments.
LEMMA StitchIs ==
  ASSUME NEW B, NEW segs \in Seq(B), NEW src, NEW dst
  PROVE  \A k \in Range(Stitch(segs, src, dst)) : \E x \in B : k = x.id
<1> DEFINE n == Len(segs)
           I == {x.id : x \in B}
           Places == {src} \cup {x.a : x \in B} \cup {x.z : x \in B}
           W == [path : Seq(I), used : SUBSET (1 .. n), at : Places]
           usable(w) == {i \in DOMAIN segs \ w.used : w.at \in {segs[i].a, segs[i].z}}
           take(w, i) == [path |-> Append(w.path, segs[i].id), used |-> w.used \cup {i},
                          at |-> IF segs[i].a = w.at THEN segs[i].z ELSE segs[i].a]
           step(w) == IF w.at = dst \/ usable(w) = {} THEN w ELSE take(w, Min(usable(w)))
           begin == [path |-> <<>>, used |-> {}, at |-> src]
           F(h) == [i \in 0 .. n |-> IF i = 0 THEN begin ELSE step(h[i - 1])]
           after == CHOOSE h : h = F(h)
           g == [p \in W \X (1 .. n) |-> step(p[1])]
<1>1. Stitch(segs, src, dst) = after[n].path
  BY DEF Stitch, Folded
<1>2. n \in Nat /\ DOMAIN segs = 1 .. n /\ \A i \in 1 .. n : segs[i] \in B
  BY LenProperties, ElementOfSeq
<1>3. ASSUME NEW w \in W
      PROVE  step(w) \in W
  <2>1. CASE w.at = dst \/ usable(w) = {}
    BY <2>1
  <2>2. CASE ~ (w.at = dst \/ usable(w) = {})
    <3> DEFINE U == usable(w)
               i == Min(U)
               x == segs[i]
    <3>1. U \subseteq 1 .. n /\ U # {} /\ 1 .. n \subseteq Nat
      BY <1>2, <2>2
    <3> HIDE DEF U
    <3>2. i \in 1 .. n
      <4>1. U \subseteq Nat
        BY <3>1
      <4> QED BY <3>1, <4>1, MinIn
    <3> HIDE DEF i
    <3>3. x \in B
      BY <1>2, <3>2
    <3> HIDE DEF x
    <3>4. x.id \in I /\ x.a \in Places /\ x.z \in Places
      BY <3>3
    <3>5. w.path \in Seq(I) /\ w.used \subseteq 1 .. n
      OBVIOUS
    <3> DEFINE path == Append(w.path, x.id)
               used == w.used \cup {i}
               at == IF x.a = w.at THEN x.z ELSE x.a
    <3>6. path \in Seq(I) /\ used \subseteq 1 .. n /\ at \in Places
      <4> HIDE DEF I, Places
      <4>1. path \in Seq(I)
        BY <3>4, <3>5, AppendProperties
      <4> QED BY <3>2, <3>4, <3>5, <4>1
    <3>7. step(w) = [path |-> path, used |-> used, at |-> at]
      BY <2>2 DEF U, i, x
    <3> HIDE DEF path, used, at, I, Places, step
    <3> QED BY <3>6, <3>7
  <2> QED BY <2>1, <2>2
<1>4. begin \in W
  BY DEF Places
<1> HIDE DEF W, step, n, begin
<1>5. g \in [W \X (1 .. n) -> W] /\ \A w \in W, i \in 1 .. n : g[<<w, i>>] = step(w)
  BY <1>3
<1> HIDE DEF g
<1>6. PICK h : Folds(h, n, begin, g) /\ \A i \in 0 .. n : h[i] \in W
  BY <1>2, <1>4, <1>5, FoldTyped, Zenon
<1>7. h = F(h)
  <2>1. \A i \in 1 .. n : i - 1 \in 0 .. n
    BY <1>2
  <2>2. \A i \in 1 .. n : h[i] = step(h[i - 1])
    BY <1>5, <1>6, <2>1 DEF Folds
  <2>3. \A i \in 0 .. n : i # 0 => i \in 1 .. n
    BY <1>2
  <2>4. h = [i \in 0 .. n |-> h[i]] /\ h[0] = begin
    BY <1>6 DEF Folds, OnTurns
  <2> QED BY <2>2, <2>3, <2>4
<1>8. after = F(after)
  BY <1>7
<1> HIDE DEF after
<1> DEFINE T == {i \in 0 .. n : after[i] \in W}
<1>9. 0 \in T
  <2>1. 0 \in 0 .. n
    BY <1>2
  <2>2. after[0] = begin
    BY <1>8, <2>1
  <2> QED BY <1>4, <2>1, <2>2
<1>10. ASSUME NEW i \in 1 .. n, i - 1 \in T
       PROVE  i \in T
  <2>1. i \in 0 .. n /\ i # 0
    BY <1>2
  <2>2. after[i] = step(after[i - 1])
    BY <1>8, <2>1
  <2> QED BY <1>3, <1>10, <2>1, <2>2
<1>11. \A i \in 0 .. n : i \in T
  <2> HIDE DEF T
  <2> QED BY <1>2, <1>9, <1>10, UpTo
<1>12. after[n] \in W
  BY <1>2, <1>11
<1>13. after[n].path \in Seq(I)
  BY <1>12 DEF W
<1>14. Range(after[n].path) \subseteq I
  <2> HIDE DEF I
  <2> QED BY <1>13, RangeOfSeq
<1> QED BY <1>1, <1>14

\* One side of one service turned onto a path, all the rest as it was.
OthersKept(m, n, s) == \A t \in DOMAIN m.services : t # s => t \in DOMAIN n.services /\ n.services[t] = m.services[t]

Rerouted(m, n, s, which, path) ==
  /\ OthersKept(m, n, s) /\ s \in DOMAIN n.services
  /\ n.services[s].src = m.services[s].src /\ n.services[s].dst = m.services[s].dst
  /\ n.services[s].working = IF which = "working" THEN path ELSE m.services[s].working
  /\ n.services[s].protection = IF which = "protection" THEN path ELSE m.services[s].protection

\* Setting one side of the path of a service to links that are there.
LEMMA PathSet ==
  ASSUME NEW m, IsRecord(m), NEW S, Present(m, S), NEW s \in S, NEW path, AllPresent(m, path),
         NEW n, n \in {SetWorkingPath(m, s, path), SetProtectionPath(m, s, path)}
  PROVE  IsRecord(n) /\ n.lightpaths = m.lightpaths /\ n.ipLinks = m.ipLinks /\ Present(n, S)
<1> DEFINE working == WithWorking(m, s, path)
           protection == WithProtection(m, s, path)
<1>1. SetWorkingPath(m, s, path) = [m EXCEPT !.services = working]
  BY Zenon DEF SetWorkingPath, WithWorking
<1>2. SetProtectionPath(m, s, path) = [m EXCEPT !.services = protection]
  BY Zenon DEF SetProtectionPath, WithProtection
<1>3. ASSUME NEW services, NEW y, y = [m EXCEPT !.services = services]
      PROVE  IsRecord(y) /\ y.lightpaths = m.lightpaths /\ y.ipLinks = m.ipLinks /\ y.services = services
  <2>1. Is([m EXCEPT !.services = services], m.lightpaths, m.before, m.qot, m.ipLinks, services,
           m.failed, m.impair)
    BY SetField DEF IsRecord
  <2>2. Is(y, m.lightpaths, m.before, m.qot, m.ipLinks, services, m.failed, m.impair)
    BY <1>3, <2>1
  <2> QED BY <2>2, IsFields
<1>4. ASSUME NEW t \in S
      PROVE  /\ t \in DOMAIN working /\ IsService(working[t])
             /\ working[t].working \in {path, m.services[t].working}
             /\ working[t].protection = m.services[t].protection
             /\ t \in DOMAIN protection /\ IsService(protection[t])
             /\ protection[t].protection \in {path, m.services[t].protection}
             /\ protection[t].working = m.services[t].working
  <2> DEFINE f == m.services
             r == [f[s] EXCEPT !.working = path]
             q == [f[s] EXCEPT !.protection = path]
  <2>1. t \in DOMAIN f /\ IsService(f[t]) /\ IsService(f[s])
    BY DEF Present
  <2>2. r = [src |-> f[s].src, dst |-> f[s].dst, working |-> path, protection |-> f[s].protection]
    BY <2>1 DEF IsService
  <2>3. q = [src |-> f[s].src, dst |-> f[s].dst, working |-> f[s].working, protection |-> path]
    BY <2>1 DEF IsService
  <2>4. IsService(r) /\ r.working = path /\ r.protection = f[s].protection
    <3> HIDE DEF r, q, f
    <3> QED BY <2>2 DEF IsService
  <2>5. IsService(q) /\ q.working = f[s].working /\ q.protection = path
    <3> HIDE DEF r, q, f
    <3> QED BY <2>3 DEF IsService
  <2>6. working = [f EXCEPT ![s] = r] /\ protection = [f EXCEPT ![s] = q]
    BY DEF WithWorking, WithProtection
  <2> HIDE DEF r, q, f, working, protection
  <2>7. DOMAIN working = DOMAIN f /\ DOMAIN protection = DOMAIN f
    BY <2>6
  <2>8. CASE t = s
    <3>1. working[t] = r /\ protection[t] = q
      BY <2>1, <2>6, <2>8
    <3> QED BY <2>1, <2>4, <2>5, <2>7, <2>8, <3>1 DEF f
  <2>9. CASE t # s
    <3>1. working[t] = f[t] /\ protection[t] = f[t]
      BY <2>1, <2>6, <2>9
    <3> QED BY <2>1, <2>7, <3>1 DEF f
  <2> QED BY <2>8, <2>9 DEF f
<1>5. \A t \in S : AllPresent(m, m.services[t].working) /\ AllPresent(m, m.services[t].protection)
  BY DEF Present
<1> HIDE DEF working, protection
<1>6. CASE n = SetWorkingPath(m, s, path)
  <2>1. IsRecord(n) /\ n.lightpaths = m.lightpaths /\ n.ipLinks = m.ipLinks /\ n.services = working
    BY <1>1, <1>3, <1>6
  <2> QED BY <1>4, <1>5, <2>1 DEF Present, AllPresent
<1>7. CASE n = SetProtectionPath(m, s, path)
  <2>1. IsRecord(n) /\ n.lightpaths = m.lightpaths /\ n.ipLinks = m.ipLinks /\ n.services = protection
    BY <1>2, <1>3, <1>7
  <2> QED BY <1>4, <1>5, <2>1 DEF Present, AllPresent
<1> QED BY <1>6, <1>7

LEMMA PathTurned ==
  ASSUME NEW m, IsRecord(m), NEW s \in DOMAIN m.services, IsService(m.services[s]), NEW path, NEW which, NEW n,
         \/ which = "working" /\ n = SetWorkingPath(m, s, path)
         \/ which = "protection" /\ n = SetProtectionPath(m, s, path)
  PROVE  Rerouted(m, n, s, which, path)
<1> DEFINE f == m.services
           r == [f[s] EXCEPT !.working = path]
           q == [f[s] EXCEPT !.protection = path]
<1>1. SetWorkingPath(m, s, path) = [m EXCEPT !.services = [f EXCEPT ![s] = r]]
  BY Zenon DEF SetWorkingPath
<1>2. SetProtectionPath(m, s, path) = [m EXCEPT !.services = [f EXCEPT ![s] = q]]
  BY Zenon DEF SetProtectionPath
<1>3. ASSUME NEW services, NEW y, y = [m EXCEPT !.services = services]
      PROVE  y.services = services
  <2>1. Is([m EXCEPT !.services = services], m.lightpaths, m.before, m.qot, m.ipLinks, services,
           m.failed, m.impair)
    BY SetField DEF IsRecord
  <2>2. Is(y, m.lightpaths, m.before, m.qot, m.ipLinks, services, m.failed, m.impair)
    BY <1>3, <2>1
  <2> QED BY <2>2, IsFields
<1>4. /\ r = [src |-> f[s].src, dst |-> f[s].dst, working |-> path, protection |-> f[s].protection]
      /\ q = [src |-> f[s].src, dst |-> f[s].dst, working |-> f[s].working, protection |-> path]
  BY DEF IsService
<1> HIDE DEF r, q
<1>5. /\ r.src = f[s].src /\ r.dst = f[s].dst /\ r.working = path /\ r.protection = f[s].protection
      /\ q.src = f[s].src /\ q.dst = f[s].dst /\ q.working = f[s].working /\ q.protection = path
  BY <1>4
<1>6. ASSUME NEW x, NEW services, services = [f EXCEPT ![s] = x]
      PROVE  /\ s \in DOMAIN services /\ services[s] = x
             /\ \A t \in DOMAIN f : t # s => t \in DOMAIN services /\ services[t] = f[t]
  BY <1>6
<1>7. CASE which = "working" /\ n = SetWorkingPath(m, s, path)
  <2>1. n.services = [f EXCEPT ![s] = r]
    BY <1>1, <1>3, <1>7
  <2>2. /\ s \in DOMAIN n.services /\ n.services[s] = r
        /\ \A t \in DOMAIN f : t # s => t \in DOMAIN n.services /\ n.services[t] = f[t]
    BY <1>6, <2>1
  <2> QED BY <1>5, <1>7, <2>2 DEF Rerouted, OthersKept
<1>8. CASE which = "protection" /\ n = SetProtectionPath(m, s, path)
  <2>1. n.services = [f EXCEPT ![s] = q]
    BY <1>2, <1>3, <1>8
  <2>2. /\ s \in DOMAIN n.services /\ n.services[s] = q
        /\ \A t \in DOMAIN f : t # s => t \in DOMAIN n.services /\ n.services[t] = f[t]
    BY <1>6, <2>1
  <2> QED BY <1>5, <1>8, <2>2 DEF Rerouted, OthersKept
<1> QED BY <1>7, <1>8

LEMMA RerouteIs ==
  ASSUME NEW m, IsRecord(m), NEW S, Present(m, S), NEW s \in S, NEW path, NEW which,
         NEW applied, applied = ApplyOp(m, Reroute(s, path, which))
  PROVE  /\ IsRecord(applied.model) /\ applied.model.lightpaths = m.lightpaths
         /\ applied.model.ipLinks = m.ipLinks /\ Present(applied.model, S)
         /\ applied.ok => /\ Rerouted(m, applied.model, s, which, path)
                          /\ Contiguous(m, m.services[s].src, m.services[s].dst, path)
<1> DEFINE op == Reroute(s, path, which)
           n == applied.model
<1>1. op.op = "reroute" /\ op.id = s /\ op.path = path /\ op.which = which
  BY DEF Reroute
<1> HIDE DEF op
<1>2. applied = ApplyReroute(m, op)
  BY <1>1 DEF ApplyOp, op
<1>3. ASSUME NEW x
      PROVE  /\ Applied(x).model = x /\ Applied(x).ok = TRUE
             /\ PlanError(x).model = x /\ PlanError(x).ok = FALSE
  BY DEF Applied, PlanError
<1>4. \/ n = m /\ ~ applied.ok
      \/ /\ CanSetPath(m, s, path)
         /\ \/ which = "working" /\ n = SetWorkingPath(m, s, path)
            \/ which = "protection" /\ n = SetProtectionPath(m, s, path)
  BY <1>1, <1>2, <1>3 DEF ApplyReroute
<1> HIDE DEF n
<1>5. CASE n = m /\ ~ applied.ok
  BY <1>5 DEF n
<1>6. CASE /\ CanSetPath(m, s, path)
           /\ \/ which = "working" /\ n = SetWorkingPath(m, s, path)
              \/ which = "protection" /\ n = SetProtectionPath(m, s, path)
  <2>1. AllPresent(m, path) /\ Contiguous(m, m.services[s].src, m.services[s].dst, path)
    BY <1>6 DEF CanSetPath, Contiguous
  <2>2. n \in {SetWorkingPath(m, s, path), SetProtectionPath(m, s, path)}
    BY <1>6
  <2>3. IsRecord(n) /\ n.lightpaths = m.lightpaths /\ n.ipLinks = m.ipLinks /\ Present(n, S)
    BY <2>1, <2>2, PathSet
  <2>4. s \in DOMAIN m.services /\ IsService(m.services[s])
    BY DEF Present
  <2>5. Rerouted(m, n, s, which, path)
    BY <1>6, <2>4, PathTurned
  <2> QED BY <2>1, <2>3, <2>5 DEF n
<1> QED BY <1>4, <1>5, <1>6

\* A service turned onto a path between its ends whose links stand for legs.
Steered(u, m, s, which, L) ==
  u.ok => \E path :
    /\ Rerouted(m, u.model, s, which, path)
    /\ m.services[s].src # m.services[s].dst => path # <<>>
    /\ LinksNamed => \A k \in Range(path) : RidesSome(u.model, m, k, L)

\* A candidate lights its runs and turns one side of its service.
LEMMA CandidateBuilt ==
  ASSUME NEW m, IsRecord(m), NEW S, Present(m, S), NEW p, p.legs \in Seq(Range(p.legs)), Materializable(m, p),
         NEW s \in S, NEW prefix, NEW which, NEW u, u = ApplyCandidate(m, p, s, prefix, which)
  PROVE  /\ Lighted(u, m, NewLegs(p.legs), Len(NewLegs(p.legs)), S)
         /\ Steered(u, m, s, which, Range(p.legs))
<1> DEFINE b == Materialize(m, p, s, prefix)
           new == NewLegs(p.legs)
           L == Range(p.legs)
           path == Stitch(b.segments, b.model.services[s].src, b.model.services[s].dst)
           applied == ApplyOp(b.model, Reroute(s, path, which))
           moved == [b EXCEPT !.model = applied.model, !.ok = applied.ok]
<1>1. Built(b, m, new, Len(new), S, L)
  BY MaterializeIs
<1>2. (u = b /\ ~ b.ok) \/ u = moved
  BY DEF ApplyCandidate, RerouteOnto
<1>3. LinksNamed => \A k \in Range(path) : RidesSome(b.model, m, k, L)
  <2> SUFFICES ASSUME LinksNamed, NEW k \in Range(path) PROVE RidesSome(b.model, m, k, L)
    OBVIOUS
  <2> HIDE DEF b
  <2>1. PICK B : b.segments \in Seq(B) /\ \A x \in B : RidesSome(b.model, m, x.id, L)
    BY <1>1 DEF Built, Wired
  <2>2. PICK x \in B : k = x.id
    BY <2>1, StitchIs
  <2> QED BY <2>1, <2>2
<1> HIDE DEF b, new, path, L
<1>4. /\ IsRecord(applied.model) /\ applied.model.lightpaths = b.model.lightpaths
      /\ applied.model.ipLinks = b.model.ipLinks /\ Present(applied.model, S)
      /\ applied.ok => /\ Rerouted(b.model, applied.model, s, which, path)
                       /\ Contiguous(b.model, b.model.services[s].src, b.model.services[s].dst, path)
  BY <1>1, RerouteIs DEF Built, Lighted
<1> HIDE DEF applied
<1>5. moved = [model |-> applied.model, segments |-> b.segments, runs |-> b.runs,
               seeds |-> b.seeds, ok |-> applied.ok]
  <2> DEFINE x == applied.model
             y == applied.ok
  <2>1. IsBuild(b)
    BY <1>1 DEF Built, Lighted
  <2>2. moved = [b EXCEPT !.model = x, !.ok = y]
    OBVIOUS
  <2> HIDE DEF x, y, moved
  <2>3. moved = [model |-> x, segments |-> b.segments, runs |-> b.runs, seeds |-> b.seeds, ok |-> y]
    BY <2>1, <2>2, BuildFields, Zenon
  <2> QED BY <2>3 DEF x, y
<1> HIDE DEF moved
<1>6. /\ IsBuild(moved) /\ moved.model = applied.model /\ moved.runs = b.runs /\ moved.seeds = b.seeds
      /\ moved.ok = applied.ok
  BY <1>5 DEF IsBuild
<1>7. Lighted(moved, m, new, Len(new), S)
  BY <1>1, <1>4, <1>6 DEF Built, Lighted, LinksKept
<1>8. Steered(moved, m, s, which, L)
  <2> SUFFICES ASSUME applied.ok
               PROVE  \E path_ : /\ Rerouted(m, applied.model, s, which, path_)
                                 /\ m.services[s].src # m.services[s].dst => path_ # <<>>
                                 /\ LinksNamed => \A k \in Range(path_) : RidesSome(applied.model, m, k, L)
    BY <1>6 DEF Steered
  <2>1. b.model.services = m.services
    BY <1>1 DEF Built
  <2>2. Rerouted(m, applied.model, s, which, path)
    BY <1>4, <2>1 DEF Rerouted, OthersKept
  <2>3. m.services[s].src # m.services[s].dst => path # <<>>
    <3>1. Contiguous(b.model, m.services[s].src, m.services[s].dst, path)
      BY <1>4, <2>1
    <3>2. path = <<>> => Len(path) = 0
      OBVIOUS
    <3> QED BY <3>1, <3>2 DEF Contiguous
  <2>4. LinksNamed => \A k \in Range(path) : RidesSome(applied.model, m, k, L)
    BY <1>3, <1>4 DEF RidesSome, RidesLeg, Lit
  <2> QED BY <2>2, <2>3, <2>4
<1> QED BY <1>1, <1>2, <1>7, <1>8 DEF Built, Steered, new, L

\* Runs that fit the model and each other, over sections of these legs.
RunsFit(m, runs, legs) ==
  /\ \A id \in DOMAIN runs : RunOn(m, runs[id]) /\ Range(runs[id].oms) \subseteq Range(Sections(legs))
  /\ \A a, b \in DOMAIN runs : a # b => Clear(runs[a], runs[b])

LEMMA RunsAre ==
  ASSUME NEW m, OnPaths(m), NEW legs, LegsFit(m, legs), NEW runs,
         DrawnFrom(runs, NewLegs(legs), Len(NewLegs(legs)))
  PROVE  RunsFit(m, runs, legs)
<1> DEFINE new == NewLegs(legs)
           A == Range(legs)
<1>1. legs \in Seq(A)
  BY DEF LegsFit
<1>2. /\ new \in Seq(A)
      /\ \A x : x \in Range(new) <=> x \in Range(legs) /\ x \in {leg \in Range(legs) : IsNew(leg)}
      /\ \E to : Rises(to, new, legs)
  BY <1>1, FilteredIs DEF NewLegs
<1>3. PICK at : At(at, runs, new, Len(new))
  BY DEF DrawnFrom
<1> HIDE DEF new, A
<1>4. PICK to : Rises(to, new, legs)
  BY <1>2
<1>5. Len(new) \in Nat /\ Len(legs) \in Nat /\ \A i \in 1 .. Len(new) : new[i] \in Range(new)
  <2>1. Range(new) = {new[i] : i \in 1 .. Len(new)}
    BY <1>2, RangeEquality
  <2> QED BY <1>1, <1>2, <2>1, LenProperties
<1>6. ASSUME NEW id \in DOMAIN runs
      PROVE  /\ to[at[id]] \in 1 .. Len(legs) /\ runs[id] = legs[to[at[id]]] /\ IsNew(runs[id])
             /\ at[id] \in 1 .. Len(new)
  <2>1. at[id] \in 1 .. Len(new) /\ runs[id] = new[at[id]]
    BY <1>3 DEF At
  <2>2. IsNew(new[at[id]])
    BY <1>2, <1>5, <2>1
  <2> QED BY <1>4, <2>1, <2>2 DEF Rises
<1>7. ASSUME NEW id \in DOMAIN runs
      PROVE  RunOn(m, runs[id]) /\ Range(runs[id].oms) \subseteq Range(Sections(legs))
  BY <1>6, SectionsAre DEF LegsFit
<1>8. ASSUME NEW a \in DOMAIN runs, NEW b \in DOMAIN runs, a # b
      PROVE  Clear(runs[a], runs[b])
  <2>1. at[a] # at[b] /\ at[a] \in 1 .. Len(new) /\ at[b] \in 1 .. Len(new)
    BY <1>3, <1>6, <1>8 DEF At
  <2> DEFINE i == at[a]
             j == at[b]
  <2>2. i < j \/ j < i
    BY <1>5, <2>1
  <2>3. to[i] # to[j]
    <3> HIDE DEF i, j
    <3>1. i \in 1 .. Len(new) /\ j \in 1 .. Len(new)
      BY <2>1 DEF i, j
    <3>2. to[i] < to[j] \/ to[j] < to[i]
      BY <1>4, <2>2, <3>1 DEF Rises
    <3>3. to[i] \in Int /\ to[j] \in Int
      BY <1>4, <1>5, <3>1 DEF Rises
    <3> QED BY <3>2, <3>3
  <2> QED BY <1>6, <2>3 DEF LegsFit
<1> QED BY <1>7, <1>8 DEF RunsFit

-------------------------------------------------------------------------------
(* Landing.                                                                *)

\* The record that verification leaves of a run.
RecordOf(leg) == IF leg.estimated THEN ExactSeed(leg) ELSE SeedOf(leg.mode, leg.gsnr)
Misses(leg) == leg.estimated /\ ExactSeed(leg).margin < 0

\* Runs verified and, when they miss their mode, reported.
Checked(runs, verified, found) ==
  /\ DOMAIN verified = DOMAIN runs
  /\ \A id \in DOMAIN runs :
       verified[id] = RecordOf(runs[id]) /\ (Misses(runs[id]) => id \in {v.id : v \in found})

LEMMA VerifiedIs ==
  ASSUME NEW b, Seeded(b.seeds, b.runs)
  PROVE  Checked(b.runs, Verified(b), VerifyViolations(b))
<1> SUFFICES ASSUME NEW id \in DOMAIN b.runs
             PROVE  /\ Verified(b)[id] = RecordOf(b.runs[id])
                    /\ Misses(b.runs[id]) => id \in {v.id : v \in VerifyViolations(b)}
  BY DEF Checked, Verified
<1>1. Verified(b)[id] = RecordOf(b.runs[id])
  BY DEF Verified, RecordOf, Seeded
<1>2. ASSUME Misses(b.runs[id])
      PROVE  id \in {v.id : v \in VerifyViolations(b)}
  <2> DEFINE v == [kind |-> "mode_infeasible", id |-> id]
  <2>1. v \in VerifyViolations(b)
    BY <1>2 DEF VerifyViolations, Misses
  <2>2. v.id = id
    OBVIOUS
  <2> HIDE DEF v
  <2> QED BY <2>1, <2>2
<1> QED BY <1>1, <1>2

\* What a demand leaves on the clone.
Landed(m, n, runs, verified, found, S) ==
  /\ IsRecord(n) /\ Present(n, S)
  /\ LitBesides(n.lightpaths, m.lightpaths, runs)
  /\ \A id \in DOMAIN runs : RunOn(m, runs[id])
  /\ Checked(runs, verified, found)

AllClear(runs) == \A a, b \in DOMAIN runs : a # b => Clear(runs[a], runs[b])

\* A service without paths comes in.
Entered(m, n, S, id, s) ==
  /\ IsRecord(n) /\ n.lightpaths = m.lightpaths /\ n.qot = m.qot /\ n.ipLinks = m.ipLinks
  /\ Present(n, S \cup {id}) /\ n.services[id] = s /\ OthersKept(m, n, id)

LEMMA ServiceAdded ==
  ASSUME NEW m, IsRecord(m), NEW S, Present(m, S), NEW id, id \notin DOMAIN m.services,
         NEW s, IsService(s), s.working = <<>>, s.protection = <<>>,
         NEW n, n = AddService(m, id, s)
  PROVE  Entered(m, n, S, id, s)
<1> DEFINE services == Put(m.services, id, s)
<1>1. n = [m EXCEPT !.services = services]
  BY Zenon DEF AddService
<1>2. /\ DOMAIN services = DOMAIN m.services \cup {id} /\ services[id] = s
      /\ \A t \in DOMAIN m.services : services[t] = m.services[t]
  BY DEF Put
<1> HIDE DEF services
<1>3. Is([m EXCEPT !.services = services], m.lightpaths, m.before, m.qot, m.ipLinks, services,
         m.failed, m.impair)
  BY SetField DEF IsRecord
<1>4. Is(n, m.lightpaths, m.before, m.qot, m.ipLinks, services, m.failed, m.impair)
  BY <1>1, <1>3
<1>5. /\ IsRecord(n) /\ n.lightpaths = m.lightpaths /\ n.qot = m.qot
      /\ n.ipLinks = m.ipLinks /\ n.services = services
  BY <1>4, IsFields
<1>6. Range(<<>>) = {}
  BY DEF Range
<1>7. AllPresent(n, s.working) /\ AllPresent(n, s.protection)
  BY <1>6 DEF AllPresent
<1>8. Present(n, S \cup {id})
  <2> SUFFICES ASSUME NEW t \in S \cup {id}
               PROVE  /\ t \in DOMAIN services /\ IsService(services[t])
                      /\ AllPresent(n, services[t].working) /\ AllPresent(n, services[t].protection)
    BY <1>5 DEF Present
  <2>1. CASE t = id
    BY <1>2, <1>7, <2>1
  <2>2. CASE t # id
    BY <1>2, <1>5, <2>2 DEF Present, AllPresent
  <2> QED BY <2>1, <2>2
<1> QED BY <1>2, <1>5, <1>8 DEF OthersKept, Entered

\* Sections are no ROADMs.
SectionsApart == \A x \in DOMAIN Roadm : Roadm[x] \notin OMS

\* Placements with no key in common have no section in common.
NoneShared(p, q) == Range(Sections(p.legs)) \cap Range(Sections(q.legs)) = {}

LEMMA KeysApart ==
  ASSUME SectionsApart, NEW d, d.basis \in {"physical", "union"}, NEW p, NEW q,
         Sections(p.legs) \in Seq(OMS), KeysOf(d, p) \cap KeysOf(d, q) = {}
  PROVE  NoneShared(p, q)
<1> DEFINE a == Sections(p.legs)
           b == Sections(q.legs)
           ends == {d.src, d.dst}
           A == KeysOf(d, p)
           B == KeysOf(d, q)
<1> SUFFICES ASSUME NEW o \in Range(a), o \in Range(b) PROVE FALSE
  BY DEF NoneShared
<1>1. o \in OMS
  BY RangeOfSeq
<1>2. o \notin EndRoadms(ends)
  BY <1>1 DEF SectionsApart, EndRoadms
<1>3. <<"phys", o>> \in Phys(PhysicalOf(a, ends)) /\ <<"phys", o>> \in Phys(PhysicalOf(b, ends))
  BY <1>2 DEF Phys, PhysicalOf, Footprint, OmsAssets
<1>4. <<"phys", o>> \in A /\ <<"phys", o>> \in B
  BY <1>3, Zenon DEF KeysOf, PlacementKeys, PathBasisKeys, PhysicalKeys
<1> HIDE DEF A, B
<1>5. A \cap B = {}
  BY DEF A, B
<1> QED BY <1>4, <1>5

LEMMA RunsClear ==
  ASSUME NEW m, NEW p, NEW q, NEW a, RunsFit(m, a, p.legs), NEW b, RunsFit(m, b, q.legs),
         NoneShared(p, q),
         NEW x \in DOMAIN a, NEW y \in DOMAIN b
  PROVE  Clear(a[x], b[y]) /\ Clear(b[y], a[x])
  BY DEF RunsFit, Clear, NoneShared

\* The sides of a protected demand that share nothing physical.
Divided(d) == d.protected => d.basis \in {"physical", "union"} /\ ~ d.bestEffort

\* A model with more lit and more links.
Grown(m, n) ==
  LinksKept(m, n) /\ \A id \in Lit(m) : id \in Lit(n) /\ n.lightpaths[id] = m.lightpaths[id]

\* The links of a path ride lightpaths over sections of these legs.
Over(n, path, legs) ==
  \A k \in Range(path) :
    /\ k \in DOMAIN n.ipLinks /\ n.ipLinks[k].lightpath \in Lit(n)
    /\ OmsOf(n, n.ipLinks[k].lightpath) \subseteq Range(Sections(legs))

LEMMA StillOver ==
  ASSUME NEW m, NEW path, NEW legs, Over(m, path, legs), NEW n, Grown(m, n)
  PROVE  Over(n, path, legs)
  BY DEF Over, Grown, LinksKept, OmsOf

LEMMA RidesOver ==
  ASSUME NEW m, OnPaths(m), NEW legs, LegsFit(m, legs), NEW base, Grown(m, base), NEW n, Grown(base, n),
         NEW k, RidesSome(n, base, k, Range(legs))
  PROVE  /\ k \in DOMAIN n.ipLinks /\ n.ipLinks[k].lightpath \in Lit(n)
         /\ OmsOf(n, n.ipLinks[k].lightpath) \subseteq Range(Sections(legs))
<1>1. PICK leg \in Range(legs) : RidesLeg(n, base, k, leg)
  BY DEF RidesSome
<1>2. PICK i \in 1 .. Len(legs) : leg = legs[i]
  <2>1. legs \in Seq(Range(legs))
    BY DEF LegsFit
  <2>2. Range(legs) = {legs[i] : i \in 1 .. Len(legs)}
    BY <2>1, RangeEquality
  <2> QED BY <2>2
<1>3. Range(leg.oms) \subseteq Range(Sections(legs))
  BY <1>2, SectionsAre
<1> DEFINE id == n.ipLinks[k].lightpath
<1>4. k \in DOMAIN n.ipLinks
  BY <1>1 DEF RidesLeg, Grown, LinksKept
<1>5. id \in Lit(n) /\ n.lightpaths[id].oms = leg.oms
  <2>1. CASE IsNew(leg)
    BY <1>1, <2>1 DEF RidesLeg, RunSpec
  <2>2. CASE ~ IsNew(leg)
    <3>1. id = leg.id /\ OldLeg(m, leg)
      BY <1>1, <1>2, <2>2 DEF RidesLeg, LegsFit
    <3>2. PICK x \in Lit(m) : leg = Leg(x, m.lightpaths[x].oms)
      BY <3>1 DEF OldLeg
    <3>3. leg.id = x /\ leg.oms = m.lightpaths[x].oms
      BY <3>2 DEF Leg
    <3>4. x \in Lit(n) /\ n.lightpaths[x] = m.lightpaths[x]
      BY DEF Grown
    <3> QED BY <3>1, <3>3, <3>4
  <2> QED BY <2>1, <2>2
<1> QED BY <1>3, <1>4, <1>5 DEF OmsOf

\* One side of a service stands on the sections of its legs.
Sided(u, m, s, which, legs) ==
  u.ok => \E path :
    /\ Rerouted(m, u.model, s, which, path)
    /\ m.services[s].src # m.services[s].dst => path # <<>>
    /\ LinksNamed => Over(u.model, path, legs)

\* One side.
LEMMA SideLands ==
  ASSUME NEW m, OnPaths(m), NEW p, LegsFit(m, p.legs), Materializable(m, p),
         NEW n, IsRecord(n), NEW S, Present(n, S), Grown(m, n),
         NEW s \in S, NEW prefix, NEW which, NEW b, b = ApplyCandidate(n, p, s, prefix, which)
  PROVE  /\ IsRecord(b.model) /\ Present(b.model, S)
         /\ LitBesides(b.model.lightpaths, n.lightpaths, b.runs)
         /\ RunsFit(m, b.runs, p.legs) /\ Checked(b.runs, Verified(b), VerifyViolations(b))
         /\ Grown(n, b.model) /\ Sided(b, n, s, which, p.legs)
<1>1. p.legs \in Seq(Range(p.legs))
  BY DEF LegsFit
<1>2. Materializable(n, p)
  BY DEF Materializable, BoundLinks, Grown, LinksKept
<1>3. /\ Lighted(b, n, NewLegs(p.legs), Len(NewLegs(p.legs)), S)
      /\ Steered(b, n, s, which, Range(p.legs))
  BY <1>1, <1>2, CandidateBuilt
<1>4. RunsFit(m, b.runs, p.legs)
  BY <1>3, RunsAre DEF Lighted
<1>5. Grown(n, b.model)
  BY <1>3 DEF Lighted, LitBesides, Grown, Lit
<1>6. Sided(b, n, s, which, p.legs)
  <2> SUFFICES ASSUME b.ok
               PROVE  \E path : /\ Rerouted(n, b.model, s, which, path)
                                /\ n.services[s].src # n.services[s].dst => path # <<>>
                                /\ LinksNamed => Over(b.model, path, p.legs)
    BY DEF Sided
  <2>1. PICK path : /\ Rerouted(n, b.model, s, which, path)
                    /\ n.services[s].src # n.services[s].dst => path # <<>>
                    /\ LinksNamed => \A k \in Range(path) : RidesSome(b.model, n, k, Range(p.legs))
    BY <1>3 DEF Steered
  <2> DEFINE legs == p.legs
             u == b.model
  <2>2. LegsFit(m, legs) /\ Grown(n, u) /\ (LinksNamed => \A k \in Range(path) : RidesSome(u, n, k, Range(legs)))
    BY <1>5, <2>1
  <2> HIDE DEF legs, u
  <2>3. LinksNamed => Over(u, path, legs)
    BY <2>2, RidesOver DEF Over
  <2> QED BY <2>1, <2>3 DEF legs, u
<1> QED BY <1>3, <1>4, <1>5, <1>6, VerifiedIs DEF Lighted

\* What a demand adds: both its sides on the sections they were placed on.
Settled(m, n, d, picks) ==
  /\ Grown(m, n) /\ OthersKept(m, n, d.id)
  /\ LinksNamed /\ d.protected /\ RouterAt[d.src] # RouterAt[d.dst] =>
       /\ d.id \in DOMAIN n.services
       /\ n.services[d.id].working # <<>> /\ Over(n, n.services[d.id].working, picks[1].legs)
       /\ n.services[d.id].protection # <<>> /\ Over(n, n.services[d.id].protection, picks[2].legs)

LEMMA LandIs ==
  ASSUME NEW m, OnPaths(m), NEW d, NEW picks, Serves(m, d, picks),
         NEW start, IsRecord(start), start.lightpaths = m.lightpaths, start.ipLinks = m.ipLinks,
         start.services[d.id] = ServiceOf(d), OthersKept(m, start, d.id),
         NEW S, Present(start, S), d.id \in S,
         NEW builds, builds = Land(start, d, picks), \A b \in Range(builds) : b.ok,
         NEW n, n = builds[Len(builds)].model, NEW verified, verified = Merge(builds, Verified),
         NEW found, found = UNION {VerifyViolations(b) : b \in Range(builds)}
  PROVE  /\ \E runs : /\ Landed(m, n, runs, verified, found, S)
                      /\ SectionsApart /\ Divided(d) => AllClear(runs)
         /\ Settled(m, n, d, picks)
<1> DEFINE b1 == ApplyCandidate(start, picks[1], d.id, "cand", "working")
           b2 == ApplyCandidate(b1.model, picks[2], d.id, "prot", "protection")
<1>1. builds = <<b1>> \/ (builds = <<b1, b2>> /\ b1.ok)
  BY DEF Land
<1>2. Len(picks) = 1 \/ (Len(picks) = 2 /\ d.protected)
  BY DEF Serves
<1>3. builds = <<b1>> => Len(picks) = 1
  <2> SUFFICES ASSUME builds = <<b1>>, Len(picks) # 1 PROVE FALSE
    OBVIOUS
  <2>1. b1 \in Range(<<b1>>)
    BY DEF Range
  <2>2. b1.ok
    BY <2>1
  <2>3. builds = <<b1, b2>>
    BY <2>2 DEF Land
  <2> HIDE DEF b1, b2
  <2> QED BY <2>3
<1>4. /\ LegsFit(m, picks[1].legs) /\ Materializable(m, picks[1])
      /\ Len(picks) = 2 => LegsFit(m, picks[2].legs) /\ Materializable(m, picks[2])
  <2>1. picks \in Seq(Range(picks))
    BY DEF Serves, Buildable, AllFit
  <2>2. \A i \in 1 .. Len(picks) : picks[i] \in Range(picks)
    BY <2>1, ElementOfSeq
  <2> QED BY <1>2, <2>2 DEF Serves, Buildable, AllFit
<1>9. Grown(m, start)
  BY DEF Grown, LinksKept, Lit
<1>10. start.services[d.id].src = RouterAt[d.src] /\ start.services[d.id].dst = RouterAt[d.dst]
  BY DEF ServiceOf
<1>5. /\ IsRecord(b1.model) /\ Present(b1.model, S)
      /\ LitBesides(b1.model.lightpaths, m.lightpaths, b1.runs)
      /\ RunsFit(m, b1.runs, picks[1].legs) /\ Checked(b1.runs, Verified(b1), VerifyViolations(b1))
      /\ Grown(start, b1.model) /\ Sided(b1, start, d.id, "working", picks[1].legs)
  <2> DEFINE p == picks[1]
  <2>1. /\ b1 = ApplyCandidate(start, p, d.id, "cand", "working")
        /\ LegsFit(m, p.legs) /\ Materializable(m, p)
    BY <1>4
  <2> HIDE DEF b1, p
  <2>2. /\ IsRecord(b1.model) /\ Present(b1.model, S)
        /\ LitBesides(b1.model.lightpaths, start.lightpaths, b1.runs)
        /\ RunsFit(m, b1.runs, p.legs) /\ Checked(b1.runs, Verified(b1), VerifyViolations(b1))
        /\ Grown(start, b1.model) /\ Sided(b1, start, d.id, "working", p.legs)
    BY <1>9, <2>1, SideLands, Zenon
  <2> QED BY <2>2 DEF p
<1> HIDE DEF b1
<1>11. b1.ok
  BY <1>1 DEF Range
<1>12. PICK path : /\ Rerouted(start, b1.model, d.id, "working", path)
                   /\ RouterAt[d.src] # RouterAt[d.dst] => path # <<>>
                   /\ LinksNamed => Over(b1.model, path, picks[1].legs)
  BY <1>5, <1>10, <1>11 DEF Sided
<1>13. Grown(m, b1.model) /\ OthersKept(m, b1.model, d.id)
  BY <1>5, <1>12 DEF Grown, LinksKept, Rerouted, OthersKept, Lit
<1>6. CASE builds = <<b1>>
  <2>1. n = b1.model /\ verified = Verified(b1) /\ Range(builds) = {b1}
    BY <1>6 DEF Merge, Range
  <2>2. found = VerifyViolations(b1)
    BY <2>1
  <2>3. Landed(m, n, b1.runs, verified, found, S)
    BY <1>5, <2>1, <2>2 DEF Landed, RunsFit
  <2>4. AllClear(b1.runs)
    BY <1>5 DEF AllClear, RunsFit
  <2>5. ~ d.protected
    BY <1>3, <1>6 DEF Serves
  <2>6. Settled(m, n, d, picks)
    BY <1>13, <2>1, <2>5 DEF Settled
  <2> QED BY <2>3, <2>4, <2>6
<1>7. CASE builds = <<b1, b2>> /\ Len(picks) = 2
  <2>1. /\ IsRecord(b2.model) /\ Present(b2.model, S)
        /\ LitBesides(b2.model.lightpaths, b1.model.lightpaths, b2.runs)
        /\ RunsFit(m, b2.runs, picks[2].legs) /\ Checked(b2.runs, Verified(b2), VerifyViolations(b2))
        /\ Grown(b1.model, b2.model) /\ Sided(b2, b1.model, d.id, "protection", picks[2].legs)
    <3> DEFINE p == picks[2]
               k == b1.model
    <3>1. b2 = ApplyCandidate(k, p, d.id, "prot", "protection") /\ LegsFit(m, p.legs) /\ Materializable(m, p)
          /\ IsRecord(k) /\ Present(k, S) /\ Grown(m, k)
      BY <1>4, <1>5, <1>7, <1>13
    <3> HIDE DEF b2, p, k
    <3>2. /\ IsRecord(b2.model) /\ Present(b2.model, S)
          /\ LitBesides(b2.model.lightpaths, k.lightpaths, b2.runs)
          /\ RunsFit(m, b2.runs, p.legs) /\ Checked(b2.runs, Verified(b2), VerifyViolations(b2))
          /\ Grown(k, b2.model) /\ Sided(b2, k, d.id, "protection", p.legs)
      BY <3>1, SideLands, Zenon
    <3> QED BY <3>2 DEF p, k
  <2> HIDE DEF b2
  <2> DEFINE runs == Overlay(b2.runs, b1.runs)
  <2>2. /\ n = b2.model /\ verified = Overlay(Verified(b2), Verified(b1)) /\ Range(builds) = {b1, b2}
    BY <1>7 DEF Merge, Range
  <2>3. found = VerifyViolations(b1) \cup VerifyViolations(b2)
    BY <2>2
  <2>4. /\ DOMAIN runs = DOMAIN b1.runs \cup DOMAIN b2.runs /\ DOMAIN b1.runs \cap DOMAIN b2.runs = {}
        /\ \A id \in DOMAIN b1.runs : runs[id] = b1.runs[id]
        /\ \A id \in DOMAIN b2.runs : runs[id] = b2.runs[id]
    BY <1>5, <2>1 DEF Overlay, LitBesides
  <2>5. /\ DOMAIN verified = DOMAIN runs
        /\ \A id \in DOMAIN b1.runs : verified[id] = Verified(b1)[id]
        /\ \A id \in DOMAIN b2.runs : verified[id] = Verified(b2)[id]
    BY <1>5, <2>1, <2>2, <2>4 DEF Overlay, Checked
  <2> HIDE DEF runs
  <2>6. LitBesides(n.lightpaths, m.lightpaths, runs)
    <3>1. IsFiniteSet(DOMAIN runs)
      <4>1. IsFiniteSet(DOMAIN b1.runs) /\ IsFiniteSet(DOMAIN b2.runs)
        BY <1>5, <2>1 DEF LitBesides
      <4>2. IsFiniteSet(DOMAIN b1.runs \cup DOMAIN b2.runs)
        <5> DEFINE x == DOMAIN b1.runs
                   y == DOMAIN b2.runs
        <5>1. IsFiniteSet(x) /\ IsFiniteSet(y)
          BY <4>1
        <5> HIDE DEF x, y
        <5>2. IsFiniteSet(x \cup y)
          BY <5>1, FS_Union
        <5> QED BY <5>2 DEF x, y
      <4> QED BY <2>4, <4>2
    <3> QED BY <1>5, <2>1, <2>2, <2>4, <3>1 DEF LitBesides
  <2>7. Checked(runs, verified, found)
    <3>1. \A x \in {b1, b2} : {v.id : v \in VerifyViolations(x)} \subseteq {v.id : v \in found}
      BY <2>3
    <3>2. ASSUME NEW x \in {b1, b2}, NEW id \in DOMAIN x.runs
          PROVE  runs[id] = x.runs[id] /\ verified[id] = Verified(x)[id]
      BY <2>4, <2>5
    <3>3. \A x \in {b1, b2} : Checked(x.runs, Verified(x), VerifyViolations(x))
      BY <1>5, <2>1
    <3>4. \A id \in DOMAIN runs : \E x \in {b1, b2} : id \in DOMAIN x.runs
      BY <2>4
    <3> QED BY <2>5, <3>1, <3>2, <3>3, <3>4 DEF Checked
  <2>8. \A id \in DOMAIN runs : RunOn(m, runs[id])
    BY <1>5, <2>1, <2>4 DEF RunsFit
  <2>9. Landed(m, n, runs, verified, found, S)
    BY <2>1, <2>2, <2>6, <2>7, <2>8 DEF Landed
  <2>10. ASSUME SectionsApart, Divided(d)
         PROVE  AllClear(runs)
    <3> DEFINE p == picks[1]
               q == picks[2]
    <3>1. d.basis \in {"physical", "union"} /\ KeysOf(d, p) \cap KeysOf(d, q) = {}
      BY <1>2, <1>7, <2>10 DEF Divided, Serves
    <3>2. Sections(p.legs) \in Seq(OMS)
      BY <1>4, SectionsAre
    <3>3. RunsFit(m, b1.runs, p.legs) /\ RunsFit(m, b2.runs, q.legs)
      BY <1>5, <2>1
    <3> HIDE DEF p, q
    <3>4. NoneShared(p, q)
      BY <2>10, <3>1, <3>2, KeysApart
    <3>5. \A x \in DOMAIN b1.runs, y \in DOMAIN b2.runs :
            Clear(b1.runs[x], b2.runs[y]) /\ Clear(b2.runs[y], b1.runs[x])
      BY <3>3, <3>4, RunsClear
    <3> QED BY <2>4, <3>3, <3>5 DEF AllClear, RunsFit
  <2>11. b2.ok
    BY <1>7 DEF Range
  <2> DEFINE k == b1.model
             y == b2.model
             i == d.id
  <2>12. PICK back : /\ Rerouted(k, y, i, "protection", back)
                     /\ k.services[i].src # k.services[i].dst => back # <<>>
                     /\ LinksNamed => Over(y, back, picks[2].legs)
    BY <2>1, <2>11 DEF Sided
  <2>13. Rerouted(start, k, i, "working", path) /\ Grown(k, y) /\ Grown(m, k) /\ OthersKept(m, k, i)
         /\ (RouterAt[d.src] # RouterAt[d.dst] => path # <<>>) /\ (LinksNamed => Over(k, path, picks[1].legs))
         /\ start.services[i].src = RouterAt[d.src] /\ start.services[i].dst = RouterAt[d.dst]
    BY <1>10, <1>12, <1>13, <2>1
  <2> HIDE DEF k, y, i
  <2>14. Grown(m, y) /\ OthersKept(m, y, i)
    BY <2>12, <2>13 DEF Grown, LinksKept, Rerouted, OthersKept, Lit
  <2>15. LinksNamed => Over(y, path, picks[1].legs)
    BY <2>13, StillOver
  <2>16. /\ i \in DOMAIN y.services /\ y.services[i].working = path /\ y.services[i].protection = back
         /\ k.services[i].src = RouterAt[d.src] /\ k.services[i].dst = RouterAt[d.dst]
    BY <2>12, <2>13 DEF Rerouted
  <2>17. y = n /\ i = d.id
    BY <2>2 DEF y, i
  <2>18. Settled(m, n, d, picks)
    BY <2>12, <2>13, <2>14, <2>15, <2>16, <2>17 DEF Settled
  <2> QED BY <2>9, <2>10, <2>18
<1> HIDE DEF b2
<1>8. CASE builds = <<b1, b2>> /\ Len(picks) = 1
  <2>1. builds = <<b1>>
    BY <1>8 DEF Land, b1
  <2> QED BY <1>8, <2>1
<1> QED BY <1>1, <1>2, <1>6, <1>7, <1>8

-------------------------------------------------------------------------------
(* Transponders.                                                           *)

\* The ends of two lists of legs are those of both.
LEMMA EndsAdd ==
  ASSUME NEW A, NEW a \in Seq(A), NEW b \in Seq(A), NEW n
  PROVE  /\ EndsAt(a \o b, n) = EndsAt(a, n) + EndsAt(b, n)
         /\ EndsAt(a, n) \in Nat /\ EndsAt(b, n) \in Nat
<1> DEFINE from == {leg \in A : IsNew(leg) /\ From(leg) = n}
           to == {leg \in A : IsNew(leg) /\ To(leg) = n}
<1>1. ASSUME NEW s \in Seq(A)
      PROVE  EndsAt(s, n) = CountIn(s, from) + CountIn(s, to)
  <2>1. \A i \in DOMAIN s : s[i] \in A
    OBVIOUS
  <2>2. /\ {i \in DOMAIN s : s[i] \in from} = {i \in DOMAIN s : IsNew(s[i]) /\ From(s[i]) = n}
        /\ {i \in DOMAIN s : s[i] \in to} = {i \in DOMAIN s : IsNew(s[i]) /\ To(s[i]) = n}
    BY <2>1
  <2> QED BY <2>2 DEF EndsAt, CountIn
<1> HIDE DEF from, to
<1> DEFINE c == a \o b
<1>2. c \in Seq(A)
  BY ConcatProperties
<1>3. /\ CountIn(c, from) = CountIn(a, from) + CountIn(b, from)
      /\ CountIn(a, from) \in Nat /\ CountIn(b, from) \in Nat
  BY CountsAdd
<1>4. /\ CountIn(c, to) = CountIn(a, to) + CountIn(b, to)
      /\ CountIn(a, to) \in Nat /\ CountIn(b, to) \in Nat
  BY CountsAdd
<1> HIDE DEF c
<1>5. /\ EndsAt(a, n) = CountIn(a, from) + CountIn(a, to)
      /\ EndsAt(b, n) = CountIn(b, from) + CountIn(b, to)
      /\ EndsAt(c, n) = CountIn(c, from) + CountIn(c, to)
  BY <1>1, <1>2
<1>6. EndsAt(c, n) = EndsAt(a, n) + EndsAt(b, n) /\ EndsAt(a, n) \in Nat /\ EndsAt(b, n) \in Nat
  BY <1>3, <1>4, <1>5
<1> QED BY <1>6 DEF c

\* The legs of one demand, and of all that landed.
LegsOfPicks(picks) == FlattenSeq(Mapped(picks, LAMBDA p : p.legs))
LegsOfPlaced(s) == Mapped(s, LAMBDA p : FlattenSeq(Mapped(p.picks, LAMBDA q : q.legs)))

\* A leg is as good as any.
LEMMA PickLegsAre ==
  ASSUME NEW m, NEW picks, AllFit(m, picks)
  PROVE  \E A : LegsOfPicks(picks) \in Seq(A)
<1> DEFINE n == Len(picks)
           f == [i \in 1 .. n |-> picks[i].legs]
           A == UNION {Range(picks[i].legs) : i \in 1 .. n}
<1>1. n \in Nat /\ DOMAIN picks = 1 .. n
  BY LenProperties DEF AllFit
<1>2. LegsOfPicks(picks) = FlattenSeq(<<>> \o f)
  BY <1>1 DEF LegsOfPicks, Mapped
<1>3. \A i \in 1 .. n : picks[i].legs \in Seq(A)
  <2> SUFFICES ASSUME NEW i \in 1 .. n PROVE picks[i].legs \in Seq(A)
    OBVIOUS
  <2>1. picks[i].legs \in Seq(Range(picks[i].legs))
    BY DEF AllFit, LegsFit
  <2>2. Range(picks[i].legs) \subseteq A
    OBVIOUS
  <2> HIDE DEF A
  <2> QED BY <2>1, <2>2, SeqMonotonic
<1> HIDE DEF A
<1>4. f = [i \in 1 .. n |-> f[i]] /\ \A i \in 1 .. n : f[i] \in Seq(A)
  BY <1>3
<1> HIDE DEF f, n
<1>5. f \in Seq({f[i] : i \in 1 .. n}) /\ <<>> \o f = f
  BY <1>1, <1>4, SeqOfFcn
<1>6. f \in Seq(Seq(A))
  <2>1. {f[i] : i \in 1 .. n} \subseteq Seq(A)
    BY <1>4
  <2> QED BY <1>5, <2>1, SeqMonotonic
<1>7. LegsOfPicks(picks) = FlattenSeq(f)
  BY <1>2, <1>5, Zenon
<1>8. FlattenSeq(f) \in Seq(A)
  BY <1>6, FlattenRange
<1> QED BY <1>7, <1>8

LEMMA PlacedLegsAppend ==
  ASSUME NEW P, NEW s \in Seq(P), NEW r \in P
  PROVE  LegsOfPlaced(Append(s, r)) = Append(LegsOfPlaced(s), LegsOfPicks(r.picks))
<1> DEFINE n == Len(s)
           t == Append(s, r)
           f == [i \in 1 .. n |-> LegsOfPicks(s[i].picks)]
           g == [i \in 1 .. n + 1 |-> LegsOfPicks(t[i].picks)]
<1>1. /\ n \in Nat /\ DOMAIN s = 1 .. n /\ DOMAIN t = 1 .. n + 1
      /\ t[n + 1] = r /\ \A i \in 1 .. n : t[i] = s[i]
  BY AppendProperties, LenProperties
<1>2. LegsOfPlaced(s) = <<>> \o f /\ LegsOfPlaced(t) = <<>> \o g
  BY <1>1 DEF LegsOfPlaced, LegsOfPicks, Mapped
<1>3. f = [i \in 1 .. n |-> f[i]] /\ g = [i \in 1 .. n + 1 |-> g[i]]
  OBVIOUS
<1>4. /\ n + 1 \in 1 .. n + 1 /\ \A i \in 1 .. n : i \in 1 .. n + 1
      /\ \A i \in 1 .. n + 1 : i \in 1 .. n \/ i = n + 1
  BY <1>1
<1>5. g[n + 1] = LegsOfPicks(r.picks) /\ \A i \in 1 .. n : g[i] = f[i]
  <2> HIDE DEF t
  <2> QED BY <1>1, <1>4
<1> DEFINE x == LegsOfPicks(r.picks)
           B == {f[i] : i \in 1 .. n} \cup {x}
           h == Append(f, x)
<1> HIDE DEF f, g, n, x
<1>6. <<>> \o f = f /\ f \in Seq({f[i] : i \in 1 .. n}) /\ Len(f) = n
  BY <1>1, <1>3, SeqOfFcn
<1>7. n + 1 \in Nat
  BY <1>1
<1>8. <<>> \o g = g
  <2> DEFINE k == n + 1
  <2>1. k \in Nat /\ g = [i \in 1 .. k |-> g[i]]
    BY <1>3, <1>7
  <2> HIDE DEF k
  <2> QED BY <2>1, SeqOfFcn
<1>9. f \in Seq(B) /\ x \in B
  BY <1>6, SeqMonotonic
<1> HIDE DEF B
<1>10. /\ h = [i \in 1 .. n + 1 |-> h[i]]
       /\ h[n + 1] = x /\ \A i \in 1 .. n : h[i] = f[i]
  <2>1. /\ h \in Seq(B) /\ Len(h) = Len(f) + 1
        /\ \A i \in 1 .. Len(f) : h[i] = f[i]
        /\ h[Len(f) + 1] = x
    BY <1>9, AppendProperties
  <2> HIDE DEF h
  <2>2. h = [i \in 1 .. Len(h) |-> h[i]]
    BY <2>1, LenProperties
  <2>3. Len(h) = n + 1
    BY <1>6, <2>1
  <2> QED BY <1>6, <2>1, <2>2, <2>3
<1> HIDE DEF h
<1>11. g = h
  <2>1. \A i \in 1 .. n + 1 : g[i] = h[i]
    BY <1>4, <1>5, <1>10 DEF x
  <2> QED BY <1>3, <1>10, <2>1
<1>12. LegsOfPlaced(s) = f
  BY <1>2, <1>6, Zenon
<1>13. LegsOfPlaced(t) = g
  BY <1>2, <1>8, Zenon
<1>14. LegsOfPlaced(t) = Append(LegsOfPlaced(s), x)
  BY <1>11, <1>12, <1>13 DEF h
<1> QED BY <1>14 DEF x, t

\* What is left and what the lists of legs end on are what there was.
Tallied(left, lists) ==
  /\ left \in [Nodes -> Nat] /\ \E A : lists \in Seq(Seq(A))
  /\ \A n \in Nodes : left[n] + EndsAt(FlattenSeq(lists), n) = Spare[n]

LEMMA NothingTallied == Tallied(Spare, <<>>)
<1>1. <<>> \in Seq(Seq({})) /\ Len(<<>>) = 0
  OBVIOUS
<1>2. PICK h : Flattens(h, <<>>, {}) /\ FlattenSeq(<<>>) = h[Len(<<>>)]
  BY <1>1, FlattenIs
<1>3. FlattenSeq(<<>>) = <<>>
  BY <1>1, <1>2 DEF Flattens
<1>4. \A n : EndsAt(<<>>, n) = 0
  <2> SUFFICES ASSUME NEW n PROVE EndsAt(<<>>, n) = 0
    OBVIOUS
  <2>1. /\ {i \in DOMAIN <<>> : IsNew(<<>>[i]) /\ From(<<>>[i]) = n} = {}
        /\ {i \in DOMAIN <<>> : IsNew(<<>>[i]) /\ To(<<>>[i]) = n} = {}
    OBVIOUS
  <2>2. EndsAt(<<>>, n) = Cardinality({}) + Cardinality({})
    BY <2>1, Zenon DEF EndsAt
  <2>3. Cardinality({}) = 0
    BY FS_EmptySet
  <2> QED BY <2>2, <2>3
<1>5. \A n \in Nodes : Spare[n] \in Nat
  BY PackAssumption
<1> QED BY <1>1, <1>3, <1>4, <1>5, PackAssumption DEF Tallied

LEMMA OneMoreTallied ==
  ASSUME NEW left, NEW lists, Tallied(left, lists), NEW B, NEW x \in Seq(B),
         \A n \in Nodes : EndsAt(x, n) <= left[n],
         NEW now, now = [n \in Nodes |-> left[n] - EndsAt(x, n)]
  PROVE  Tallied(now, Append(lists, x))
<1>1. PICK A : lists \in Seq(Seq(A))
  BY DEF Tallied
<1> DEFINE C == A \cup B
           more == Append(lists, x)
<1>2. Seq(A) \subseteq Seq(C) /\ Seq(B) \subseteq Seq(C)
  BY SeqMonotonic
<1> HIDE DEF C
<1>3. lists \in Seq(Seq(C)) /\ x \in Seq(C)
  BY <1>1, <1>2, SeqMonotonic
<1>4. more \in Seq(Seq(C))
  BY <1>3, AppendProperties
<1>5. FlattenSeq(more) = FlattenSeq(lists) \o x /\ FlattenSeq(lists) \in Seq(C)
  BY <1>3, FlattenAppend, FlattenRange
<1>6. ASSUME NEW n \in Nodes
      PROVE  now[n] \in Nat /\ now[n] + EndsAt(FlattenSeq(more), n) = Spare[n]
  <2> DEFINE s == FlattenSeq(lists)
  <2>1. EndsAt(s \o x, n) = EndsAt(s, n) + EndsAt(x, n) /\ EndsAt(s, n) \in Nat /\ EndsAt(x, n) \in Nat
    <3>1. s \in Seq(C)
      BY <1>5
    <3> HIDE DEF s
    <3> QED BY <1>3, <3>1, EndsAdd
  <2>2. left[n] \in Nat /\ left[n] + EndsAt(s, n) = Spare[n] /\ EndsAt(x, n) <= left[n]
    BY DEF Tallied
  <2>3. now[n] = left[n] - EndsAt(x, n)
    OBVIOUS
  <2>4. EndsAt(FlattenSeq(more), n) = EndsAt(s \o x, n)
    BY <1>5
  <2> HIDE DEF more, s
  <2> QED BY <2>1, <2>2, <2>3, <2>4
<1>7. now \in [Nodes -> Nat]
  BY <1>6
<1>8. Tallied(now, more)
  BY <1>4, <1>6, <1>7 DEF Tallied
<1> QED BY <1>8 DEF more

-------------------------------------------------------------------------------
(* The solve.                                                              *)

\* What a solve is given: models whose lightpaths run over sections, and
\* finite lists of demands.
Starts == \A m \in PackModels : IsRecord(m) /\ IsFiniteSet(Lit(m)) /\ OnPaths(m)
PackDemands == UNION {Range(l) : l \in PackLists}
Queues == \A l \in PackLists : l \in Seq(PackDemands)

\* A measurement without a negative margin is feasible.
MarginSign == \A q : q.kind = "measured" /\ q.margin >= 0 => MarginOk(q)

\* What the record of a run is worth.
Trusted(id, lp, q, found) ==
  /\ FillPolicy = "full" => q = SeedOf(lp.mode, Gsnr(lp.oms, lp.slot, Slots))
  /\ Decibels => lp.mode \in Modes /\ q.kind = "measured" /\ (q.margin >= 0 \/ id \in {v.id : v \in found})

PlacedIds == {placed[i].demand.id : i \in DOMAIN placed}

Solving == todo \in Seq(PackDemands) /\ IsRecord(work) /\ IsFiniteSet(Lit(work)) /\ OnPaths(work)

Kept ==
  /\ NewIds \subseteq DOMAIN seeded /\ DOMAIN seeded \subseteq Lit(work)
  /\ \A id \in DOMAIN seeded :
       /\ id \in DOMAIN work.qot /\ work.qot[id] = seeded[id]
       /\ Trusted(id, work.lightpaths[id], seeded[id], violations)

Served == (\E P : placed \in Seq(P)) /\ Present(work, PlacedIds)

Counted == Tallied(inv, LegsOfPlaced(placed))

AInv == Solving /\ Kept /\ Served /\ Counted

\* A verified record is one to trust.
LEMMA RecordIsTrusted ==
  ASSUME NEW m, NEW leg, RunOn(m, leg), NEW id, NEW found, Misses(leg) => id \in {v.id : v \in found}
  PROVE  Trusted(id, RunSpec(leg), RecordOf(leg), found)
<1> DEFINE q == RecordOf(leg)
           lp == RunSpec(leg)
           exact == Gsnr(leg.oms, leg.slot, Slots)
<1>1. lp.oms = leg.oms /\ lp.mode = leg.mode /\ lp.slot = leg.slot
  BY DEF RunSpec
<1>2. PICK seen, comb :
         /\ leg.gsnr = WorseDirection(seen, leg.oms, leg.slot, comb)
         /\ leg.mode = BestFeasibleMode(leg.gsnr)
         /\ leg.estimated = CanCompose(seen, leg.oms, comb)
         /\ FillPolicy = "full" => comb = Slots
  BY DEF RunOn, ProbedRun
<1>3. CASE leg.estimated
  <2>1. q = SeedOf(leg.mode, exact)
    BY <1>3 DEF RecordOf, ExactSeed, ExactGsnr
  <2>2. ASSUME Decibels
        PROVE  lp.mode \in Modes /\ q.kind = "measured" /\ (q.margin >= 0 \/ id \in {v.id : v \in found})
    <3>1. leg.mode \in FeasibleModes(leg.gsnr)
      BY <1>2, <2>2, BestModeIn DEF RunOn
    <3>2. leg.mode \in Modes
      BY <3>1 DEF FeasibleModes
    <3>3. q.kind = "measured" /\ q.margin = exact - RequiredGsnr[leg.mode] - DesignMargin
      BY <2>1 DEF SeedOf
    <3>4. exact \in Int /\ RequiredGsnr[leg.mode] \in Int /\ DesignMargin \in Int
      BY <2>2, <3>2, ProbeAssumption DEF Decibels
    <3>5. q.margin < 0 => Misses(leg)
      BY <1>3 DEF Misses, RecordOf
    <3> HIDE DEF q, lp, exact
    <3>6. q.margin >= 0 \/ q.margin < 0
      BY <3>3, <3>4
    <3> QED BY <1>1, <3>2, <3>3, <3>5, <3>6
  <2>3. lp.oms = leg.oms /\ lp.slot = leg.slot /\ q = SeedOf(lp.mode, exact)
    BY <1>1, <2>1
  <2> HIDE DEF q, lp
  <2>4. Trusted(id, lp, q, found)
    BY <2>2, <2>3 DEF Trusted
  <2> QED BY <2>4 DEF q, lp
<1>4. CASE ~ leg.estimated
  <2>1. q = SeedOf(leg.mode, leg.gsnr)
    BY <1>4 DEF RecordOf
  <2>2. leg.gsnr = Gsnr(leg.oms, leg.slot, comb)
    BY <1>2, <1>4 DEF WorseDirection
  <2>3. ASSUME Decibels
        PROVE  lp.mode \in Modes /\ q.kind = "measured" /\ q.margin >= 0
    <3>1. leg.mode \in FeasibleModes(leg.gsnr)
      BY <1>2, <2>3, BestModeIn DEF RunOn
    <3>2. leg.mode \in Modes /\ RequiredGsnr[leg.mode] + DesignMargin <= leg.gsnr
      BY <3>1 DEF FeasibleModes
    <3>3. q.kind = "measured" /\ q.margin = leg.gsnr - RequiredGsnr[leg.mode] - DesignMargin
      BY <2>1 DEF SeedOf
    <3>4. leg.gsnr \in Int /\ RequiredGsnr[leg.mode] \in Int /\ DesignMargin \in Int
      BY <2>2, <2>3, <3>2, ProbeAssumption DEF Decibels
    <3> HIDE DEF q, lp
    <3> QED BY <1>1, <3>2, <3>3, <3>4
  <2>4. FillPolicy = "full" => q = SeedOf(leg.mode, exact)
    BY <1>2, <2>1, <2>2
  <2>5. lp.oms = leg.oms /\ lp.slot = leg.slot /\ (FillPolicy = "full" => q = SeedOf(lp.mode, exact))
    BY <1>1, <2>4
  <2> HIDE DEF q, lp
  <2>6. Trusted(id, lp, q, found)
    BY <2>3, <2>5 DEF Trusted
  <2> QED BY <2>6 DEF q, lp
<1> QED BY <1>3, <1>4

\* What a demand that lands leaves, next to what there was.
LandedOn(d, picks, runs, verified, found) ==
  /\ Serves(work, d, picks)
  /\ Landed(work, work', runs, verified, found, PlacedIds \cup {d.id})
  /\ SectionsApart /\ Divided(d) => AllClear(runs)
  /\ Settled(work, work', d, picks) /\ d.id \notin DOMAIN work.services
  /\ seeded' = Overlay(verified, seeded) /\ violations' = violations \cup found
  /\ \A id \in DOMAIN seeded' : id \in DOMAIN work'.qot /\ work'.qot[id] = seeded'[id]

\* Records written over a model that stays what it is.
LEMMA CorrectedIs ==
  ASSUME NEW m, NEW n, NEW runs, NEW verified, NEW found, NEW S,
         Landed(m, n, runs, verified, found, S), NEW z, z = Corrected(n, verified)
  PROVE  /\ Landed(m, z, runs, verified, found, S)
         /\ \A d, picks : Settled(m, n, d, picks) => Settled(m, z, d, picks)
         /\ \E q : z.qot = Overlay(verified, Overlay(seeded, q))
<1> DEFINE k == Reseed(n, seeded)
<1>1. IsRecord(n)
  BY DEF Landed
<1>2. k = WithRecords(n, Overlay(seeded, n.qot))
  BY Zenon DEF Reseed, WithRecords
<1>3. z = WithRecords(k, Overlay(verified, k.qot))
  BY Zenon DEF Corrected, Reseed, WithRecords
<1> HIDE DEF k
<1>4. IsRecord(k) /\ k.lightpaths = n.lightpaths /\ k.services = n.services
      /\ k.ipLinks = n.ipLinks /\ k.qot = Overlay(seeded, n.qot)
  BY <1>1, <1>2, RecordsPut
<1>5. IsRecord(z) /\ z.lightpaths = k.lightpaths /\ z.services = k.services
      /\ z.ipLinks = k.ipLinks /\ z.qot = Overlay(verified, k.qot)
  BY <1>3, <1>4, RecordsPut
<1>6. Present(z, S)
  <2>1. LinksKept(n, z) /\ z.services = n.services
    BY <1>4, <1>5 DEF LinksKept
  <2> QED BY <2>1, StillPresent DEF Landed
<1>7. Landed(m, z, runs, verified, found, S)
  BY <1>4, <1>5, <1>6 DEF Landed
<1>8. z.qot = Overlay(verified, Overlay(seeded, n.qot))
  BY <1>4, <1>5
<1>9. ASSUME NEW d, NEW picks, Settled(m, n, d, picks)
      PROVE  Settled(m, z, d, picks)
  BY <1>4, <1>5, <1>9 DEF Settled, Grown, LinksKept, OthersKept, Over, OmsOf, Lit
<1> QED BY <1>7, <1>8, <1>9

LEMMA OverlaysAgree ==
  ASSUME NEW a, NEW b, NEW q, NEW kept, kept = Overlay(a, b), NEW all, all = Overlay(a, Overlay(b, q)),
         NEW id \in DOMAIN kept
  PROVE  id \in DOMAIN all /\ all[id] = kept[id]
  BY DEF Overlay

\* An answer that is no placement names its reason.
LEMMA ReasonGiven ==
  ASSUME NEW d, NEW answer, answer = Routed(d)
  PROVE  answer.reason # ""
<1>1. ASSUME NEW reason, NEW picks, NEW seen, NEW raises, reason # "", NEW x,
             x = Answer(reason, picks, seen, raises)
      PROVE  IsAnswer(x) /\ x.reason # ""
  <2>1. Answers(x, reason, picks)
    BY <1>1, AnswersAre
  <2> QED BY <1>1, <2>1 DEF Answers
<1>2. ASSUME NEW h, NEW x, x = AnswerFrom(d, h, Candidates(h))
      PROVE  IsAnswer(x) /\ x.reason # ""
  <2>1. \E reason \in {"raised", "no feasible route", "no disjoint feasible pair", "found"} : \E picks, raises :
          x = Answer(reason, picks, h.table, raises)
    BY <1>2 DEF AnswerFrom
  <2> QED BY <1>1, <2>1
<1> DEFINE h == HarvestAt(table, d, Demand[d.id])
           k == HarvestAt(h.table, d, 0)
           x == AnswerFrom(d, h, Candidates(h))
           y == AnswerFrom(d, k, Candidates(k))
           z == [y EXCEPT !.reason = x.reason]
<1>3. answer = Harvested(d, h) \/ answer = Answer("no router at endpoint", <<>>, table, FALSE)
  BY DEF Routed
<1>4. answer = Harvested(d, h) => answer = x \/ answer = y \/ answer = z
  BY DEF Harvested, Unfiltered
<1>5. x.reason # "" /\ y.reason # "" /\ IsAnswer(y)
  BY <1>2
<1> HIDE DEF x, y
<1>6. z.reason = x.reason
  BY <1>5 DEF IsAnswer, Answer
<1> HIDE DEF z
<1>7. CASE answer = Answer("no router at endpoint", <<>>, table, FALSE)
  BY <1>1, <1>7
<1> QED BY <1>3, <1>4, <1>5, <1>6, <1>7

LEMMA PlaceLands ==
  ASSUME Solving, Served, NEW d, NEW answer, answer = Routed(d), Place(d, answer)
  PROVE  \E runs, verified, found : LandedOn(d, answer.picks, runs, verified, found)
<1> DEFINE start == AddService(work, d.id, ServiceOf(d))
           builds == Land(start, d, answer.picks)
           verified == Merge(builds, Verified)
           found == UNION {VerifyViolations(b) : b \in Range(builds)}
           n == builds[Len(builds)].model
           S == PlacedIds \cup {d.id}
<1>1. /\ Reason(d, answer) = "" /\ \A b \in Range(builds) : b.ok
      /\ work' = Corrected(n, verified) /\ seeded' = Overlay(verified, seeded)
      /\ violations' = violations \cup found
  BY DEF Place, Record, Remember
<1>2. answer.reason = "found" /\ CanAddService(work, d.id, ServiceOf(d))
  <2>1. Reason(d, answer) = "" /\ answer.reason # ""
    BY <1>1, ReasonGiven
  <2> QED BY <2>1 DEF Reason
<1>3. Serves(work, d, answer.picks)
  BY <1>2, RoutedIs DEF Solving
<1>4. /\ IsRecord(start) /\ start.lightpaths = work.lightpaths /\ Present(start, S)
      /\ start.ipLinks = work.ipLinks /\ start.services[d.id] = ServiceOf(d)
      /\ OthersKept(work, start, d.id)
  <2> DEFINE s == ServiceOf(d)
             i == d.id
             T == PlacedIds
  <2>1. IsService(s) /\ s.working = <<>> /\ s.protection = <<>>
    BY DEF IsService, ServiceOf
  <2>2. i \notin DOMAIN work.services /\ IsRecord(work) /\ Present(work, T)
    BY <1>2 DEF CanAddService, Solving, Served
  <2>3. start = AddService(work, i, s)
    OBVIOUS
  <2> HIDE DEF start, s, i, T
  <2>4. /\ IsRecord(start) /\ start.lightpaths = work.lightpaths /\ Present(start, T \cup {i})
        /\ start.ipLinks = work.ipLinks /\ start.services[i] = s /\ OthersKept(work, start, i)
    <3>1. ASSUME NEW n_, n_ = AddService(work, i, s)
          PROVE  Entered(work, n_, T, i, s)
      BY <2>1, <2>2, <3>1, ServiceAdded
    <3> QED BY <2>3, <3>1 DEF Entered
  <2> QED BY <2>4 DEF i, T, s
<1>5. d.id \in S /\ OnPaths(work)
  BY DEF Solving
<1> HIDE DEF start, S
<1>6. builds = Land(start, d, answer.picks)
  OBVIOUS
<1>7. n = builds[Len(builds)].model /\ verified = Merge(builds, Verified)
      /\ found = UNION {VerifyViolations(b) : b \in Range(builds)}
  OBVIOUS
<1> HIDE DEF builds, n, verified, found
<1>8. /\ Settled(work, n, d, answer.picks)
      /\ \E runs : Landed(work, n, runs, verified, found, S) /\ (SectionsApart /\ Divided(d) => AllClear(runs))
  <2> DEFINE picks == answer.picks
  <2>1. Serves(work, d, picks) /\ builds = Land(start, d, picks)
    BY <1>3, <1>6
  <2> HIDE DEF picks
  <2>2. /\ Settled(work, n, d, picks)
        /\ \E runs : Landed(work, n, runs, verified, found, S) /\ (SectionsApart /\ Divided(d) => AllClear(runs))
    BY <1>1, <1>4, <1>5, <1>7, <2>1, LandIs
  <2> QED BY <2>2 DEF picks
<1>13. PICK runs : Landed(work, n, runs, verified, found, S) /\ (SectionsApart /\ Divided(d) => AllClear(runs))
  BY <1>8
<1> DEFINE z == Corrected(n, verified)
           kept == Overlay(verified, seeded)
<1>9. /\ Landed(work, z, runs, verified, found, S) /\ Settled(work, z, d, answer.picks)
      /\ \E q : z.qot = Overlay(verified, Overlay(seeded, q))
  <2> HIDE DEF z
  <2>1. z = Corrected(n, verified) /\ Landed(work, n, runs, verified, found, S)
    BY <1>13 DEF z
  <2>2. /\ Landed(work, z, runs, verified, found, S)
        /\ \A d_, picks : Settled(work, n, d_, picks) => Settled(work, z, d_, picks)
        /\ \E q : z.qot = Overlay(verified, Overlay(seeded, q))
    BY <2>1, CorrectedIs
  <2> QED BY <1>8, <2>2
<1> HIDE DEF z, kept
<1>10. \A id \in DOMAIN kept : id \in DOMAIN z.qot /\ z.qot[id] = kept[id]
  <2>1. PICK q : z.qot = Overlay(verified, Overlay(seeded, q))
    BY <1>9
  <2> DEFINE all == z.qot
  <2>2. all = Overlay(verified, Overlay(seeded, q)) /\ kept = Overlay(verified, seeded)
    BY <2>1 DEF kept
  <2> HIDE DEF all
  <2>3. \A id \in DOMAIN kept : id \in DOMAIN all /\ all[id] = kept[id]
    BY <2>2, OverlaysAgree
  <2> QED BY <2>3 DEF all
<1>11. work' = z /\ seeded' = kept
  BY <1>1 DEF z, kept
<1>14. d.id \notin DOMAIN work.services
  BY <1>2 DEF CanAddService
<1>12. LandedOn(d, answer.picks, runs, verified, found)
  BY <1>1, <1>3, <1>9, <1>10, <1>11, <1>13, <1>14 DEF LandedOn, S
<1> QED BY <1>12

\* A record that is worth something with fewer findings is with more.
LEMMA TrustedStill ==
  ASSUME NEW id, NEW lp, NEW q, NEW found, Trusted(id, lp, q, found), NEW more, found \subseteq more
  PROVE  Trusted(id, lp, q, more)
  BY DEF Trusted

LEMMA PlaceSolving ==
  ASSUME Solving, todo # <<>>, NEW d, NEW answer, Place(d, answer),
         NEW picks, NEW runs, NEW verified, NEW found, LandedOn(d, picks, runs, verified, found)
  PROVE  Solving'
<1>1. todo' = Tail(todo)
  BY DEF Place, Record
<1>2. Tail(todo) \in Seq(PackDemands)
  BY HeadTailProperties DEF Solving
<1>3. /\ IsRecord(work') /\ LitBesides(work'.lightpaths, work.lightpaths, runs)
      /\ \A id \in DOMAIN runs : RunOn(work, runs[id])
  BY DEF LandedOn, Landed
<1>4. IsFiniteSet(Lit(work'))
  <2>1. IsFiniteSet(DOMAIN runs) /\ IsFiniteSet(DOMAIN work.lightpaths)
    BY <1>3 DEF LitBesides, Solving, Lit
  <2>2. IsFiniteSet(DOMAIN work.lightpaths \cup DOMAIN runs)
    BY <2>1, FS_Union
  <2> QED BY <1>3, <2>2 DEF LitBesides, Lit
<1>5. ASSUME NEW id \in Lit(work')
      PROVE  work'.lightpaths[id].oms \in Path
  <2>1. CASE id \in DOMAIN runs
    <3>1. work'.lightpaths[id] = RunSpec(runs[id]) /\ runs[id].oms \in Path
      BY <1>3, <2>1 DEF LitBesides, RunOn
    <3> QED BY <3>1 DEF RunSpec
  <2>2. CASE id \notin DOMAIN runs
    BY <1>3, <2>2 DEF LitBesides, Lit, Solving, OnPaths
  <2> QED BY <2>1, <2>2
<1> DEFINE m == work'
<1>6. OnPaths(work)'
  BY <1>5 DEF OnPaths
<1>7. IsRecord(work)'
  BY <1>3 DEF IsRecord
<1>8. IsFiniteSet(Lit(work))'
  BY <1>4
<1>9. PackDemands' = PackDemands
  BY DEF PackDemands
<1> QED BY <1>1, <1>2, <1>6, <1>7, <1>8, <1>9 DEF Solving

LEMMA PlaceKept ==
  ASSUME Solving, Kept, NEW d, NEW answer, Place(d, answer),
         NEW picks, NEW runs, NEW verified, NEW found, LandedOn(d, picks, runs, verified, found)
  PROVE  Kept'
<1>1. /\ LitBesides(work'.lightpaths, work.lightpaths, runs)
      /\ \A id \in DOMAIN runs : RunOn(work, runs[id])
      /\ Checked(runs, verified, found)
      /\ seeded' = Overlay(verified, seeded) /\ violations' = violations \cup found
      /\ \A id \in DOMAIN seeded' : id \in DOMAIN work'.qot /\ work'.qot[id] = seeded'[id]
  BY DEF LandedOn, Landed
<1>2. net' = net
  BY DEF Place, Record
<1>3. /\ DOMAIN seeded' = DOMAIN runs \cup DOMAIN seeded
      /\ \A id \in DOMAIN runs : seeded'[id] = verified[id]
      /\ \A id \in DOMAIN seeded \ DOMAIN runs : seeded'[id] = seeded[id]
  BY <1>1 DEF Overlay, Checked
<1>4. Lit(work)' = Lit(work) \cup DOMAIN runs
  BY <1>1 DEF LitBesides, Lit
<1>5. NewIds' \subseteq DOMAIN seeded' /\ DOMAIN seeded' \subseteq Lit(work)'
  BY <1>2, <1>3, <1>4 DEF Kept, NewIds
<1>6. ASSUME NEW id \in DOMAIN seeded'
      PROVE  Trusted(id, work'.lightpaths[id], seeded'[id], violations')
  <2>1. CASE id \in DOMAIN runs
    <3> DEFINE leg == runs[id]
    <3>1. /\ work'.lightpaths[id] = RunSpec(leg) /\ seeded'[id] = RecordOf(leg)
          /\ RunOn(work, leg) /\ (Misses(leg) => id \in {v.id : v \in found})
      BY <1>1, <1>3, <2>1 DEF LitBesides, Checked
    <3> HIDE DEF leg
    <3>2. Trusted(id, RunSpec(leg), RecordOf(leg), found)
      BY <3>1, RecordIsTrusted
    <3>3. Trusted(id, RunSpec(leg), RecordOf(leg), violations')
      BY <1>1, <3>2, TrustedStill
    <3> QED BY <3>1, <3>3
  <2>2. CASE id \notin DOMAIN runs
    <3>1. id \in DOMAIN seeded /\ id \in DOMAIN work.lightpaths /\ seeded'[id] = seeded[id]
      BY <1>3, <2>2 DEF Kept, Lit
    <3>2. work'.lightpaths[id] = work.lightpaths[id]
      BY <1>1, <3>1 DEF LitBesides
    <3>3. Trusted(id, work.lightpaths[id], seeded[id], violations)
      BY <3>1 DEF Kept
    <3>4. Trusted(id, work.lightpaths[id], seeded[id], violations')
      BY <1>1, <3>3, TrustedStill
    <3> QED BY <3>1, <3>2, <3>4
  <2> QED BY <2>1, <2>2
<1>7. \A id \in DOMAIN seeded' :
        /\ id \in DOMAIN work'.qot /\ work'.qot[id] = seeded'[id]
        /\ Trusted(id, work'.lightpaths[id], seeded'[id], violations')
  BY <1>1, <1>6
<1> QED BY <1>5, <1>7 DEF Kept, Trusted, SeedOf, Decibels, Slots

LEMMA PlaceServed ==
  ASSUME Served, NEW d, NEW answer, Place(d, answer),
         NEW picks, NEW runs, NEW verified, NEW found, LandedOn(d, picks, runs, verified, found)
  PROVE  Served'
<1> DEFINE r == [demand |-> d, picks |-> answer.picks]
<1>1. placed' = Append(placed, r)
  BY DEF Place, Record
<1>2. PICK P : placed \in Seq(P)
  BY DEF Served
<1> DEFINE Q == P \cup {r}
<1>3. placed \in Seq(Q) /\ r \in Q
  BY <1>2, SeqMonotonic
<1>4. r.demand = d
  OBVIOUS
<1> HIDE DEF Q, r
<1>5. /\ placed' \in Seq(Q) /\ DOMAIN placed = 1 .. Len(placed) /\ Len(placed) \in Nat
      /\ DOMAIN placed' = 1 .. Len(placed) + 1
      /\ placed'[Len(placed) + 1] = r /\ \A i \in 1 .. Len(placed) : placed'[i] = placed[i]
  BY <1>1, <1>3, AppendProperties, LenProperties
<1>6. PlacedIds' \subseteq PlacedIds \cup {d.id}
  <2> SUFFICES ASSUME NEW i \in DOMAIN placed'
               PROVE  placed'[i].demand.id \in PlacedIds \cup {d.id}
    BY DEF PlacedIds
  <2>1. CASE i = Len(placed) + 1
    BY <1>4, <1>5, <2>1
  <2>2. CASE i # Len(placed) + 1
    <3>1. i \in DOMAIN placed /\ placed'[i] = placed[i]
      BY <1>5, <2>2
    <3> QED BY <3>1 DEF PlacedIds
  <2> QED BY <2>1, <2>2
<1>7. Present(work', PlacedIds \cup {d.id})
  BY DEF LandedOn, Landed
<1>8. Present(work, PlacedIds)'
  BY <1>6, <1>7 DEF Present, AllPresent, IsService
<1> QED BY <1>5, <1>8 DEF Served

LEMMA PlaceCounted ==
  ASSUME Counted, Served, NEW d, NEW answer, answer = Routed(d), Place(d, answer),
         Serves(work, d, answer.picks)
  PROVE  Counted'
<1> DEFINE r == [demand |-> d, picks |-> answer.picks]
           x == LegsOfPicks(answer.picks)
           now == [n \in Nodes |-> inv[n] - EndsAt(x, n)]
<1>1. placed' = Append(placed, r) /\ inv' = [n \in Nodes |-> inv[n] - Need(answer.picks)[n]]
      /\ Reason(d, answer) = ""
  BY DEF Place, Record
<1>2. \A n \in Nodes : Need(answer.picks)[n] = EndsAt(x, n)
  BY DEF Need, LegsOfPicks
<1>3. inv' = now
  BY <1>1, <1>2
<1>4. \A n \in Nodes : EndsAt(x, n) <= inv[n]
  <2>1. InventoryOk(Need(answer.picks)) \/ answer.reason # "found"
    BY <1>1 DEF Reason
  <2>2. answer.reason = "found"
    <3>1. answer.reason # ""
      BY ReasonGiven
    <3> QED BY <1>1, <3>1 DEF Reason
  <2> QED BY <1>2, <2>1, <2>2 DEF InventoryOk
<1>5. PICK B : x \in Seq(B)
  BY PickLegsAre DEF Serves, Buildable
<1>6. PICK P : placed \in Seq(P)
  BY DEF Served
<1> DEFINE Q == P \cup {r}
<1>7. placed \in Seq(Q) /\ r \in Q
  BY <1>6, SeqMonotonic
<1>8. r.picks = answer.picks
  OBVIOUS
<1> HIDE DEF Q, r, x
<1>9. LegsOfPlaced(Append(placed, r)) = Append(LegsOfPlaced(placed), LegsOfPicks(r.picks))
  BY <1>7, PlacedLegsAppend
<1>10. LegsOfPlaced(placed') = Append(LegsOfPlaced(placed), x)
  BY <1>1, <1>8, <1>9 DEF x
<1>11. Tallied(now, Append(LegsOfPlaced(placed), x))
  <2> DEFINE lists == LegsOfPlaced(placed)
  <2>1. Tallied(inv, lists)
    BY DEF Counted
  <2>2. now = [n \in Nodes |-> inv[n] - EndsAt(x, n)]
    OBVIOUS
  <2> HIDE DEF lists, now
  <2>3. Tallied(now, Append(lists, x))
    BY <1>4, <1>5, <2>1, <2>2, OneMoreTallied
  <2> QED BY <2>3 DEF lists
<1> HIDE DEF now
<1>12. Tallied(inv', LegsOfPlaced(placed'))
  BY <1>3, <1>10, <1>11
<1> QED BY <1>12 DEF Counted, Tallied

\* No two lightpaths of a model meet.
NoneMeet(m) == \A a, b \in Lit(m) : a # b => Clear(m.lightpaths[a], m.lightpaths[b])

LEMMA PlaceNoneMeet ==
  ASSUME Solving, NoneMeet(work), SectionsApart, NEW d, Divided(d),
         NEW picks, NEW runs, NEW verified, NEW found, LandedOn(d, picks, runs, verified, found)
  PROVE  NoneMeet(work')
<1>1. /\ LitBesides(work'.lightpaths, work.lightpaths, runs)
      /\ \A id \in DOMAIN runs : RunOn(work, runs[id])
      /\ AllClear(runs)
  BY DEF LandedOn, Landed
<1>2. /\ DOMAIN work'.lightpaths = DOMAIN work.lightpaths \cup DOMAIN runs
      /\ DOMAIN runs \cap DOMAIN work.lightpaths = {}
      /\ \A id \in DOMAIN work.lightpaths : work'.lightpaths[id] = work.lightpaths[id]
      /\ \A id \in DOMAIN runs : work'.lightpaths[id] = RunSpec(runs[id])
  BY <1>1 DEF LitBesides
<1>3. ASSUME NEW leg, NEW lp, Clear(lp, leg)
      PROVE  Clear(lp, RunSpec(leg)) /\ Clear(RunSpec(leg), lp)
  BY <1>3 DEF Clear, RunSpec
<1>4. ASSUME NEW leg, NEW other, Clear(leg, other)
      PROVE  Clear(RunSpec(leg), RunSpec(other))
  BY <1>4 DEF Clear, RunSpec
<1>5. ASSUME NEW a \in DOMAIN work'.lightpaths, NEW b \in DOMAIN work'.lightpaths, a # b
      PROVE  Clear(work'.lightpaths[a], work'.lightpaths[b])
  <2>1. CASE a \in DOMAIN work.lightpaths /\ b \in DOMAIN work.lightpaths
    BY <1>2, <1>5, <2>1 DEF NoneMeet, Lit
  <2>2. CASE a \in DOMAIN work.lightpaths /\ b \in DOMAIN runs
    <3>1. Clear(work.lightpaths[a], runs[b])
      BY <1>1, <2>2 DEF RunOn, Lit
    <3> QED BY <1>2, <1>3, <2>2, <3>1
  <2>3. CASE a \in DOMAIN runs /\ b \in DOMAIN work.lightpaths
    <3>1. Clear(work.lightpaths[b], runs[a])
      BY <1>1, <2>3 DEF RunOn, Lit
    <3> QED BY <1>2, <1>3, <2>3, <3>1
  <2>4. CASE a \in DOMAIN runs /\ b \in DOMAIN runs
    <3>1. Clear(runs[a], runs[b])
      BY <1>1, <1>5, <2>4 DEF AllClear
    <3> QED BY <1>2, <1>4, <2>4, <3>1
  <2> QED BY <1>2, <2>1, <2>2, <2>3, <2>4
<1> QED BY <1>5 DEF NoneMeet, Lit

\* A protected demand stands on two lists of sections with no key in common.
Sheltered(m, d) ==
  \E p, q :
    /\ Sections(p.legs) \in Seq(OMS) /\ Sections(q.legs) \in Seq(OMS)
    /\ KeysOf(d, p) \cap KeysOf(d, q) = {}
    /\ d.id \in DOMAIN m.services
    /\ m.services[d.id].working # <<>> /\ Over(m, m.services[d.id].working, p.legs)
    /\ m.services[d.id].protection # <<>> /\ Over(m, m.services[d.id].protection, q.legs)

\* It keeps to them when another demand is added.
LEMMA StillSheltered ==
  ASSUME NEW m, NEW d, Sheltered(m, d), NEW n, Grown(m, n), NEW id, id # d.id, OthersKept(m, n, id)
  PROVE  Sheltered(n, d)
<1>1. PICK p, q :
        /\ Sections(p.legs) \in Seq(OMS) /\ Sections(q.legs) \in Seq(OMS)
        /\ KeysOf(d, p) \cap KeysOf(d, q) = {}
        /\ d.id \in DOMAIN m.services
        /\ m.services[d.id].working # <<>> /\ Over(m, m.services[d.id].working, p.legs)
        /\ m.services[d.id].protection # <<>> /\ Over(m, m.services[d.id].protection, q.legs)
  BY DEF Sheltered
<1> DEFINE s == m.services[d.id]
           a == p.legs
           b == q.legs
<1>2. d.id \in DOMAIN n.services /\ n.services[d.id] = s
  BY <1>1 DEF OthersKept
<1>3. Over(m, s.working, a) /\ Over(m, s.protection, b)
  BY <1>1
<1> HIDE DEF s, a, b
<1>4. Over(n, s.working, a) /\ Over(n, s.protection, b)
  BY <1>3, StillOver
<1> QED BY <1>1, <1>2, <1>4 DEF Sheltered, s, a, b

\* A demand that lands comes to stand on the placements it was given.
LEMMA SettledSheltered ==
  ASSUME LinksNamed, NEW m, OnPaths(m), NEW n, NEW d, d.protected, ~ d.bestEffort,
         RouterAt[d.src] # RouterAt[d.dst], NEW picks, Serves(m, d, picks), Settled(m, n, d, picks)
  PROVE  Sheltered(n, d)
<1>1. Len(picks) = 2 /\ KeysOf(d, picks[1]) \cap KeysOf(d, picks[2]) = {}
  BY DEF Serves
<1>2. LegsFit(m, picks[1].legs) /\ LegsFit(m, picks[2].legs)
  BY <1>1 DEF Serves, Buildable, AllFit
<1>3. Sections(picks[1].legs) \in Seq(OMS) /\ Sections(picks[2].legs) \in Seq(OMS)
  BY <1>2, SectionsAre
<1> QED BY <1>1, <1>3 DEF Settled, Sheltered

Guarded(d) == d.protected /\ d.basis = "physical" /\ ~ d.bestEffort

AllSheltered == \A i \in DOMAIN placed : Guarded(placed[i].demand) => Sheltered(work, placed[i].demand)

LEMMA PlaceSheltered ==
  ASSUME LinksNamed, Solving, Served, AllSheltered, NEW d, RouterAt[d.src] # RouterAt[d.dst],
         NEW answer, Place(d, answer), NEW runs, NEW verified, NEW found,
         LandedOn(d, answer.picks, runs, verified, found)
  PROVE  AllSheltered'
<1> DEFINE r == [demand |-> d, picks |-> answer.picks]
<1>1. placed' = Append(placed, r)
  BY DEF Place, Record
<1>2. PICK P : placed \in Seq(P)
  BY DEF Served
<1> DEFINE Q == P \cup {r}
<1>3. placed \in Seq(Q) /\ r \in Q
  BY <1>2, SeqMonotonic
<1>4. r.demand = d
  OBVIOUS
<1> HIDE DEF Q, r
<1>5. /\ DOMAIN placed = 1 .. Len(placed) /\ Len(placed) \in Nat
      /\ DOMAIN placed' = 1 .. Len(placed) + 1
      /\ placed'[Len(placed) + 1] = r /\ \A i \in 1 .. Len(placed) : placed'[i] = placed[i]
  BY <1>1, <1>3, AppendProperties, LenProperties
<1> DEFINE m == work
           n == work'
           picks == answer.picks
<1>6. /\ Serves(m, d, picks) /\ Settled(m, n, d, picks) /\ d.id \notin DOMAIN m.services
      /\ OnPaths(m) /\ Grown(m, n) /\ OthersKept(m, n, d.id)
      /\ \A i \in DOMAIN placed : Guarded(placed[i].demand) => Sheltered(m, placed[i].demand)
  BY DEF LandedOn, Settled, Solving, AllSheltered
<1>7. \A i \in DOMAIN placed : placed[i].demand.id \in DOMAIN m.services
  BY DEF Served, PlacedIds, Present
<1> HIDE DEF m, n, picks
<1>8. ASSUME NEW i \in DOMAIN placed', Guarded(placed'[i].demand)
      PROVE  Sheltered(n, placed'[i].demand)
  <2>1. CASE i = Len(placed) + 1
    <3>1. placed'[i].demand = d /\ Guarded(d)
      BY <1>4, <1>5, <1>8, <2>1
    <3>2. Sheltered(n, d)
      BY <1>6, <3>1, SettledSheltered DEF Guarded
    <3> QED BY <3>1, <3>2
  <2>2. CASE i # Len(placed) + 1
    <3> DEFINE e == placed[i].demand
    <3>1. i \in DOMAIN placed /\ placed'[i].demand = e
      BY <1>5, <2>2
    <3>2. Sheltered(m, e) /\ e.id # d.id
      BY <1>6, <1>7, <1>8, <3>1
    <3> HIDE DEF e
    <3>3. Sheltered(n, e)
      BY <1>6, <3>2, StillSheltered
    <3> QED BY <3>1, <3>3
  <2> QED BY <2>1, <2>2
<1>9. ASSUME NEW i \in DOMAIN placed', Guarded(placed'[i].demand)
      PROVE  Sheltered(work', placed'[i].demand)
  BY <1>8, <1>9 DEF n
<1> QED BY <1>9 DEF AllSheltered, Sheltered, Guarded, Over, OmsOf, Lit, KeysOf

\* What a refusal, an exception and a stutter leave alone.
NothingLands == UNCHANGED <<net, work, inv, seeded, placed, violations>>

LEMMA StepIs ==
  ASSUME Solving, [Next]_vars
  PROVE  \/ NothingLands /\ todo' \in Seq(PackDemands)
         \/ \E d \in PackDemands : \E answer : todo # <<>> /\ answer = Routed(d) /\ Place(d, answer)
<1>1. CASE UNCHANGED vars
  BY <1>1 DEF vars, NothingLands, Solving
<1>2. CASE Next
  <2> DEFINE d == Head(todo)
             answer == Routed(d)
  <2>1. todo # <<>> /\ (Place(d, answer) \/ Refuse(d, answer) \/ Abort(d, answer))
    BY <1>2 DEF Next
  <2>2. d \in PackDemands /\ Tail(todo) \in Seq(PackDemands)
    BY <2>1, HeadTailProperties DEF Solving
  <2>3. <<>> \in Seq(PackDemands)
    OBVIOUS
  <2> HIDE DEF d
  <2>4. Refuse(d, answer) => NothingLands /\ todo' = Tail(todo)
    BY DEF Refuse, NothingLands
  <2>5. Abort(d, answer) => NothingLands /\ todo' = <<>>
    BY DEF Abort, NothingLands
  <2> QED BY <2>1, <2>2, <2>3, <2>4, <2>5
<1> QED BY <1>1, <1>2

LEMMA StartsInv == ASSUME Starts, Queues, Init PROVE AInv
<1>1. Solving
  <2>1. todo \in Seq(PackDemands)
    BY DEF Init, Queues
  <2>2. IsRecord(work) /\ IsFiniteSet(Lit(work)) /\ OnPaths(work)
    BY DEF Init, Starts
  <2> QED BY <2>1, <2>2 DEF Solving
<1>2. Kept
  BY DEF Init, Kept, NewIds, EmptyMap
<1>3. Served
  <2>1. placed = <<>> /\ DOMAIN <<>> = {}
    BY DEF Init
  <2>2. PlacedIds = {}
    BY <2>1 DEF PlacedIds
  <2>3. <<>> \in Seq({})
    OBVIOUS
  <2> QED BY <2>1, <2>2, <2>3 DEF Served, Present
<1>4. Counted
  <2>1. placed = <<>> /\ inv = Spare
    BY DEF Init
  <2>2. LegsOfPlaced(<<>>) = <<>>
    BY DEF LegsOfPlaced, Mapped
  <2> QED BY <2>1, <2>2, NothingTallied DEF Counted
<1> QED BY <1>1, <1>2, <1>3, <1>4 DEF AInv

LEMMA AInvStep == ASSUME AInv, [Next]_vars PROVE AInv'
<1>1. Solving /\ Kept /\ Served /\ Counted
  BY DEF AInv
<1>2. CASE NothingLands /\ todo' \in Seq(PackDemands)
  <2>1. Solving'
    BY <1>1, <1>2 DEF Solving, NothingLands, PackDemands, IsRecord, OnPaths, Lit
  <2>2. Kept'
    BY <1>1, <1>2 DEF Kept, NothingLands, NewIds, Lit, Trusted, SeedOf, Decibels, Slots
  <2>3. Served'
    BY <1>1, <1>2 DEF Served, NothingLands, PlacedIds, Present, IsService, AllPresent
  <2>4. Counted'
    BY <1>1, <1>2 DEF Counted, NothingLands, Tallied
  <2> QED BY <2>1, <2>2, <2>3, <2>4 DEF AInv
<1>3. CASE \E d \in PackDemands : \E answer : todo # <<>> /\ answer = Routed(d) /\ Place(d, answer)
  <2>1. PICK d, answer : todo # <<>> /\ answer = Routed(d) /\ Place(d, answer)
    BY <1>3
  <2>2. PICK runs, verified, found : LandedOn(d, answer.picks, runs, verified, found)
    BY <1>1, <2>1, PlaceLands
  <2> DEFINE picks == answer.picks
  <2>3. LandedOn(d, picks, runs, verified, found) /\ Serves(work, d, picks)
    BY <2>2 DEF LandedOn
  <2> HIDE DEF picks
  <2>4. Solving'
    BY <1>1, <2>1, <2>3, PlaceSolving
  <2>5. Kept'
    BY <1>1, <2>1, <2>3, PlaceKept
  <2>6. Served'
    BY <1>1, <2>1, <2>3, PlaceServed
  <2>7. Counted'
    BY <1>1, <2>1, <2>3, PlaceCounted DEF picks
  <2> QED BY <2>4, <2>5, <2>6, <2>7 DEF AInv
<1> QED BY <1>1, <1>2, <1>3, StepIs

\* The invariant of a solve: the clone stays a model over sections (RoutedIs and
\* LandIs ask for that), each lightpath it lit has a record to trust that is the
\* one on the clone, both paths of placed demands ride links that are there, and what
\* is left of the inventory tallies with the legs that landed.
THEOREM AInvHolds ==
  ASSUME Starts, Queues
  PROVE  Spec => []AInv
<1>1. Init => AInv
  BY StartsInv
<1>2. AInv /\ [Next]_vars => AInv'
  BY AInvStep
<1> QED BY <1>1, <1>2, PTL DEF Spec

-------------------------------------------------------------------------------
(* Theorems.                                                               *)

\* Transponders are conserved site by site, whatever demands are packed over
\* whatever model: the spare inventory is never overdrawn.
THEOREM Conserved ==
  ASSUME Starts, Queues
  PROVE  Spec => []InventoryConserved
<1>1. AInv => InventoryConserved
  <2> SUFFICES ASSUME AInv, NEW n \in Nodes
               PROVE  inv[n] >= 0 /\ inv[n] + EndsAt(FlattenSeq(LegsOfPlaced(placed)), n) = Spare[n]
    BY DEF InventoryConserved, LegsOfPlaced
  <2>1. inv[n] \in Nat /\ inv[n] + EndsAt(FlattenSeq(LegsOfPlaced(placed)), n) = Spare[n]
    BY DEF AInv, Counted, Tallied
  <2> QED BY <2>1
<1> QED BY <1>1, AInvHolds, PTL

\* Later provisioning drops records of lightpaths next to it; the replay puts
\* back what verification left, so with a full comb each is exact.
THEOREM RecordsExact ==
  ASSUME Starts, Queues
  PROVE  Spec => []ExactRecords
<1>1. AInv => ExactRecords
  BY DEF AInv, Kept, ExactRecords, Trusted
<1> QED BY <1>1, AInvHolds, PTL

\* A link of either side of a placed demand that landed on a lightpath of the
\* solve is up, or its lightpath was reported by the verify pass.
THEOREM DownReported ==
  ASSUME Starts, Queues, Decibels, MarginSign
  PROVE  Spec => []DownIsReported
<1>1. AInv => DownIsReported
  <2> SUFFICES ASSUME AInv, NEW i \in DOMAIN placed,
                      NEW k \in SidesOf(placed[i].demand),
                      work.ipLinks[k].lightpath \in NewIds
               PROVE  LinkStatus(work, k) = "up" \/ work.ipLinks[k].lightpath \in {v.id : v \in violations}
    BY DEF DownIsReported
  <2> DEFINE id == work.ipLinks[k].lightpath
             lp == work.lightpaths[id]
             q == work.qot[id]
  <2>1. k \in DOMAIN work.ipLinks
    BY DEF AInv, Served, PlacedIds, Present, AllPresent, SidesOf
  <2>2. id \in Lit(work) /\ id \in DOMAIN work.qot /\ Trusted(id, lp, q, violations)
    BY DEF AInv, Kept
  <2>3. lp.mode \in Modes /\ q.kind = "measured" /\ (q.margin >= 0 \/ id \in {v.id : v \in violations})
    BY <2>2 DEF Trusted
  <2>4. ASSUME q.margin >= 0
        PROVE  LinkStatus(work, k) = "up"
    <3>1. ModeFeasible(q)
      BY <2>3, <2>4 DEF MarginSign, ModeFeasible
    <3>2. Capacity(work, k) = Bitrate[lp.mode]
      BY <3>1 DEF Capacity
    <3>3. Capacity(work, k) > 0
      BY <2>3, <3>2, RoutingAssumption
    <3> QED BY <2>1, <2>2, <3>3 DEF LinkStatus
  <2> QED BY <2>3, <2>4
<1> QED BY <1>1, AInvHolds, PTL

\* First fit with the slots of earlier legs reserved keeps every slot of every
\* section to one lightpath, if the sides of protected demands are kept apart
\* physically: two sides that share a section are judged each on its own.
THEOREM SlotsNeverClash ==
  ASSUME Starts, Queues, \A m \in PackModels : NoneMeet(m),
         SectionsApart, \A d \in PackDemands : Divided(d)
  PROVE  Spec => []NoSlotClash
<1>1. Init => NoneMeet(work)
  BY DEF Init
<1>2. AInv /\ NoneMeet(work) /\ [Next]_vars => NoneMeet(work)'
  <2> SUFFICES ASSUME AInv, NoneMeet(work), [Next]_vars PROVE NoneMeet(work)'
    OBVIOUS
  <2>1. Solving /\ Served
    BY DEF AInv
  <2>2. CASE NothingLands
    BY <2>2 DEF NothingLands, NoneMeet, Lit, Clear
  <2>3. CASE \E d \in PackDemands : \E answer : todo # <<>> /\ answer = Routed(d) /\ Place(d, answer)
    <3>1. PICK d \in PackDemands : \E answer : answer = Routed(d) /\ Place(d, answer)
      BY <2>3
    <3>2. PICK answer : answer = Routed(d) /\ Place(d, answer)
      BY <3>1
    <3>3. PICK runs, verified, found : LandedOn(d, answer.picks, runs, verified, found)
      BY <2>1, <3>2, PlaceLands
    <3> DEFINE picks == answer.picks
    <3>4. LandedOn(d, picks, runs, verified, found) /\ Divided(d)
      BY <3>1, <3>3
    <3> HIDE DEF picks
    <3>5. NoneMeet(work')
      BY <2>1, <3>4, PlaceNoneMeet
    <3> QED BY <3>5 DEF NoneMeet, Lit, Clear
  <2> QED BY <2>1, <2>2, <2>3, StepIs
<1>3. NoneMeet(work) => NoSlotClash
  BY DEF NoneMeet, NoSlotClash, Clear, OmsOf
<1> QED BY <1>1, <1>2, <1>3, AInvHolds, PTL DEF Spec

\* Both sides of every protected demand stay on the sections they were placed
\* on, whatever is packed after it, so no section and, at node level, no site
\* between the ends takes both.  Its ends are at different routers: a service
\* between one router and itself has empty paths.
THEOREM ProtectedSurvive ==
  ASSUME Starts, Queues, LinksNamed, SectionsApart,
         \A d \in PackDemands : RouterAt[d.src] # RouterAt[d.dst]
  PROVE  Spec => []ProtectedSurviveSingleFailure
<1>1. Init => AllSheltered
  <2> SUFFICES ASSUME Init PROVE AllSheltered
    OBVIOUS
  <2>1. placed = <<>> /\ DOMAIN <<>> = {}
    BY DEF Init
  <2> QED BY <2>1 DEF AllSheltered
<1>2. AInv /\ AllSheltered /\ [Next]_vars => AllSheltered'
  <2> SUFFICES ASSUME AInv, AllSheltered, [Next]_vars PROVE AllSheltered'
    OBVIOUS
  <2>1. Solving /\ Served
    BY DEF AInv
  <2>2. CASE NothingLands
    <3>1. work' = work /\ placed' = placed
      BY <2>2 DEF NothingLands
    <3>2. \A i \in DOMAIN placed' : Guarded(placed'[i].demand) => Sheltered(work', placed'[i].demand)
      BY <3>1 DEF AllSheltered
    <3> QED BY <3>2 DEF AllSheltered, Sheltered, Guarded, Over, OmsOf, Lit, KeysOf
  <2>3. CASE \E d \in PackDemands : \E answer : todo # <<>> /\ answer = Routed(d) /\ Place(d, answer)
    <3>1. PICK d \in PackDemands : \E answer : answer = Routed(d) /\ Place(d, answer)
      BY <2>3
    <3>2. PICK answer : answer = Routed(d) /\ Place(d, answer)
      BY <3>1
    <3>3. PICK runs, verified, found : LandedOn(d, answer.picks, runs, verified, found)
      BY <2>1, <3>2, PlaceLands
    <3>4. RouterAt[d.src] # RouterAt[d.dst]
      BY <3>1
    <3> QED BY <2>1, <3>2, <3>3, <3>4, PlaceSheltered
  <2> QED BY <2>1, <2>2, <2>3, StepIs
<1>3. AllSheltered => ProtectedSurviveSingleFailure
  <2> SUFFICES ASSUME AllSheltered, NEW i \in DOMAIN placed, Guarded(placed[i].demand)
               PROVE  LET d == placed[i].demand
                          s == work.services[d.id]
                      IN  /\ s.working # <<>> /\ s.protection # <<>>
                          /\ Crosses(s.working) \cap Crosses(s.protection) = {}
                          /\ d.level = "node" => Between(s.working, d) \cap Between(s.protection, d) = {}
    BY DEF ProtectedSurviveSingleFailure, Guarded
  <2> DEFINE d == placed[i].demand
             s == work.services[d.id]
  <2>1. PICK p, q :
          /\ Sections(p.legs) \in Seq(OMS) /\ Sections(q.legs) \in Seq(OMS)
          /\ KeysOf(d, p) \cap KeysOf(d, q) = {}
          /\ s.working # <<>> /\ Over(work, s.working, p.legs)
          /\ s.protection # <<>> /\ Over(work, s.protection, q.legs)
    BY DEF AllSheltered, Sheltered
  <2> DEFINE O == Range(Sections(p.legs))
             R == Range(Sections(q.legs))
  <2>2. Guarded(d)
    OBVIOUS
  <2> HIDE DEF d, s
  <2>3. Crosses(s.working) \subseteq O /\ Crosses(s.protection) \subseteq R
    <3>1. ASSUME NEW path, NEW legs, Over(work, path, legs)
          PROVE  Crosses(path) \subseteq Range(Sections(legs))
      <4> SUFFICES ASSUME NEW o \in Crosses(path) PROVE o \in Range(Sections(legs))
        OBVIOUS
      <4>1. PICK k \in Range(path) : o \in OmsOf(work, work.ipLinks[k].lightpath)
        BY DEF Crosses
      <4> QED BY <3>1, <4>1 DEF Over
    <3> DEFINE a == p.legs
               b == q.legs
    <3>2. Over(work, s.working, a) /\ Over(work, s.protection, b)
      BY <2>1
    <3> HIDE DEF a, b
    <3>3. Crosses(s.working) \subseteq Range(Sections(a)) /\ Crosses(s.protection) \subseteq Range(Sections(b))
      BY <3>1, <3>2
    <3> QED BY <3>3 DEF a, b
  <2>4. O \cap R = {}
    <3>1. d.basis \in {"physical", "union"}
      BY <2>2 DEF Guarded
    <3>2. Sections(p.legs) \in Seq(OMS) /\ KeysOf(d, p) \cap KeysOf(d, q) = {}
      BY <2>1
    <3>3. NoneShared(p, q)
      BY <3>1, <3>2, KeysApart
    <3> QED BY <3>3 DEF NoneShared
  <2>5. ASSUME d.level = "node"
        PROVE  Between(s.working, d) \cap Between(s.protection, d) = {}
    <3> SUFFICES ASSUME NEW x \in Between(s.working, d), x \in Between(s.protection, d) PROVE FALSE
      OBVIOUS
    <3>1. x \in NodesOf(Sections(p.legs)) \ {d.src, d.dst} /\ x \in NodesOf(Sections(q.legs)) \ {d.src, d.dst}
      BY <2>3 DEF Between, NodesOf
    <3>2. <<"node", x>> \in KeysOf(d, p) /\ <<"node", x>> \in KeysOf(d, q)
      BY <2>2, <2>5, <3>1, Zenon DEF KeysOf, PlacementKeys, PathBasisKeys, PhysicalKeys, NodeKey, Guarded
    <3> QED BY <2>1, <3>2
  <2> QED BY <2>1, <2>3, <2>4, <2>5 DEF d, s
<1> QED BY <1>1, <1>2, <1>3, AInvHolds, PTL DEF Spec
===============================================================================
