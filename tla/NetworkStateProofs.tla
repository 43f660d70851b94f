-------------------------- MODULE NetworkStateProofs --------------------------
(***************************************************************************)
(* Lemmas about the operators of NetworkState, PlanOps and IpRouting, for  *)
(* every topology and every model: what each mutator leaves in each field, *)
(* that each of them preserves Coherent, the sums that are read off the IP *)
(* layer, and how the paths that services ride depend on the records.  The *)
(* proofs about the modules that use these operators cite them by name.    *)
(***************************************************************************)
EXTENDS IpRouting, FiniteSetTheorems, WellFoundedInduction, TLAPS

-------------------------------------------------------------------------------
(* Least elements: how an induction over naturals is done here.            *)

\* A set of naturals that is not empty has a least element.
LEMMA LeastIn ==
  ASSUME NEW T \in SUBSET Nat, T # {}
  PROVE  \E n \in T : \A k \in T : n <= k
<1>1. PICK n \in T : \A k \in T : ~ (<<k, n>> \in OpToRel(<, Nat))
  BY WFMin, NatLessThanWellFounded
<1>2. ASSUME NEW k \in T PROVE n <= k
  <2>1. k \in Nat /\ n \in Nat
    BY <1>1
  <2>2. k < n => <<k, n>> \in OpToRel(<, Nat)
    BY <2>1 DEF OpToRel
  <2>3. ~ (k < n)
    BY <1>1, <2>2, Zenon
  <2> QED BY <2>1, <2>3
<1> QED BY <1>2

\* What holds at 0 and passes from each index to the next holds up to n.
LEMMA UpTo ==
  ASSUME NEW n \in Nat, NEW T, 0 \in T, \A i \in 1 .. n : i - 1 \in T => i \in T
  PROVE  \A i \in 0 .. n : i \in T
<1> DEFINE U == {i \in 0 .. n : i \notin T}
<1> SUFFICES ASSUME U # {} PROVE FALSE
  OBVIOUS
<1>1. U \in SUBSET Nat
  OBVIOUS
<1>2. PICK k \in U : \A j \in U : k <= j
  <2> HIDE DEF U
  <2> QED BY <1>1, LeastIn
<1>3. k \in 1 .. n /\ k - 1 \in 0 .. n /\ ~ (k <= k - 1)
  BY <1>2
<1>4. k - 1 \in T
  BY <1>2, <1>3
<1> QED BY <1>2, <1>3, <1>4

\* h is a function on 0 .. k: what is left after each of k turns.
OnTurns(h, k) == h = [i \in 0 .. k |-> h[i]]

\* h goes on from g with v as what turn k leaves.
Prolongs(h, g, k, v) == OnTurns(h, k) /\ h[k] = v /\ \A i \in 0 .. k - 1 : h[i] = g[i]

LEMMA Longer ==
  ASSUME NEW k \in Nat \ {0}, NEW g, NEW v
  PROVE  \E h : Prolongs(h, g, k, v)
<1> DEFINE h == [i \in 0 .. k |-> IF i = k THEN v ELSE g[i]]
<1>1. OnTurns(h, k) /\ h[k] = v /\ \A i \in 0 .. k - 1 : h[i] = g[i]
  BY DEF OnTurns
<1> HIDE DEF h
<1> QED BY <1>1 DEF Prolongs

-------------------------------------------------------------------------------
(* Replacing fields of a model.                                            *)

\* r is the model with exactly these fields.
Is(r, l, b, q, k, s, f, i) ==
  r = [lightpaths |-> l, before |-> b, qot |-> q, ipLinks |-> k,
       services |-> s, failed |-> f, impair |-> i]

IsRecord(m) ==
  Is(m, m.lightpaths, m.before, m.qot, m.ipLinks, m.services, m.failed, m.impair)

\* A record of the seven fields has those fields.
LEMMA IsFields ==
  ASSUME NEW r, NEW l, NEW b, NEW q, NEW k, NEW s, NEW f, NEW i,
         Is(r, l, b, q, k, s, f, i)
  PROVE  /\ IsRecord(r)
         /\ r.lightpaths = l /\ r.before = b /\ r.qot = q /\ r.ipLinks = k
         /\ r.services = s /\ r.failed = f /\ r.impair = i
BY SMT DEF Is, IsRecord

\* Assigning to one field leaves the six others alone.
LEMMA SetField ==
  ASSUME NEW m, NEW l, NEW b, NEW q, NEW k, NEW s, NEW f, NEW i,
         Is(m, l, b, q, k, s, f, i), NEW x
  PROVE  /\ Is([m EXCEPT !.lightpaths = x], x, b, q, k, s, f, i)
         /\ Is([m EXCEPT !.before = x], l, x, q, k, s, f, i)
         /\ Is([m EXCEPT !.qot = x], l, b, x, k, s, f, i)
         /\ Is([m EXCEPT !.ipLinks = x], l, b, q, x, s, f, i)
         /\ Is([m EXCEPT !.services = x], l, b, q, k, x, f, i)
         /\ Is([m EXCEPT !.failed = x], l, b, q, k, s, x, i)
         /\ Is([m EXCEPT !.impair = x], l, b, q, k, s, f, x)
BY SMT DEF Is

\* InvalidateSharing drops QoT records and nothing else.
LEMMA InvalidateIs ==
  ASSUME NEW m, IsRecord(m), NEW seq, NEW exclude
  PROVE  Is(InvalidateSharing(m, seq, exclude), m.lightpaths, m.before,
            Drop(m.qot, {id \in Lit(m) \ exclude : Range(seq) \cap OmsOf(m, id) # {}}),
            m.ipLinks, m.services, m.failed, m.impair)
BY SetField DEF InvalidateSharing, IsRecord

\* The lightpaths of m, beside `id', with a section of seq.
Sharing(m, seq, id) == {j \in Lit(m) \ {id} : Range(seq) \cap OmsOf(m, j) # {}}

\* What add_lightpath leaves in each field.
LEMMA AddLightpathIs ==
  ASSUME NEW m, IsRecord(m), NEW id, id \notin Lit(m), NEW lp
  PROVE  Is(AddLightpath(m, id, lp), Put(m.lightpaths, id, lp),
            m.before \cup (Lit(m) \X {id}), Drop(m.qot, Sharing(m, lp.oms, id)),
            m.ipLinks, m.services, m.failed, m.impair)
<1> DEFINE a == [m EXCEPT !.lightpaths = Put(m.lightpaths, id, lp)]
           b == [a EXCEPT !.before = m.before \cup (Lit(m) \X {id})]
<1>1. Is(a, Put(m.lightpaths, id, lp), m.before, m.qot, m.ipLinks, m.services,
         m.failed, m.impair)
  BY SetField DEF IsRecord
<1>2. AddLightpath(m, id, lp) = InvalidateSharing(b, lp.oms, {id})
  BY Zenon DEF AddLightpath
<1> HIDE DEF a
<1>3. Is(b, Put(m.lightpaths, id, lp), m.before \cup (Lit(m) \X {id}), m.qot,
         m.ipLinks, m.services, m.failed, m.impair)
  BY <1>1, SetField
<1> HIDE DEF b
<1>4. /\ IsRecord(b) /\ b.lightpaths = Put(m.lightpaths, id, lp)
      /\ b.before = m.before \cup (Lit(m) \X {id}) /\ b.qot = m.qot
      /\ b.ipLinks = m.ipLinks /\ b.services = m.services
      /\ b.failed = m.failed /\ b.impair = m.impair
  BY <1>3, IsFields
<1>5. {j \in Lit(b) \ {id} : Range(lp.oms) \cap OmsOf(b, j) # {}} = Sharing(m, lp.oms, id)
  BY <1>4 DEF Sharing, Lit, OmsOf, Put
<1>6. Is(InvalidateSharing(b, lp.oms, {id}), b.lightpaths, b.before,
         Drop(b.qot, {j \in Lit(b) \ {id} : Range(lp.oms) \cap OmsOf(b, j) # {}}),
         b.ipLinks, b.services, b.failed, b.impair)
  BY <1>4, InvalidateIs
<1> QED BY <1>2, <1>4, <1>5, <1>6

\* The links that ride a lightpath.
LinksOver(m, id) == {k \in DOMAIN m.ipLinks : m.ipLinks[k].lightpath = id}
OrderWithout(m, id) == {p \in m.before : id \notin {p[1], p[2]}}

\* What remove_lightpath leaves in each field.
LEMMA RemoveLightpathIs ==
  ASSUME NEW m, IsRecord(m), NEW id \in Lit(m)
  PROVE  Is(RemoveLightpath(m, id), Drop(m.lightpaths, {id}), OrderWithout(m, id),
            Drop(Drop(m.qot, {id}), Sharing(m, m.lightpaths[id].oms, id)),
            Drop(m.ipLinks, LinksOver(m, id)), m.services, m.failed, m.impair)
<1> DEFINE seq == m.lightpaths[id].oms
           a == [m EXCEPT !.ipLinks = Drop(m.ipLinks, LinksOver(m, id))]
           b == [a EXCEPT !.lightpaths = Drop(m.lightpaths, {id})]
           c == [b EXCEPT !.qot = Drop(m.qot, {id})]
           d == [c EXCEPT !.before = OrderWithout(m, id)]
<1>1. Is(a, m.lightpaths, m.before, m.qot, Drop(m.ipLinks, LinksOver(m, id)),
         m.services, m.failed, m.impair)
  BY SetField DEF IsRecord
<1>2. RemoveLightpath(m, id) = InvalidateSharing(d, seq, {})
  BY Zenon DEF RemoveLightpath, LinksOver, OrderWithout
<1> HIDE DEF a
<1>3. Is(b, Drop(m.lightpaths, {id}), m.before, m.qot, Drop(m.ipLinks, LinksOver(m, id)),
         m.services, m.failed, m.impair)
  BY <1>1, SetField
<1> HIDE DEF b
<1>4. Is(c, Drop(m.lightpaths, {id}), m.before, Drop(m.qot, {id}),
         Drop(m.ipLinks, LinksOver(m, id)), m.services, m.failed, m.impair)
  BY <1>3, SetField
<1> HIDE DEF c
<1>5. Is(d, Drop(m.lightpaths, {id}), OrderWithout(m, id), Drop(m.qot, {id}),
         Drop(m.ipLinks, LinksOver(m, id)), m.services, m.failed, m.impair)
  BY <1>4, SetField
<1> HIDE DEF d
<1>6. /\ IsRecord(d) /\ d.lightpaths = Drop(m.lightpaths, {id})
      /\ d.before = OrderWithout(m, id) /\ d.qot = Drop(m.qot, {id})
      /\ d.ipLinks = Drop(m.ipLinks, LinksOver(m, id)) /\ d.services = m.services
      /\ d.failed = m.failed /\ d.impair = m.impair
  BY <1>5, IsFields
<1>7. {j \in Lit(d) \ {} : Range(seq) \cap OmsOf(d, j) # {}} = Sharing(m, seq, id)
  BY <1>6 DEF Sharing, Lit, OmsOf, Drop, Restrict
<1>8. Is(InvalidateSharing(d, seq, {}), d.lightpaths, d.before,
         Drop(d.qot, {j \in Lit(d) \ {} : Range(seq) \cap OmsOf(d, j) # {}}),
         d.ipLinks, d.services, d.failed, d.impair)
  BY <1>6, InvalidateIs
<1> QED BY <1>2, <1>6, <1>7, <1>8

-------------------------------------------------------------------------------
(* How the records of one model carry over to another.                     *)

\* A well-typed model is the record of its fields.
LEMMA ModelIsRecord ==
  ASSUME NEW m, IsModel(m)
  PROVE  IsRecord(m)
BY DEF IsModel, IsRecord, Is

\* The propagation of a lightpath reads its own record, the slots of the
\* lightpaths next to it and the impairments.
LEMMA PropagateReads ==
  ASSUME NEW m, NEW n, NEW j \in Lit(m), j \in Lit(n),
         m.lightpaths[j] = n.lightpaths[j], m.impair = n.impair,
         NEW N, N = {o \in Lit(m) : o = j \/ OmsOf(m, o) \cap OmsOf(m, j) # {}},
         N = {o \in Lit(n) : o = j \/ OmsOf(n, o) \cap OmsOf(n, j) # {}},
         \A o \in N : m.lightpaths[o].slot = n.lightpaths[o].slot
  PROVE  Propagate(m, j) = Propagate(n, j)
<1>1. Comb(m, j) = {m.lightpaths[o].slot : o \in N} \cap Slots
  BY DEF Comb
<1>2. Comb(n, j) = {n.lightpaths[o].slot : o \in N} \cap Slots
  BY DEF Comb
<1>3. {m.lightpaths[o].slot : o \in N} = {n.lightpaths[o].slot : o \in N}
  OBVIOUS
<1> QED BY <1>1, <1>2, <1>3 DEF Propagate

\* A record that survives unchanged, of a lightpath that is unchanged and
\* propagates to the same value, keeps the three QoT invariants.
LEMMA QotCarries ==
  ASSUME NEW m, NEW n, QotInv(m), DOMAIN m.qot \subseteq Lit(m),
         DOMAIN n.qot \subseteq DOMAIN m.qot,
         \A j \in DOMAIN n.qot :
           /\ n.qot[j] = m.qot[j]
           /\ n.lightpaths[j].oms = m.lightpaths[j].oms
           /\ Propagate(n, j) = Propagate(m, j)
           /\ IsSentinel(m, j) => Crossed(m, j, m.failed) \subseteq n.failed
  PROVE  QotInv(n)
<1>1. ASSUME NEW j \in DOMAIN n.qot
      PROVE  /\ j \in DOMAIN m.qot
             /\ IsMeasured(n, j) <=> IsMeasured(m, j)
             /\ IsSentinel(n, j) <=> IsSentinel(m, j)
  BY DEF IsMeasured, IsSentinel
<1>2. FreshQot(n)
  BY <1>1 DEF QotInv, FreshQot
<1>3. Resolvable(n)
  BY <1>1 DEF QotInv, Resolvable
<1>4. Justified(n)
  <2> SUFFICES ASSUME NEW j \in DOMAIN n.qot, IsSentinel(n, j)
               PROVE  Crossed(n, j, n.failed) # {}
    BY DEF Justified
  <2>1. Crossed(m, j, m.failed) # {} /\ Crossed(m, j, m.failed) \subseteq n.failed
    BY <1>1 DEF QotInv, Justified
  <2> QED BY <2>1 DEF Crossed
<1> QED BY <1>2, <1>3, <1>4 DEF QotInv

-------------------------------------------------------------------------------
(* What a call may do to the lit lightpaths and their records.             *)

\* n lights what m lights, on the same sections and slots; what it newly measures
\* crosses nothing that has failed.
Steady(m, n) ==
  /\ Lit(n) = Lit(m)
  /\ \A j \in Lit(m) : /\ n.lightpaths[j].oms = m.lightpaths[j].oms
                        /\ n.lightpaths[j].slot = m.lightpaths[j].slot
  /\ \A j \in DOMAIN n.qot :
       IsMeasured(n, j) => IsMeasured(m, j) \/ Crossed(n, j, n.failed) = {}

\* n lights one more lightpath; records go on its sections only.
Lights(m, n, id) ==
  /\ id \notin Lit(m) /\ Lit(n) = Lit(m) \cup {id}
  /\ Chained(n.lightpaths[id].oms)
  /\ GridChecked => n.lightpaths[id].slot \in Slots
  /\ \A j \in Lit(m) : n.lightpaths[j] = m.lightpaths[j]
  /\ DOMAIN n.qot = DOMAIN m.qot \ Sharing(m, n.lightpaths[id].oms, id)
  /\ \A j \in DOMAIN n.qot : n.qot[j] = m.qot[j]

\* n lights one lightpath less; records go on its sections only.
Darkens(m, n, id) ==
  /\ id \in Lit(m) /\ Lit(n) = Lit(m) \ {id}
  /\ \A j \in Lit(n) : n.lightpaths[j] = m.lightpaths[j]
  /\ DOMAIN n.qot = (DOMAIN m.qot \ {id}) \ Sharing(m, m.lightpaths[id].oms, id)
  /\ \A j \in DOMAIN n.qot : n.qot[j] = m.qot[j]

Relit(m, n) == Steady(m, n) \/ \E id : Lights(m, n, id) \/ Darkens(m, n, id)

\* Nothing optical differs.
SameOptics(m, n) ==
  /\ n.lightpaths = m.lightpaths /\ n.before = m.before /\ n.qot = m.qot
  /\ n.failed = m.failed /\ n.impair = m.impair

\* Two models with the same optics relate to a third in the same way.
LEMMA SameOpticsRelit ==
  ASSUME NEW m, NEW n, NEW o, SameOptics(n, o), Relit(m, n)
  PROVE  Relit(m, o)
<1>1. /\ Lit(o) = Lit(n) /\ o.lightpaths = n.lightpaths /\ o.qot = n.qot
      /\ o.failed = n.failed
      /\ \A j, A : Crossed(o, j, A) = Crossed(n, j, A)
      /\ \A j : IsMeasured(o, j) <=> IsMeasured(n, j)
  BY DEF SameOptics, Lit, Crossed, IsMeasured
<1>2. CASE Steady(m, n)
  <2>1. Steady(m, o)
    BY <1>1, <1>2 DEF Steady
  <2> QED BY <2>1 DEF Relit
<1>3. ASSUME NEW id, Lights(m, n, id) \/ Darkens(m, n, id)
      PROVE  Relit(m, o)
  <2>1. Lights(m, o, id) \/ Darkens(m, o, id)
    BY <1>1, <1>3 DEF Lights, Darkens
  <2> QED BY <2>1 DEF Relit
<1> QED BY <1>2, <1>3 DEF Relit

\* Nothing optical differs, so nothing is relit.
LEMMA SameOpticsSteady ==
  ASSUME NEW m, NEW n, SameOptics(m, n)
  PROVE  Steady(m, n)
BY DEF SameOptics, Steady, Lit, IsMeasured

-------------------------------------------------------------------------------
(* Every operator preserves Coherent.                                      *)

\* add_lightpath: what survives shares no section with the new lightpath.
LEMMA AddLightpathInv ==
  ASSUME NEW m, Coherent(m), NEW id \in LightpathIds, NEW lp \in Lightpath,
         CanAddLightpath(m, id, lp)
  PROVE  /\ Coherent(AddLightpath(m, id, lp))
         /\ Lights(m, AddLightpath(m, id, lp), id)
         /\ AddLightpath(m, id, lp).ipLinks = m.ipLinks
         /\ AddLightpath(m, id, lp).services = m.services
<1> DEFINE n == AddLightpath(m, id, lp)
<1>1. IsModel(m) /\ IsRecord(m) /\ id \notin Lit(m)
  BY ModelIsRecord DEF Coherent, CanAddLightpath
<1>2. /\ IsRecord(n)
      /\ n.lightpaths = Put(m.lightpaths, id, lp)
      /\ n.before = m.before \cup (Lit(m) \X {id})
      /\ n.qot = Drop(m.qot, Sharing(m, lp.oms, id))
      /\ n.ipLinks = m.ipLinks /\ n.services = m.services
      /\ n.failed = m.failed /\ n.impair = m.impair
  <2>1. Is(n, Put(m.lightpaths, id, lp), m.before \cup (Lit(m) \X {id}),
           Drop(m.qot, Sharing(m, lp.oms, id)), m.ipLinks, m.services, m.failed, m.impair)
    BY <1>1, AddLightpathIs
  <2> HIDE DEF n
  <2> QED BY <2>1, IsFields
<1> HIDE DEF n
<1>3. /\ IsMap(n.lightpaths, LightpathIds, Lightpath)
      /\ Lit(n) = Lit(m) \cup {id}
      /\ n.lightpaths[id] = lp
      /\ \A j \in Lit(m) : n.lightpaths[j] = m.lightpaths[j]
  <2>1. IsMap(m.lightpaths, LightpathIds, Lightpath)
    BY <1>1 DEF IsModel
  <2> QED BY <1>1, <1>2, <2>1 DEF Put, IsMap, Lit
<1>4. /\ IsMap(n.qot, Lit(m), QoTState)
      /\ DOMAIN n.qot = DOMAIN m.qot \ Sharing(m, lp.oms, id)
      /\ \A j \in DOMAIN n.qot : n.qot[j] = m.qot[j]
  <2>1. IsMap(m.qot, Lit(m), QoTState)
    BY <1>1 DEF IsModel
  <2> QED BY <1>2, <2>1 DEF Drop, Restrict, IsMap
<1>5. IsModel(n)
  <2>1. IsMap(n.qot, Lit(n), QoTState)
    BY <1>3, <1>4 DEF IsMap
  <2>2. n.before \subseteq Lit(n) \X Lit(n)
    BY <1>1, <1>2, <1>3 DEF IsModel
  <2> QED BY <1>1, <1>2, <1>3, <2>1, <2>2 DEF IsModel, IsRecord, Is
<1>6. QotInv(n)
  <2>1. ASSUME NEW j \in DOMAIN n.qot
        PROVE  /\ n.lightpaths[j].oms = m.lightpaths[j].oms
               /\ Propagate(n, j) = Propagate(m, j)
               /\ Crossed(m, j, m.failed) \subseteq n.failed
    <3> DEFINE N == {o \in Lit(m) : o = j \/ OmsOf(m, o) \cap OmsOf(m, j) # {}}
    <3>1. j \in Lit(m) /\ Range(lp.oms) \cap OmsOf(m, j) = {}
      BY <1>1, <1>4 DEF IsModel, IsMap, Sharing
    <3>2. \A o \in Lit(m) : OmsOf(n, o) = OmsOf(m, o)
      BY <1>3 DEF OmsOf
    <3>3. OmsOf(n, id) = Range(lp.oms)
      BY <1>3 DEF OmsOf
    <3>4. N = {o \in Lit(n) : o = j \/ OmsOf(n, o) \cap OmsOf(n, j) # {}}
      BY <1>1, <1>3, <3>1, <3>2, <3>3
    <3>5. \A o \in N : m.lightpaths[o].slot = n.lightpaths[o].slot
      BY <1>3
    <3> HIDE DEF N
    <3>6. Propagate(m, j) = Propagate(n, j)
      <4>1. N = {o \in Lit(m) : o = j \/ OmsOf(m, o) \cap OmsOf(m, j) # {}}
        BY DEF N
      <4>2. j \in Lit(n) /\ m.lightpaths[j] = n.lightpaths[j] /\ m.impair = n.impair
        BY <1>2, <1>3, <3>1
      <4> QED BY <3>1, <3>4, <3>5, <4>1, <4>2, PropagateReads
    <3> QED BY <1>2, <1>3, <3>1, <3>6 DEF Crossed
  <2>2. DOMAIN m.qot \subseteq Lit(m) /\ DOMAIN n.qot \subseteq DOMAIN m.qot
    BY <1>1, <1>4 DEF IsModel, IsMap
  <2>3. QotInv(m)
    BY DEF Coherent
  <2> QED BY <1>4, <2>1, <2>2, <2>3, QotCarries
<1>7. LinksRideLit(n)
  BY <1>2, <1>3 DEF Coherent, LinksRideLit
<1>8. Lights(m, n, id)
  BY <1>1, <1>3, <1>4 DEF Lights, CanAddLightpath
<1> QED BY <1>2, <1>5, <1>6, <1>7, <1>8 DEF Coherent, n

\* remove_lightpath: survivors on its sections are dropped, links are unbound.
LEMMA RemoveLightpathInv ==
  ASSUME NEW m, Coherent(m), NEW id
  PROVE  /\ Coherent(RemoveLightpath(m, id))
         /\ id \notin Lit(m) => RemoveLightpath(m, id) = m
         /\ id \in Lit(m) => Darkens(m, RemoveLightpath(m, id), id)
         /\ RemoveLightpath(m, id).services = m.services
         /\ \A k \in DOMAIN RemoveLightpath(m, id).ipLinks :
              k \in DOMAIN m.ipLinks /\ RemoveLightpath(m, id).ipLinks[k] = m.ipLinks[k]
<1>0. CASE id \notin Lit(m)
  BY <1>0 DEF RemoveLightpath
<1> SUFFICES ASSUME id \in Lit(m)
             PROVE  /\ Coherent(RemoveLightpath(m, id))
                    /\ Darkens(m, RemoveLightpath(m, id), id)
                    /\ RemoveLightpath(m, id).services = m.services
                    /\ \A k \in DOMAIN RemoveLightpath(m, id).ipLinks :
                         /\ k \in DOMAIN m.ipLinks
                         /\ RemoveLightpath(m, id).ipLinks[k] = m.ipLinks[k]
  BY <1>0
<1> DEFINE n   == RemoveLightpath(m, id)
           seq == m.lightpaths[id].oms
<1>1. IsModel(m) /\ IsRecord(m)
  BY ModelIsRecord DEF Coherent
<1>2. /\ IsRecord(n)
      /\ n.lightpaths = Drop(m.lightpaths, {id}) /\ n.before = OrderWithout(m, id)
      /\ n.qot = Drop(Drop(m.qot, {id}), Sharing(m, seq, id))
      /\ n.ipLinks = Drop(m.ipLinks, LinksOver(m, id)) /\ n.services = m.services
      /\ n.failed = m.failed /\ n.impair = m.impair
  <2>1. Is(n, Drop(m.lightpaths, {id}), OrderWithout(m, id),
           Drop(Drop(m.qot, {id}), Sharing(m, seq, id)),
           Drop(m.ipLinks, LinksOver(m, id)), m.services, m.failed, m.impair)
    BY <1>1, RemoveLightpathIs
  <2> HIDE DEF n
  <2> QED BY <2>1, IsFields
<1> HIDE DEF n, seq
<1>3. /\ IsMap(n.lightpaths, LightpathIds, Lightpath)
      /\ Lit(n) = Lit(m) \ {id}
      /\ \A j \in Lit(n) : n.lightpaths[j] = m.lightpaths[j]
  <2>1. IsMap(m.lightpaths, LightpathIds, Lightpath)
    BY <1>1 DEF IsModel
  <2> QED BY <1>2, <2>1 DEF Drop, Restrict, IsMap, Lit
<1>4. /\ IsMap(n.qot, Lit(m), QoTState)
      /\ DOMAIN n.qot = (DOMAIN m.qot \ {id}) \ Sharing(m, seq, id)
      /\ \A j \in DOMAIN n.qot : n.qot[j] = m.qot[j]
  <2>1. IsMap(m.qot, Lit(m), QoTState)
    BY <1>1 DEF IsModel
  <2> QED BY <1>2, <2>1 DEF Drop, Restrict, IsMap
<1>5. /\ IsMap(n.ipLinks, LinkIds, IPLink)
      /\ DOMAIN n.ipLinks = DOMAIN m.ipLinks \ LinksOver(m, id)
      /\ \A k \in DOMAIN n.ipLinks : n.ipLinks[k] = m.ipLinks[k]
  <2>1. IsMap(m.ipLinks, LinkIds, IPLink)
    BY <1>1 DEF IsModel
  <2> QED BY <1>2, <2>1 DEF Drop, Restrict, IsMap
<1>6. IsModel(n)
  <2>1. IsMap(n.qot, Lit(n), QoTState)
    BY <1>3, <1>4 DEF IsMap
  <2>2. n.before \subseteq Lit(n) \X Lit(n)
    <3>1. m.before \subseteq Lit(m) \X Lit(m)
      BY <1>1 DEF IsModel
    <3> QED BY <1>2, <1>3, <3>1 DEF OrderWithout
  <2> QED BY <1>1, <1>2, <1>3, <1>5, <2>1, <2>2 DEF IsModel, IsRecord, Is
<1>7. QotInv(n)
  <2>1. ASSUME NEW j \in DOMAIN n.qot
        PROVE  /\ n.lightpaths[j].oms = m.lightpaths[j].oms
               /\ Propagate(n, j) = Propagate(m, j)
               /\ Crossed(m, j, m.failed) \subseteq n.failed
    <3> DEFINE N == {o \in Lit(m) : o = j \/ OmsOf(m, o) \cap OmsOf(m, j) # {}}
    <3>1. j \in Lit(n) /\ j \in Lit(m) /\ OmsOf(m, id) \cap OmsOf(m, j) = {}
      BY <1>1, <1>3, <1>4 DEF IsModel, IsMap, Sharing, OmsOf, seq
    <3>2. \A o \in Lit(n) : OmsOf(n, o) = OmsOf(m, o)
      BY <1>3 DEF OmsOf
    <3>3. N = {o \in Lit(n) : o = j \/ OmsOf(n, o) \cap OmsOf(n, j) # {}}
      BY <1>3, <3>1, <3>2
    <3>4. \A o \in N : m.lightpaths[o].slot = n.lightpaths[o].slot
      BY <1>3, <3>3
    <3>5. Propagate(m, j) = Propagate(n, j)
      <4>1. N = {o \in Lit(m) : o = j \/ OmsOf(m, o) \cap OmsOf(m, j) # {}}
        OBVIOUS
      <4> HIDE DEF N
      <4>2. m.lightpaths[j] = n.lightpaths[j] /\ m.impair = n.impair
        BY <1>2, <1>3, <3>1
      <4>3. j \in Lit(m) /\ j \in Lit(n)
        BY <3>1
      <4> QED BY <3>3, <3>4, <4>1, <4>2, <4>3, PropagateReads
    <3> QED BY <1>2, <1>3, <3>1, <3>5 DEF Crossed
  <2>2. DOMAIN m.qot \subseteq Lit(m) /\ DOMAIN n.qot \subseteq DOMAIN m.qot
    BY <1>1, <1>4 DEF IsModel, IsMap
  <2>3. QotInv(m)
    BY DEF Coherent
  <2> QED BY <1>4, <2>1, <2>2, <2>3, QotCarries
<1>8. LinksRideLit(n)
  BY <1>3, <1>5 DEF Coherent, LinksRideLit, LinksOver
<1>9. Darkens(m, n, id)
  BY <1>3, <1>4 DEF Darkens, seq
<1> QED BY <1>2, <1>5, <1>6, <1>7, <1>8, <1>9 DEF Coherent, n

\* set_lightpath_mode: its own QoT is dropped; no other propagation reads it.
LEMMA SetLightpathModeInv ==
  ASSUME NEW m, Coherent(m), NEW id \in Lit(m), NEW mode \in Modes
  PROVE  /\ Coherent(SetLightpathMode(m, id, mode))
         /\ Steady(m, SetLightpathMode(m, id, mode))
         /\ SetLightpathMode(m, id, mode).ipLinks = m.ipLinks
         /\ SetLightpathMode(m, id, mode).services = m.services
<1> DEFINE n   == SetLightpathMode(m, id, mode)
           lps == [m.lightpaths EXCEPT ![id] = [m.lightpaths[id] EXCEPT !.mode = mode]]
           a   == [m EXCEPT !.lightpaths = lps]
<1>1. IsModel(m) /\ IsRecord(m)
  BY ModelIsRecord DEF Coherent
<1>2. /\ IsRecord(n) /\ n.lightpaths = lps /\ n.before = m.before
      /\ n.qot = Drop(m.qot, {id}) /\ n.ipLinks = m.ipLinks
      /\ n.services = m.services /\ n.failed = m.failed /\ n.impair = m.impair
  <2> HIDE DEF lps
  <2>1. Is(a, lps, m.before, m.qot, m.ipLinks, m.services, m.failed, m.impair)
    BY <1>1, SetField DEF IsRecord
  <2>2. n = [a EXCEPT !.qot = Drop(m.qot, {id})]
    BY Zenon DEF SetLightpathMode, lps
  <2> HIDE DEF a, n
  <2>3. Is(n, lps, m.before, Drop(m.qot, {id}), m.ipLinks, m.services, m.failed, m.impair)
    BY <2>1, <2>2, SetField
  <2> QED BY <2>3, IsFields
<1> HIDE DEF n
<1>3. /\ IsMap(n.lightpaths, LightpathIds, Lightpath)
      /\ Lit(n) = Lit(m)
      /\ \A j \in Lit(m) \ {id} : n.lightpaths[j] = m.lightpaths[j]
      /\ \A j \in Lit(m) : /\ n.lightpaths[j].oms = m.lightpaths[j].oms
                           /\ n.lightpaths[j].slot = m.lightpaths[j].slot
  <2>1. IsMap(m.lightpaths, LightpathIds, Lightpath)
    BY <1>1 DEF IsModel
  <2> QED BY <1>2, <2>1 DEF IsMap, Lit, Lightpath
<1>4. /\ IsMap(n.qot, Lit(m), QoTState)
      /\ DOMAIN n.qot = DOMAIN m.qot \ {id}
      /\ \A j \in DOMAIN n.qot : n.qot[j] = m.qot[j]
  <2>1. IsMap(m.qot, Lit(m), QoTState)
    BY <1>1 DEF IsModel
  <2> QED BY <1>2, <2>1 DEF Drop, Restrict, IsMap
<1>5. IsModel(n)
  BY <1>1, <1>2, <1>3, <1>4 DEF IsModel, IsRecord, Is
<1>6. QotInv(n)
  <2>1. ASSUME NEW j \in DOMAIN n.qot
        PROVE  /\ n.lightpaths[j].oms = m.lightpaths[j].oms
               /\ Propagate(n, j) = Propagate(m, j)
               /\ Crossed(m, j, m.failed) \subseteq n.failed
    <3> DEFINE N == {o \in Lit(m) : o = j \/ OmsOf(m, o) \cap OmsOf(m, j) # {}}
    <3>1. j \in Lit(n) /\ j \in Lit(m) /\ j # id
      BY <1>1, <1>3, <1>4 DEF IsModel, IsMap
    <3>2. \A o \in Lit(n) : OmsOf(n, o) = OmsOf(m, o)
      BY <1>3 DEF OmsOf
    <3>3. N = {o \in Lit(n) : o = j \/ OmsOf(n, o) \cap OmsOf(n, j) # {}}
      BY <1>3, <3>1, <3>2
    <3>4. \A o \in N : m.lightpaths[o].slot = n.lightpaths[o].slot
      BY <1>3, <3>3
    <3>5. Propagate(m, j) = Propagate(n, j)
      <4>1. N = {o \in Lit(m) : o = j \/ OmsOf(m, o) \cap OmsOf(m, j) # {}}
        OBVIOUS
      <4> HIDE DEF N
      <4>2. m.lightpaths[j] = n.lightpaths[j] /\ m.impair = n.impair
        BY <1>2, <1>3, <3>1
      <4>3. j \in Lit(m) /\ j \in Lit(n)
        BY <3>1
      <4> QED BY <3>3, <3>4, <4>1, <4>2, <4>3, PropagateReads
    <3> QED BY <1>2, <1>3, <3>1, <3>5 DEF Crossed
  <2>2. DOMAIN m.qot \subseteq Lit(m) /\ DOMAIN n.qot \subseteq DOMAIN m.qot
    BY <1>1, <1>4 DEF IsModel, IsMap
  <2>3. QotInv(m)
    BY DEF Coherent
  <2> QED BY <1>4, <2>1, <2>2, <2>3, QotCarries
<1>7. LinksRideLit(n)
  BY <1>2, <1>3 DEF Coherent, LinksRideLit
<1>8. Steady(m, n)
  BY <1>3, <1>4 DEF Steady, IsMeasured
<1> QED BY <1>2, <1>5, <1>6, <1>7, <1>8 DEF Coherent, n

\* apply_nf_delta and apply_loss_delta: every record goes.
LEMMA ImpairInv ==
  ASSUME NEW m, Coherent(m), NEW asset \in Impairable, NEW level \in Levels
  PROVE  /\ Coherent(Impair(m, asset, level))
         /\ Steady(m, Impair(m, asset, level))
         /\ Impair(m, asset, level).ipLinks = m.ipLinks
         /\ Impair(m, asset, level).services = m.services
         /\ DOMAIN Impair(m, asset, level).qot = {}
<1> DEFINE n   == Impair(m, asset, level)
           imp == [m.impair EXCEPT ![asset] = level]
           a   == [m EXCEPT !.impair = imp]
<1>1. IsModel(m) /\ IsRecord(m)
  BY ModelIsRecord DEF Coherent
<1>2. /\ IsRecord(n) /\ n.lightpaths = m.lightpaths /\ n.before = m.before
      /\ n.qot = EmptyMap /\ n.ipLinks = m.ipLinks
      /\ n.services = m.services /\ n.failed = m.failed /\ n.impair = imp
  <2> HIDE DEF imp
  <2>1. Is(a, m.lightpaths, m.before, m.qot, m.ipLinks, m.services, m.failed, imp)
    BY <1>1, SetField DEF IsRecord
  <2>2. n = [a EXCEPT !.qot = EmptyMap]
    BY Zenon DEF Impair, imp
  <2> HIDE DEF a, n
  <2>3. Is(n, m.lightpaths, m.before, EmptyMap, m.ipLinks, m.services, m.failed, imp)
    BY <2>1, <2>2, SetField
  <2> QED BY <2>3, IsFields
<1> HIDE DEF n
<1>3. DOMAIN n.qot = {} /\ IsMap(n.qot, Lit(n), QoTState)
  BY <1>2 DEF EmptyMap, IsMap
<1>4. IsModel(n)
  BY <1>1, <1>2, <1>3 DEF IsModel, IsRecord, Is, Lit
<1>5. QotInv(n)
  BY <1>3 DEF QotInv, FreshQot, Justified, Resolvable
<1>6. LinksRideLit(n)
  BY <1>2 DEF Coherent, LinksRideLit, Lit
<1>7. Steady(m, n)
  BY <1>2, <1>3 DEF Steady, Lit
<1> QED BY <1>2, <1>3, <1>4, <1>5, <1>6, <1>7 DEF Coherent, n

-------------------------------------------------------------------------------
(* Failures.                                                               *)

\* A footprint holds sections and assets only.
LEMMA FootprintFailable ==
  ASSUME NEW seq, Range(seq) \subseteq OMS
  PROVE  Footprint(seq) \subseteq Failable
<1>1. OmsAssets(seq) \subseteq Failable
  BY TopologyAssumption DEF OmsAssets, Failable
<1>2. TerminalRoadm(seq) \subseteq Failable
  BY TopologyAssumption DEF TerminalRoadm, Failable
<1> QED BY <1>1, <1>2 DEF Footprint

\* A non-empty set of assets has a lexically first one.
LEMMA MarkerIn ==
  ASSUME NEW S, S \subseteq Failable, S # {}
  PROVE  Marker(S) \in S
<1> DEFINE T == {Rank[a] : a \in S}
<1>1. T \in SUBSET Nat /\ T # {}
  BY TopologyAssumption
<1>2. PICK n \in T : \A k \in T : n <= k
  BY <1>1, LeastIn
<1>3. \E a \in S : \A b \in S : Rank[a] <= Rank[b]
  BY <1>2
<1> QED BY <1>3 DEF Marker

\* The sentinel for a non-empty set of crossed assets is a QoT record.
LEMMA SentinelTyped ==
  ASSUME NEW S, S \subseteq Failable, S # {}
  PROVE  Sentinel(S) \in QoTState /\ Sentinel(S).kind = "failed"
BY MarkerIn DEF Sentinel, Sentinels, QoTState

\* What a lit lightpath crosses can fail.
LEMMA CrossedFailable ==
  ASSUME NEW m, IsModel(m), NEW id \in Lit(m), NEW assets
  PROVE  Crossed(m, id, assets) \subseteq Failable
<1>1. m.lightpaths[id] \in Lightpath
  BY DEF IsModel, IsMap, Lit
<1>2. Range(m.lightpaths[id].oms) \subseteq OMS
  BY <1>1 DEF Lightpath, Range
<1> QED BY <1>2, FootprintFailable DEF Crossed

\* n is m with other QoT records and another failed set, all well-typed.
SameBut(m, n, qot, failed) ==
  /\ n.qot = qot /\ n.failed = failed /\ Lit(n) = Lit(m)
  /\ n.ipLinks = m.ipLinks /\ n.services = m.services
  /\ IsModel(n) /\ LinksRideLit(n)
  /\ \A j \in Lit(m) : /\ n.lightpaths[j] = m.lightpaths[j]
                       /\ Propagate(n, j) = Propagate(m, j)
  /\ \A j, A : Crossed(n, j, A) = Crossed(m, j, A)

\* A model that differs in its QoT records and failed set only.
LEMMA SameButQot ==
  ASSUME NEW m, Coherent(m), NEW n, NEW qot, NEW failed, failed \subseteq Failable,
         IsMap(qot, Lit(m), QoTState),
         Is(n, m.lightpaths, m.before, qot, m.ipLinks, m.services, failed, m.impair)
  PROVE  SameBut(m, n, qot, failed)
<1>1. /\ IsRecord(n) /\ n.lightpaths = m.lightpaths /\ n.before = m.before
      /\ n.qot = qot /\ n.ipLinks = m.ipLinks /\ n.services = m.services
      /\ n.failed = failed /\ n.impair = m.impair
  BY IsFields
<1>2. Lit(n) = Lit(m)
  BY <1>1 DEF Lit
<1>3. IsModel(n)
  BY <1>1, <1>2 DEF Coherent, IsModel, IsRecord, Is
<1>4. LinksRideLit(n)
  BY <1>1, <1>2 DEF Coherent, LinksRideLit
<1>5. \A j : OmsOf(n, j) = OmsOf(m, j)
  BY <1>1 DEF OmsOf
<1>6. ASSUME NEW j \in Lit(m) PROVE Propagate(n, j) = Propagate(m, j)
  <2>1. Comb(n, j) = Comb(m, j)
    BY <1>1, <1>2, <1>5 DEF Comb
  <2> QED BY <1>1, <2>1 DEF Propagate
<1>7. \A j, A : Crossed(n, j, A) = Crossed(m, j, A)
  BY <1>1 DEF Crossed
<1> QED BY <1>1, <1>2, <1>3, <1>4, <1>6, <1>7 DEF SameBut

\* mark_failed: the failed set only grows, the records stay.
LEMMA MarkFailedInv ==
  ASSUME NEW m, Coherent(m), NEW assets \in SUBSET Failable
  PROVE  /\ Coherent(MarkFailed(m, assets))
         /\ Steady(m, MarkFailed(m, assets))
         /\ MarkFailed(m, assets).ipLinks = m.ipLinks
         /\ MarkFailed(m, assets).services = m.services
<1> DEFINE n == MarkFailed(m, assets)
           F == m.failed \cup assets
<1>1. Is(n, m.lightpaths, m.before, m.qot, m.ipLinks, m.services, F, m.impair)
  BY ModelIsRecord, SetField DEF Coherent, IsRecord, MarkFailed
<1>2. F \subseteq Failable /\ m.failed \subseteq F /\ IsMap(m.qot, Lit(m), QoTState)
  BY DEF Coherent, IsModel
<1> HIDE DEF n, F
<1>3. SameBut(m, n, m.qot, F)
  BY <1>1, <1>2, SameButQot
<1>4. QotInv(n)
  <2>1. QotInv(m) /\ DOMAIN m.qot \subseteq Lit(m)
    BY <1>2 DEF Coherent, IsMap
  <2>2. \A j \in DOMAIN n.qot :
          /\ n.qot[j] = m.qot[j]
          /\ n.lightpaths[j].oms = m.lightpaths[j].oms
          /\ Propagate(n, j) = Propagate(m, j)
          /\ Crossed(m, j, m.failed) \subseteq n.failed
    BY <1>2, <1>3, <2>1 DEF SameBut, Crossed
  <2> QED BY <1>3, <2>1, <2>2, QotCarries DEF SameBut
<1>5. Steady(m, n)
  BY <1>3 DEF SameBut, Steady, IsMeasured
<1> QED BY <1>3, <1>4, <1>5 DEF SameBut, Coherent, n

\* A record that is either carried over, a justified sentinel or a fresh
\* measurement of a path that can be propagated keeps the QoT invariants.
LEMMA QotRederived ==
  ASSUME NEW m, Coherent(m), NEW n, NEW qot, NEW failed, SameBut(m, n, qot, failed),
         DOMAIN qot \subseteq Lit(m),
         \A j \in DOMAIN qot :
           \/ /\ j \in DOMAIN m.qot /\ qot[j] = m.qot[j]
              /\ IsSentinel(m, j) => Crossed(m, j, failed) # {}
           \/ qot[j].kind = "failed" /\ Crossed(m, j, failed) # {}
           \/ /\ qot[j] = Propagate(m, j) /\ Propagatable(m.lightpaths[j].oms)
              /\ Crossed(m, j, failed) = {}
  PROVE  /\ Coherent(n) /\ Steady(m, n)
         /\ n.ipLinks = m.ipLinks /\ n.services = m.services
<1>1. QotInv(m)
  BY DEF Coherent
<1>2. \A j \in Lit(m) : Propagate(m, j).kind = "measured"
  BY DEF Propagate
<1>3. ASSUME NEW j \in DOMAIN n.qot
      PROVE  /\ IsMeasured(n, j) => n.qot[j] = Propagate(n, j)
             /\ IsMeasured(n, j) => Propagatable(n.lightpaths[j].oms)
             /\ IsSentinel(n, j) => Crossed(n, j, n.failed) # {}
             /\ IsMeasured(n, j) => IsMeasured(m, j) \/ Crossed(n, j, n.failed) = {}
  <2>1. /\ n.qot = qot /\ n.failed = failed /\ j \in DOMAIN qot /\ j \in Lit(m)
        /\ n.lightpaths[j] = m.lightpaths[j]
        /\ Propagate(n, j) = Propagate(m, j)
        /\ Crossed(n, j, failed) = Crossed(m, j, failed)
    BY DEF SameBut
  <2>2. CASE /\ j \in DOMAIN m.qot /\ qot[j] = m.qot[j]
             /\ IsSentinel(m, j) => Crossed(m, j, failed) # {}
    BY <1>1, <2>1, <2>2 DEF QotInv, FreshQot, Resolvable, IsMeasured, IsSentinel
  <2>3. CASE qot[j].kind = "failed" /\ Crossed(m, j, failed) # {}
    BY <2>1, <2>3 DEF IsMeasured, IsSentinel
  <2>4. CASE /\ qot[j] = Propagate(m, j) /\ Propagatable(m.lightpaths[j].oms)
             /\ Crossed(m, j, failed) = {}
    BY <1>2, <2>1, <2>4 DEF IsMeasured, IsSentinel
  <2> QED BY <2>1, <2>2, <2>3, <2>4
<1>4. FreshQot(n) /\ Resolvable(n) /\ Justified(n)
  BY <1>3 DEF FreshQot, Resolvable, Justified
<1>5. Steady(m, n)
  BY <1>3 DEF Steady, SameBut
<1> QED BY <1>4, <1>5 DEF Coherent, QotInv, SameBut

\* What inject_failure leaves in the records, and in the other fields.
Downed(m, assets) ==
  [id \in DOMAIN m.qot \cup {id \in Lit(m) : Crossed(m, id, assets) # {}} |->
     IF id \in {j \in Lit(m) : Crossed(m, j, assets) # {}}
     THEN Sentinel(Crossed(m, id, assets)) ELSE m.qot[id]]

LEMMA InjectFailureIs ==
  ASSUME NEW m, Coherent(m), NEW assets
  PROVE  Is(InjectFailure(m, assets), m.lightpaths, m.before, Downed(m, assets), m.ipLinks,
            m.services, m.failed \cup assets, m.impair)
<1> DEFINE n == InjectFailure(m, assets)
           F == m.failed \cup assets
           Q == Downed(m, assets)
           a == MarkFailed(m, assets)
<1>1. Is(a, m.lightpaths, m.before, m.qot, m.ipLinks, m.services, F, m.impair)
  BY ModelIsRecord, SetField DEF Coherent, IsRecord, MarkFailed
<1>2. n = [a EXCEPT !.qot = Q]
  <2> DEFINE downed == {id \in Lit(m) : Crossed(m, id, assets) # {}}
  <2>1. /\ a.qot = m.qot /\ Lit(a) = Lit(m)
        /\ \A id, A : Crossed(a, id, A) = Crossed(m, id, A)
    <3> HIDE DEF a
    <3>1. a.qot = m.qot /\ a.lightpaths = m.lightpaths
      BY <1>1, IsFields
    <3> QED BY <3>1 DEF Lit, Crossed
  <2>2. n = [a EXCEPT !.qot = [id \in DOMAIN a.qot \cup downed |->
               IF id \in downed THEN Sentinel(Crossed(m, id, assets)) ELSE a.qot[id]]]
    BY Zenon DEF InjectFailure
  <2>3. Q = [id \in DOMAIN m.qot \cup downed |->
               IF id \in downed THEN Sentinel(Crossed(m, id, assets)) ELSE m.qot[id]]
    BY Zenon DEF Downed
  <2> HIDE DEF a, n, Q, downed
  <2> QED BY <2>1, <2>2, <2>3
<1> HIDE DEF a, n, Q, F
<1>3. Is(n, m.lightpaths, m.before, Q, m.ipLinks, m.services, F, m.impair)
  BY <1>1, <1>2, SetField
<1> QED BY <1>3 DEF n, Q, F

\* inject_failure: every lightpath it touches crosses an asset it failed.
LEMMA InjectFailureInv ==
  ASSUME NEW m, Coherent(m), NEW assets \in SUBSET Failable
  PROVE  /\ Coherent(InjectFailure(m, assets))
         /\ Steady(m, InjectFailure(m, assets))
         /\ InjectFailure(m, assets).ipLinks = m.ipLinks
         /\ InjectFailure(m, assets).services = m.services
<1> DEFINE n == InjectFailure(m, assets)
           F == m.failed \cup assets
           downed == {id \in Lit(m) : Crossed(m, id, assets) # {}}
           Q == Downed(m, assets)
<1>1. Is(n, m.lightpaths, m.before, Q, m.ipLinks, m.services, F, m.impair)
  BY InjectFailureIs
<1>2. /\ DOMAIN Q = DOMAIN m.qot \cup downed
      /\ \A id \in DOMAIN Q : Q[id] = IF id \in downed THEN Sentinel(Crossed(m, id, assets)) ELSE m.qot[id]
  BY DEF Downed
<1>3. Q = [id \in DOMAIN Q |-> Q[id]]
  BY DEF Downed
<1> HIDE DEF Q
<1>4. /\ F \subseteq Failable /\ m.failed \subseteq F /\ assets \subseteq F
      /\ IsMap(m.qot, Lit(m), QoTState) /\ DOMAIN m.qot \subseteq Lit(m)
      /\ IsModel(m)
  BY DEF Coherent, IsModel, IsMap
<1>5. ASSUME NEW id \in downed
      PROVE  /\ Sentinel(Crossed(m, id, assets)) \in QoTState
             /\ Sentinel(Crossed(m, id, assets)).kind = "failed"
  BY <1>4, CrossedFailable, SentinelTyped
<1>6. IsMap(Q, Lit(m), QoTState) /\ DOMAIN Q \subseteq Lit(m)
  BY <1>2, <1>3, <1>4, <1>5 DEF IsMap
<1>7. ASSUME NEW j \in DOMAIN Q
      PROVE  \/ /\ j \in DOMAIN m.qot /\ Q[j] = m.qot[j]
                /\ IsSentinel(m, j) => Crossed(m, j, F) # {}
             \/ Q[j].kind = "failed" /\ Crossed(m, j, F) # {}
  <2>1. CASE j \in downed
    BY <1>2, <1>4, <1>5, <2>1 DEF Crossed
  <2>2. CASE j \notin downed
    <3>1. j \in DOMAIN m.qot /\ Q[j] = m.qot[j]
      BY <1>2, <2>2
    <3>2. IsSentinel(m, j) => Crossed(m, j, m.failed) # {}
      BY <3>1 DEF Coherent, QotInv, Justified
    <3> QED BY <1>4, <3>1, <3>2 DEF Crossed
  <2> QED BY <2>1, <2>2
<1> HIDE DEF n, F, downed
<1>8. SameBut(m, n, Q, F)
  BY <1>1, <1>4, <1>6, SameButQot
<1>9. /\ Coherent(n) /\ Steady(m, n)
      /\ n.ipLinks = m.ipLinks /\ n.services = m.services
  BY <1>6, <1>7, <1>8, QotRederived
<1> QED BY <1>9 DEF n

\* clear_failed: the sentinels that stay cross an asset that is still failed.
LEMMA ClearFailedInv ==
  ASSUME NEW m, Coherent(m), NEW assets
  PROVE  /\ Coherent(ClearFailed(m, assets))
         /\ Steady(m, ClearFailed(m, assets))
         /\ ClearFailed(m, assets).ipLinks = m.ipLinks
         /\ ClearFailed(m, assets).services = m.services
<1> DEFINE n == ClearFailed(m, assets)
           F == IF assets = {} THEN {} ELSE m.failed \ assets
           lifted == {id \in Lit(m) : IsSentinel(m, id) /\ Crossed(m, id, F) = {}}
           a == [m EXCEPT !.failed = F]
<1>1. Is(n, m.lightpaths, m.before, Drop(m.qot, lifted), m.ipLinks, m.services, F, m.impair)
  <2>1. n = [a EXCEPT !.qot = Drop(m.qot, lifted)]
    BY Zenon DEF ClearFailed
  <2> HIDE DEF lifted, F
  <2>2. Is(a, m.lightpaths, m.before, m.qot, m.ipLinks, m.services, F, m.impair)
    BY ModelIsRecord, SetField DEF Coherent, IsRecord
  <2> HIDE DEF a, n
  <2> QED BY <2>1, <2>2, SetField
<1>2. /\ F \subseteq Failable /\ IsMap(m.qot, Lit(m), QoTState)
      /\ DOMAIN m.qot \subseteq Lit(m)
  BY DEF Coherent, IsModel, IsMap
<1> HIDE DEF n, F
<1> DEFINE Q == Drop(m.qot, lifted)
<1>3. /\ IsMap(Q, Lit(m), QoTState) /\ DOMAIN Q \subseteq Lit(m)
      /\ \A j \in DOMAIN Q : /\ j \in DOMAIN m.qot /\ Q[j] = m.qot[j]
                             /\ IsSentinel(m, j) => Crossed(m, j, F) # {}
  BY <1>2 DEF Drop, Restrict, IsMap
<1> HIDE DEF Q, lifted
<1>4. SameBut(m, n, Q, F)
  BY <1>1, <1>2, <1>3, SameButQot DEF Q
<1>5. /\ Coherent(n) /\ Steady(m, n)
      /\ n.ipLinks = m.ipLinks /\ n.services = m.services
  BY <1>3, <1>4, QotRederived
<1> QED BY <1>5 DEF n

-------------------------------------------------------------------------------
(* The recompute.                                                          *)

\* A propagation of a lit lightpath yields a QoT record.
LEMMA PropagateTyped ==
  ASSUME NEW m, IsModel(m), NEW j \in Lit(m)
  PROVE  Propagate(m, j) \in QoTState
<1>1. m.lightpaths[j] \in Lightpath /\ m.impair \in [Impairable -> Levels]
  BY DEF IsModel, IsMap, Lit
<1>2. m.lightpaths[j].mode \in Modes
  BY <1>1 DEF Lightpath
<1>3. Comb(m, j) \in SUBSET Slots
  BY DEF Comb
<1>4. [a \in Impairable |->
         IF a \in Traversed(m.lightpaths[j].oms) THEN m.impair[a] ELSE 0]
        \in [Impairable -> Levels]
  BY <1>1, SpectrumAssumption DEF Levels
<1> QED BY <1>2, <1>3, <1>4 DEF Propagate, Measured, QoTState

\* recompute_qot_under_loading, full or incremental, however far it gets.
LEMMA RecomputeInv ==
  ASSUME NEW m, Coherent(m), NEW onlyMissing \in BOOLEAN
  PROVE  /\ Coherent(Recompute(m, onlyMissing))
         /\ Steady(m, Recompute(m, onlyMissing))
         /\ Recompute(m, onlyMissing).ipLinks = m.ipLinks
         /\ Recompute(m, onlyMissing).services = m.services
<1> DEFINE n == Recompute(m, onlyMissing)
           reached == Reached(m, onlyMissing)
           Q == [id \in DOMAIN m.qot \cup reached |->
                   IF id \notin reached THEN m.qot[id]
                   ELSE IF Crossed(m, id, m.failed) # {} THEN Sentinel(Crossed(m, id, m.failed))
                   ELSE IF onlyMissing /\ id \in DOMAIN m.qot THEN m.qot[id]
                   ELSE Propagate(m, id)]
<1>1. Is(n, m.lightpaths, m.before, Q, m.ipLinks, m.services, m.failed, m.impair)
  <2>1. n = [m EXCEPT !.qot = Q]
    BY Zenon DEF Recompute
  <2> HIDE DEF Q, n
  <2> QED BY <2>1, ModelIsRecord, SetField DEF Coherent, IsRecord
<1>2. /\ m.failed \subseteq Failable /\ IsMap(m.qot, Lit(m), QoTState)
      /\ DOMAIN m.qot \subseteq Lit(m) /\ IsModel(m)
  BY DEF Coherent, IsModel, IsMap
<1>3. ASSUME NEW id \in reached
      PROVE  /\ id \in Lit(m)
             /\ \/ Crossed(m, id, m.failed) # {}
                \/ onlyMissing /\ id \in DOMAIN m.qot
                \/ Propagatable(m.lightpaths[id].oms)
  BY DEF Reached, Blocked
<1>4. ASSUME NEW id \in Lit(m), Crossed(m, id, m.failed) # {}
      PROVE  /\ Sentinel(Crossed(m, id, m.failed)) \in QoTState
             /\ Sentinel(Crossed(m, id, m.failed)).kind = "failed"
  BY <1>2, <1>4, CrossedFailable, SentinelTyped
<1>5. \A id \in Lit(m) : Propagate(m, id) \in QoTState
  BY <1>2, PropagateTyped
<1> HIDE DEF n, reached
<1>6. IsMap(Q, Lit(m), QoTState) /\ DOMAIN Q \subseteq Lit(m)
  BY <1>2, <1>3, <1>4, <1>5 DEF IsMap
<1>7. ASSUME NEW j \in DOMAIN Q
      PROVE  \/ /\ j \in DOMAIN m.qot /\ Q[j] = m.qot[j]
                /\ IsSentinel(m, j) => Crossed(m, j, m.failed) # {}
             \/ Q[j].kind = "failed" /\ Crossed(m, j, m.failed) # {}
             \/ /\ Q[j] = Propagate(m, j) /\ Propagatable(m.lightpaths[j].oms)
                /\ Crossed(m, j, m.failed) = {}
  <2>1. j \in DOMAIN m.qot => (IsSentinel(m, j) => Crossed(m, j, m.failed) # {})
    BY DEF Coherent, QotInv, Justified
  <2>2. CASE j \notin reached
    BY <2>1, <2>2
  <2>3. CASE j \in reached
    <3>1. CASE Crossed(m, j, m.failed) # {}
      BY <1>3, <1>4, <2>3, <3>1
    <3>2. CASE Crossed(m, j, m.failed) = {} /\ onlyMissing /\ j \in DOMAIN m.qot
      BY <2>1, <2>3, <3>2
    <3>3. CASE Crossed(m, j, m.failed) = {} /\ ~ (onlyMissing /\ j \in DOMAIN m.qot)
      BY <1>3, <2>3, <3>3
    <3> QED BY <3>1, <3>2, <3>3
  <2> QED BY <2>2, <2>3
<1> HIDE DEF Q
<1>8. SameBut(m, n, Q, m.failed)
  BY <1>1, <1>2, <1>6, SameButQot
<1>9. /\ Coherent(n) /\ Steady(m, n)
      /\ n.ipLinks = m.ipLinks /\ n.services = m.services
  BY <1>6, <1>7, <1>8, QotRederived
<1> QED BY <1>9 DEF n

\* Whatever the invariant allows, an incremental recompute leaves what the
\* full one leaves: a present record is what deriving it again would give.
LEMMA OnlyMissingLemma ==
  ASSUME NEW m, Coherent(m)
  PROVE  Recompute(m, TRUE).qot = Recompute(m, FALSE).qot
<1> DEFINE Q(b) == [id \in DOMAIN m.qot \cup Reached(m, b) |->
                   IF id \notin Reached(m, b) THEN m.qot[id]
                   ELSE IF Crossed(m, id, m.failed) # {} THEN Sentinel(Crossed(m, id, m.failed))
                   ELSE IF b /\ id \in DOMAIN m.qot THEN m.qot[id]
                   ELSE Propagate(m, id)]
<1>1. Recompute(m, TRUE).qot = Q(TRUE) /\ Recompute(m, FALSE).qot = Q(FALSE)
  <2>1. ASSUME NEW b \in BOOLEAN PROVE Recompute(m, b).qot = Q(b)
    <3>1. Recompute(m, b) = [m EXCEPT !.qot = Q(b)]
      BY Zenon DEF Recompute
    <3> HIDE DEF Q
    <3>2. Is([m EXCEPT !.qot = Q(b)], m.lightpaths, m.before, Q(b), m.ipLinks,
             m.services, m.failed, m.impair)
      BY ModelIsRecord, SetField DEF Coherent, IsRecord
    <3> QED BY <3>1, <3>2, IsFields
  <2> QED BY <2>1
<1>2. ASSUME NEW id \in DOMAIN m.qot, Crossed(m, id, m.failed) = {}
      PROVE  m.qot[id] = Propagate(m, id) /\ Propagatable(m.lightpaths[id].oms)
  <2>1. m.qot[id] \in QoTState
    BY DEF Coherent, IsModel, IsMap
  <2>2. IsMeasured(m, id) \/ IsSentinel(m, id)
    BY <2>1 DEF QoTState, Sentinels, Measured, IsMeasured, IsSentinel
  <2> QED BY <1>2, <2>2 DEF Coherent, QotInv, FreshQot, Justified, Resolvable
<1>3. Blocked(m, TRUE) = Blocked(m, FALSE)
  BY <1>2 DEF Blocked
<1>4. Reached(m, TRUE) = Reached(m, FALSE)
  BY <1>3 DEF Reached
<1>5. Q(TRUE) = Q(FALSE)
  BY <1>2, <1>4
<1> HIDE DEF Q
<1> QED BY <1>1, <1>5

-------------------------------------------------------------------------------
(* The IP layer and the plan operations.                                   *)

\* A model that differs in well-typed, bound links and services alone.
LEMMA SameOptical ==
  ASSUME NEW m, Coherent(m), NEW n, NEW links, NEW services,
         IsMap(links, LinkIds, IPLink), IsMap(services, ServiceIds, Service),
         \A k \in DOMAIN links : links[k].lightpath \in Lit(m),
         Is(n, m.lightpaths, m.before, m.qot, links, services, m.failed, m.impair)
  PROVE  /\ Coherent(n) /\ SameOptics(m, n)
         /\ n.ipLinks = links /\ n.services = services
<1>1. /\ IsRecord(n) /\ n.lightpaths = m.lightpaths /\ n.before = m.before
      /\ n.qot = m.qot /\ n.ipLinks = links /\ n.services = services
      /\ n.failed = m.failed /\ n.impair = m.impair
  BY IsFields
<1>2. Lit(n) = Lit(m)
  BY <1>1 DEF Lit
<1>3. IsModel(n) /\ LinksRideLit(n)
  BY <1>1, <1>2 DEF Coherent, IsModel, IsRecord, Is, LinksRideLit
<1>4. \A j : OmsOf(n, j) = OmsOf(m, j)
  BY <1>1 DEF OmsOf
<1>5. ASSUME NEW j \in Lit(m) PROVE Propagate(n, j) = Propagate(m, j)
  <2>1. Comb(n, j) = Comb(m, j)
    BY <1>1, <1>2, <1>4 DEF Comb
  <2> QED BY <1>1, <2>1 DEF Propagate
<1>6. QotInv(n)
  <2>1. QotInv(m) /\ DOMAIN m.qot \subseteq Lit(m)
    BY DEF Coherent, IsModel, IsMap
  <2> QED BY <1>1, <1>5, <2>1, QotCarries DEF Crossed
<1> QED BY <1>1, <1>3, <1>6 DEF Coherent, SameOptics

\* add_ip_link binds to a lit lightpath, and touches nothing optical.
LEMMA AddIPLinkInv ==
  ASSUME NEW m, Coherent(m), NEW id \in LinkIds, NEW link \in IPLink, CanAddIPLink(m, id, link)
  PROVE  /\ Coherent(AddIPLink(m, id, link)) /\ SameOptics(m, AddIPLink(m, id, link))
         /\ AddIPLink(m, id, link).ipLinks = Put(m.ipLinks, id, link)
         /\ AddIPLink(m, id, link).services = m.services
<1> DEFINE n == AddIPLink(m, id, link)
           links == Put(m.ipLinks, id, link)
<1>1. Is(n, m.lightpaths, m.before, m.qot, links, m.services, m.failed, m.impair)
  BY ModelIsRecord, SetField DEF Coherent, IsRecord, AddIPLink
<1>2. IsMap(m.ipLinks, LinkIds, IPLink) /\ IsMap(m.services, ServiceIds, Service)
  BY DEF Coherent, IsModel
<1>3. IsMap(links, LinkIds, IPLink)
  BY <1>2 DEF Put, IsMap
<1>4. \A k \in DOMAIN links : links[k].lightpath \in Lit(m)
  BY <1>2 DEF Put, IsMap, CanAddIPLink, Coherent, LinksRideLit
<1> HIDE DEF n, links
<1>5. /\ Coherent(n) /\ SameOptics(m, n)
      /\ n.ipLinks = links /\ n.services = m.services
  BY <1>1, <1>2, <1>3, <1>4, SameOptical
<1> QED BY <1>5 DEF n, links

\* remove_ip_link keeps the other links as they were.
LEMMA RemoveIPLinkInv ==
  ASSUME NEW m, Coherent(m), NEW id
  PROVE  /\ Coherent(RemoveIPLink(m, id)) /\ SameOptics(m, RemoveIPLink(m, id))
         /\ RemoveIPLink(m, id).ipLinks = Drop(m.ipLinks, {id})
         /\ RemoveIPLink(m, id).services = m.services
<1> DEFINE n == RemoveIPLink(m, id)
           links == Drop(m.ipLinks, {id})
<1>1. Is(n, m.lightpaths, m.before, m.qot, links, m.services, m.failed, m.impair)
  BY ModelIsRecord, SetField DEF Coherent, IsRecord, RemoveIPLink
<1>2. IsMap(m.ipLinks, LinkIds, IPLink) /\ IsMap(m.services, ServiceIds, Service)
  BY DEF Coherent, IsModel
<1>3. IsMap(links, LinkIds, IPLink)
  BY <1>2 DEF Drop, Restrict, IsMap
<1>4. \A k \in DOMAIN links : links[k].lightpath \in Lit(m)
  BY <1>2 DEF Drop, Restrict, Coherent, LinksRideLit
<1> HIDE DEF n, links
<1>5. /\ Coherent(n) /\ SameOptics(m, n)
      /\ n.ipLinks = links /\ n.services = m.services
  BY <1>1, <1>2, <1>3, <1>4, SameOptical
<1> QED BY <1>5 DEF n, links

\* Services are stored and repointed without any other effect.
LEMMA ServicesInv ==
  ASSUME NEW m, Coherent(m), NEW services, IsMap(services, ServiceIds, Service)
  PROVE  /\ Coherent([m EXCEPT !.services = services])
         /\ SameOptics(m, [m EXCEPT !.services = services])
         /\ [m EXCEPT !.services = services].ipLinks = m.ipLinks
         /\ [m EXCEPT !.services = services].services = services
<1> DEFINE n == [m EXCEPT !.services = services]
<1>1. Is(n, m.lightpaths, m.before, m.qot, m.ipLinks, services, m.failed, m.impair)
  BY ModelIsRecord, SetField DEF Coherent, IsRecord
<1>2. IsMap(m.ipLinks, LinkIds, IPLink) /\ \A k \in DOMAIN m.ipLinks : m.ipLinks[k].lightpath \in Lit(m)
  BY DEF Coherent, IsModel, LinksRideLit
<1> HIDE DEF n
<1>3. /\ Coherent(n) /\ SameOptics(m, n)
      /\ n.ipLinks = m.ipLinks /\ n.services = services
  BY <1>1, <1>2, SameOptical
<1> QED BY <1>3 DEF n

\* The services after a path is set.
WithWorking(m, id, path) ==
  [m.services EXCEPT ![id] = [m.services[id] EXCEPT !.working = path]]
WithProtection(m, id, path) ==
  [m.services EXCEPT ![id] = [m.services[id] EXCEPT !.protection = path]]

\* set_service_working_path and set_service_protection_path.
LEMMA SetPathInv ==
  ASSUME NEW m, Coherent(m), NEW id, NEW path \in Seq(LinkIds), CanSetPath(m, id, path)
  PROVE  \A n \in {SetWorkingPath(m, id, path), SetProtectionPath(m, id, path)} :
           /\ Coherent(n) /\ SameOptics(m, n) /\ n.ipLinks = m.ipLinks
           /\ n.services \in {WithWorking(m, id, path), WithProtection(m, id, path)}
<1>1. IsMap(m.services, ServiceIds, Service) /\ id \in DOMAIN m.services
  BY DEF Coherent, IsModel, CanSetPath
<1>2. IsMap(WithWorking(m, id, path), ServiceIds, Service)
  BY <1>1 DEF WithWorking, IsMap, Service
<1>3. IsMap(WithProtection(m, id, path), ServiceIds, Service)
  BY <1>1 DEF WithProtection, IsMap, Service
<1>4. SetWorkingPath(m, id, path) = [m EXCEPT !.services = WithWorking(m, id, path)]
  BY Zenon DEF SetWorkingPath, WithWorking
<1>5. SetProtectionPath(m, id, path) = [m EXCEPT !.services = WithProtection(m, id, path)]
  BY Zenon DEF SetProtectionPath, WithProtection
<1>6. ASSUME NEW services \in {WithWorking(m, id, path), WithProtection(m, id, path)}
      PROVE  /\ Coherent([m EXCEPT !.services = services])
             /\ SameOptics(m, [m EXCEPT !.services = services])
             /\ [m EXCEPT !.services = services].ipLinks = m.ipLinks
             /\ [m EXCEPT !.services = services].services = services
  BY <1>2, <1>3, ServicesInv
<1> QED BY <1>4, <1>5, <1>6, Zenon

\* add_service.
LEMMA AddServiceInv ==
  ASSUME NEW m, Coherent(m), NEW id \in ServiceIds, NEW s \in Service
  PROVE  /\ Coherent(AddService(m, id, s)) /\ SameOptics(m, AddService(m, id, s))
         /\ AddService(m, id, s).ipLinks = m.ipLinks
         /\ AddService(m, id, s).services = Put(m.services, id, s)
<1>1. IsMap(m.services, ServiceIds, Service)
  BY DEF Coherent, IsModel
<1>2. IsMap(Put(m.services, id, s), ServiceIds, Service)
  BY <1>1 DEF Put, IsMap
<1>3. AddService(m, id, s) = [m EXCEPT !.services = Put(m.services, id, s)]
  BY Zenon DEF AddService
<1> QED BY <1>2, <1>3, ServicesInv

\* The links and services a plan operation may leave behind.
LinksAfter(m, n, op) ==
  \/ \A k \in DOMAIN n.ipLinks : k \in DOMAIN m.ipLinks /\ n.ipLinks[k] = m.ipLinks[k]
  \/ /\ op.op = "provision" /\ op.linkId \in LinkIds
     /\ n.ipLinks = Put(m.ipLinks, op.linkId, BoundLink(op))

ServicesAfter(m, n, op) ==
  \/ n.services = m.services
  \/ /\ op.op = "reroute" /\ op.path \in Seq(LinkIds) /\ CanSetPath(m, op.id, op.path)
     /\ n.services \in {WithWorking(m, op.id, op.path), WithProtection(m, op.id, op.path)}

\* A model that is left as it was.
LEMMA Untouched ==
  ASSUME NEW m, Coherent(m), NEW op
  PROVE  Relit(m, m) /\ LinksAfter(m, m, op) /\ ServicesAfter(m, m, op)
BY DEF Relit, Steady, LinksAfter, ServicesAfter

\* A plan operation, applied, refused or refused half way.
LEMMA ApplyOpInv ==
  ASSUME NEW m, Coherent(m), NEW op, IsOp(op), NEW n, n = ApplyOp(m, op).model
  PROVE  Coherent(n) /\ Relit(m, n) /\ LinksAfter(m, n, op) /\ ServicesAfter(m, n, op)
<1>0. Relit(m, m) /\ LinksAfter(m, m, op) /\ ServicesAfter(m, m, op)
  BY Untouched
<1>1. CASE /\ op.op = "provision"
           /\ op.id \in LightpathIds /\ op.lp \in Lightpath
           /\ op.linkId \in LinkIds \cup {NoLink}
  <2> DEFINE added == AddLightpath(m, op.id, op.lp)
             linked == AddIPLink(added, op.linkId, BoundLink(op))
  <2>1. ApplyOp(m, op) = ApplyProvision(m, op)
    BY <1>1 DEF ApplyOp
  <2>2. ASSUME CanAddLightpath(m, op.id, op.lp)
        PROVE  /\ Coherent(added) /\ Relit(m, added)
               /\ added.ipLinks = m.ipLinks /\ added.services = m.services
    BY <1>1, <2>2, AddLightpathInv DEF Relit
  <2>3. ASSUME CanAddLightpath(m, op.id, op.lp), op.linkId # NoLink,
               CanAddIPLink(added, op.linkId, BoundLink(op))
        PROVE  /\ Coherent(linked) /\ Relit(m, linked)
               /\ LinksAfter(m, linked, op) /\ ServicesAfter(m, linked, op)
    <3>1. /\ Coherent(added) /\ Relit(m, added)
          /\ added.ipLinks = m.ipLinks /\ added.services = m.services
      BY <2>2, <2>3
    <3>2. CanAddIPLink(added, op.linkId, BoundLink(op))
      BY <2>3
    <3> HIDE DEF added
    <3>3. BoundLink(op) \in IPLink /\ op.linkId \in LinkIds
      BY <1>1, <2>3, <3>2 DEF CanAddIPLink, BoundLink, IPLink
    <3>4. /\ Coherent(linked) /\ SameOptics(added, linked)
          /\ linked.ipLinks = Put(m.ipLinks, op.linkId, BoundLink(op))
          /\ linked.services = m.services
      BY <3>1, <3>2, <3>3, AddIPLinkInv
    <3> HIDE DEF linked
    <3>5. Relit(m, linked)
      BY <3>1, <3>4, SameOpticsRelit
    <3> QED BY <1>1, <3>3, <3>4, <3>5 DEF LinksAfter, ServicesAfter
  <2>4. ApplyProvision(m, op) =
          IF LinkIdTaken(m, op) \/ ~ CanAddLightpath(m, op.id, op.lp) THEN PlanError(m)
          ELSE IF op.linkId = NoLink THEN Applied(added)
          ELSE IF CanAddIPLink(added, op.linkId, BoundLink(op)) THEN Applied(linked)
          ELSE PlanError(added)
    BY DEF ApplyProvision
  <2> HIDE DEF added, linked
  <2>5. \/ n = m
        \/ CanAddLightpath(m, op.id, op.lp) /\ n = added
        \/ /\ CanAddLightpath(m, op.id, op.lp) /\ op.linkId # NoLink
           /\ CanAddIPLink(added, op.linkId, BoundLink(op)) /\ n = linked
    BY <2>1, <2>4 DEF PlanError, Applied
  <2>6. CASE CanAddLightpath(m, op.id, op.lp) /\ n = added
    BY <2>2, <2>6 DEF LinksAfter, ServicesAfter
  <2> QED BY <1>0, <2>3, <2>5, <2>6
<1>2. CASE op.op = "teardown" /\ op.id \in LightpathIds
  <2>1. ApplyOp(m, op) = ApplyTeardown(m, op)
    BY <1>2 DEF ApplyOp
  <2>2. n = m \/ (op.id \in Lit(m) /\ n = RemoveLightpath(m, op.id))
    BY <2>1 DEF ApplyTeardown, PlanError, Applied
  <2>3. CASE op.id \in Lit(m) /\ n = RemoveLightpath(m, op.id)
    BY <2>3, RemoveLightpathInv DEF Relit, LinksAfter, ServicesAfter
  <2> QED BY <1>0, <2>2, <2>3
<1>3. CASE op.op = "reroute" /\ op.id \in ServiceIds /\ op.path \in Seq(LinkIds)
  <2>1. ApplyOp(m, op) = ApplyReroute(m, op)
    BY <1>3 DEF ApplyOp
  <2>2. \/ n = m
        \/ /\ CanSetPath(m, op.id, op.path)
           /\ n \in {SetWorkingPath(m, op.id, op.path), SetProtectionPath(m, op.id, op.path)}
    BY <2>1 DEF ApplyReroute, PlanError, Applied
  <2>3. CASE /\ CanSetPath(m, op.id, op.path)
             /\ n \in {SetWorkingPath(m, op.id, op.path), SetProtectionPath(m, op.id, op.path)}
    <3>1. /\ Coherent(n) /\ SameOptics(m, n) /\ n.ipLinks = m.ipLinks
          /\ n.services \in {WithWorking(m, op.id, op.path), WithProtection(m, op.id, op.path)}
      BY <1>3, <2>3, SetPathInv
    <3> QED BY <1>3, <2>3, <3>1, SameOpticsSteady DEF Relit, LinksAfter, ServicesAfter
  <2> QED BY <1>0, <2>2, <2>3
<1>4. CASE op.op = "set_mode" /\ op.id \in LightpathIds
  <2>1. ApplyOp(m, op) = ApplySetMode(m, op)
    BY <1>4 DEF ApplyOp
  <2>2. \/ n = m
        \/ op.id \in Lit(m) /\ op.mode \in Modes /\ n = SetLightpathMode(m, op.id, op.mode)
    BY <2>1 DEF ApplySetMode, PlanError, Applied
  <2>3. CASE op.id \in Lit(m) /\ op.mode \in Modes /\ n = SetLightpathMode(m, op.id, op.mode)
    BY <2>3, SetLightpathModeInv DEF Relit, LinksAfter, ServicesAfter
  <2> QED BY <1>0, <2>2, <2>3
<1> QED BY <1>1, <1>2, <1>3, <1>4 DEF IsOp

-------------------------------------------------------------------------------
(* The imported topology.                                                  *)

\* A freshly imported topology is coherent.
LEMMA EmptyModelInv == Coherent(EmptyModel)
<1> DEFINE m == EmptyModel
<1>1. Is(m, EmptyMap, {}, EmptyMap, EmptyMap, EmptyMap, {}, [a \in Impairable |-> 0])
  BY DEF EmptyModel, Is
<1> HIDE DEF m
<1>2. /\ IsRecord(m) /\ m.lightpaths = EmptyMap /\ m.before = {}
      /\ m.qot = EmptyMap /\ m.ipLinks = EmptyMap
      /\ m.services = EmptyMap /\ m.failed = {}
      /\ m.impair = [a \in Impairable |-> 0]
  BY <1>1, IsFields
<1>3. DOMAIN EmptyMap = {} /\ \A D, R : IsMap(EmptyMap, D, R)
  BY DEF EmptyMap, IsMap
<1>4. m.impair \in [Impairable -> Levels]
  BY <1>2, SpectrumAssumption DEF Levels
<1>5. IsModel(m)
  BY <1>2, <1>3, <1>4 DEF IsModel, IsRecord, Is
<1>6. QotInv(m) /\ LinksRideLit(m)
  BY <1>2, <1>3 DEF QotInv, FreshQot, Justified, Resolvable, LinksRideLit
<1> QED BY <1>5, <1>6 DEF Coherent, m

-------------------------------------------------------------------------------
(* Recomputing late.                                                       *)

\* What a recompute leaves in the records.
Derived(m, onlyMissing) ==
  [id \in DOMAIN m.qot \cup Reached(m, onlyMissing) |->
     IF id \notin Reached(m, onlyMissing) THEN m.qot[id]
     ELSE IF Crossed(m, id, m.failed) # {} THEN Sentinel(Crossed(m, id, m.failed))
     ELSE IF onlyMissing /\ id \in DOMAIN m.qot THEN m.qot[id]
     ELSE Propagate(m, id)]

LEMMA RecomputeQot ==
  ASSUME NEW m, Coherent(m), NEW onlyMissing
  PROVE  Recompute(m, onlyMissing).qot = Derived(m, onlyMissing)
<1>1. Recompute(m, onlyMissing) = [m EXCEPT !.qot = Derived(m, onlyMissing)]
  BY Zenon DEF Recompute, Derived
<1>2. Is([m EXCEPT !.qot = Derived(m, onlyMissing)], m.lightpaths, m.before,
         Derived(m, onlyMissing), m.ipLinks, m.services, m.failed, m.impair)
  BY ModelIsRecord, SetField DEF Coherent, IsRecord
<1> QED BY <1>1, <1>2, IsFields

\* The models differ at most in records the recompute writes anyway.
Near(m, n) ==
  /\ n.lightpaths = m.lightpaths /\ n.before = m.before /\ n.ipLinks = m.ipLinks
  /\ n.services = m.services /\ n.failed = m.failed /\ n.impair = m.impair
  /\ \A id : id \notin Reached(m, FALSE) =>
       /\ id \in DOMAIN n.qot <=> id \in DOMAIN m.qot
       /\ id \in DOMAIN m.qot => n.qot[id] = m.qot[id]

\* Where an incremental recompute stops is where a full one does.
LEMMA SameReach ==
  ASSUME NEW m, Coherent(m)
  PROVE  Reached(m, TRUE) = Reached(m, FALSE)
<1>1. ASSUME NEW id \in DOMAIN m.qot, Crossed(m, id, m.failed) = {}
      PROVE  Propagatable(m.lightpaths[id].oms)
  <2>1. m.qot[id] \in QoTState
    BY DEF Coherent, IsModel, IsMap
  <2>2. IsMeasured(m, id) \/ IsSentinel(m, id)
    BY <2>1 DEF QoTState, Sentinels, Measured, IsMeasured, IsSentinel
  <2> QED BY <1>1, <2>2 DEF Coherent, QotInv, Justified, Resolvable
<1>2. Blocked(m, TRUE) = Blocked(m, FALSE)
  BY <1>1 DEF Blocked
<1> QED BY <1>2 DEF Reached

\* The reach of a recompute and what it derives do not read the records.
LEMMA NearReads ==
  ASSUME NEW m, NEW n, Near(m, n)
  PROVE  /\ Reached(n, FALSE) = Reached(m, FALSE)
         /\ Lit(n) = Lit(m)
         /\ \A j, A : Crossed(n, j, A) = Crossed(m, j, A)
         /\ \A j \in Lit(m) : Propagate(n, j) = Propagate(m, j)
<1>1. /\ Lit(n) = Lit(m) /\ n.lightpaths = m.lightpaths /\ n.before = m.before
      /\ n.failed = m.failed /\ n.impair = m.impair
  BY DEF Near, Lit
<1>2. \A j, A : Crossed(n, j, A) = Crossed(m, j, A)
  BY <1>1 DEF Crossed
<1>3. Blocked(n, FALSE) = Blocked(m, FALSE)
  BY <1>1, <1>2 DEF Blocked
<1>4. HasOffGrid(n) <=> HasOffGrid(m)
  BY <1>1 DEF HasOffGrid
<1>5. Reached(n, FALSE) = Reached(m, FALSE)
  BY <1>1, <1>3, <1>4 DEF Reached
<1>6. ASSUME NEW j \in Lit(m)
      PROVE  Propagate(n, j) = Propagate(m, j)
  <2>1. \A k : OmsOf(n, k) = OmsOf(m, k)
    BY <1>1 DEF OmsOf
  <2>2. Comb(n, j) = Comb(m, j)
    BY <1>1, <2>1 DEF Comb
  <2> QED BY <1>1, <2>2 DEF Propagate
<1> QED BY <1>1, <1>2, <1>5, <1>6

LEMMA NearAgain ==
  ASSUME NEW m, NEW n, NEW o, Near(m, n)
  PROVE  Near(n, m) /\ (Near(n, o) => Near(m, o))
BY NearReads DEF Near

\* A coherent recompute derives the same from records it would overwrite.
LEMMA NearSettles ==
  ASSUME NEW m, NEW n, Coherent(m), Coherent(n), Near(m, n)
  PROVE  Recompute(n, TRUE) = Recompute(m, TRUE)
<1> DEFINE R == Reached(m, FALSE)
<1>1. /\ Reached(m, TRUE) = R /\ Reached(n, TRUE) = R /\ Reached(n, FALSE) = R
      /\ Lit(n) = Lit(m) /\ n.failed = m.failed
      /\ \A j, A : Crossed(n, j, A) = Crossed(m, j, A)
      /\ \A j \in Lit(m) : Propagate(n, j) = Propagate(m, j)
  BY SameReach, NearReads DEF Near
<1>2. Derived(m, TRUE) = Derived(m, FALSE) /\ Derived(n, TRUE) = Derived(n, FALSE)
  BY OnlyMissingLemma, RecomputeQot
<1>3. R \subseteq Lit(m)
  BY DEF Reached
<1>4. Derived(m, FALSE) = Derived(n, FALSE)
  <2>1. DOMAIN m.qot \cup R = DOMAIN n.qot \cup R
    BY DEF Near
  <2>2. ASSUME NEW id \in DOMAIN m.qot \cup R, id \notin R
        PROVE  m.qot[id] = n.qot[id]
    BY <2>2 DEF Near
  <2> HIDE DEF R
  <2> DEFINE D    == DOMAIN m.qot \cup R
             F(id) == IF id \notin R THEN m.qot[id]
                      ELSE IF Crossed(m, id, m.failed) # {} THEN Sentinel(Crossed(m, id, m.failed))
                      ELSE Propagate(m, id)
             G(id) == IF id \notin R THEN n.qot[id]
                      ELSE IF Crossed(n, id, n.failed) # {} THEN Sentinel(Crossed(n, id, n.failed))
                      ELSE Propagate(n, id)
  <2>3. Derived(m, FALSE) = [id \in D |-> F(id)]
    BY Zenon DEF Derived, R
  <2>4. Derived(n, FALSE) = [id \in DOMAIN n.qot \cup R |-> G(id)]
    BY <1>1, Zenon DEF Derived
  <2>5. ASSUME NEW id \in D
        PROVE  F(id) = G(id)
    <3>1. CASE id \notin R
      BY <2>2, <3>1
    <3>2. CASE id \in R
      BY <1>1, <1>3, <3>2
    <3> QED BY <3>1, <3>2
  <2> HIDE DEF F, G, D
  <2>6. Derived(n, FALSE) = [id \in D |-> G(id)]
    BY <2>1, <2>4 DEF D
  <2> QED BY <2>3, <2>5, <2>6, Zenon
<1>5. Recompute(m, TRUE) = [m EXCEPT !.qot = Derived(m, TRUE)]
  BY Zenon DEF Recompute, Derived
<1>6. Recompute(n, TRUE) = [n EXCEPT !.qot = Derived(n, TRUE)]
  BY Zenon DEF Recompute, Derived
<1>7. IsRecord(m) /\ IsRecord(n)
  BY ModelIsRecord DEF Coherent
<1> DEFINE q == Derived(m, TRUE)
<1>8. Derived(n, TRUE) = q
  BY <1>2, <1>4
<1> HIDE DEF q
<1>9. /\ Is([m EXCEPT !.qot = q], m.lightpaths, m.before, q, m.ipLinks, m.services, m.failed, m.impair)
      /\ Is([n EXCEPT !.qot = q], n.lightpaths, n.before, q, n.ipLinks, n.services, n.failed, n.impair)
  BY <1>7, SetField DEF IsRecord
<1> QED BY <1>5, <1>6, <1>8, <1>9 DEF q, Near, Is

\* A recompute changes records it writes, and nothing else.
LEMMA SettledIsNear ==
  ASSUME NEW m, Coherent(m)
  PROVE  /\ Near(m, Recompute(m, TRUE))
         /\ Recompute(Recompute(m, TRUE), TRUE) = Recompute(m, TRUE)
<1> DEFINE n == Recompute(m, TRUE)
           q == Derived(m, TRUE)
<1>1. n = [m EXCEPT !.qot = q]
  BY Zenon DEF Recompute, Derived
<1>2. Coherent(n)
  BY RecomputeInv
<1> HIDE DEF n, q
<1>3. Is([m EXCEPT !.qot = q], m.lightpaths, m.before, q, m.ipLinks, m.services, m.failed, m.impair)
  BY ModelIsRecord, SetField DEF Coherent, IsRecord
<1>4. /\ n.lightpaths = m.lightpaths /\ n.before = m.before /\ n.ipLinks = m.ipLinks
      /\ n.services = m.services /\ n.failed = m.failed /\ n.impair = m.impair /\ n.qot = q
  BY <1>1, <1>3, IsFields
<1>5. Reached(m, TRUE) = Reached(m, FALSE)
  BY SameReach
<1>6. Near(m, n)
  <2>1. ASSUME NEW id, id \notin Reached(m, FALSE)
        PROVE  /\ id \in DOMAIN n.qot <=> id \in DOMAIN m.qot
               /\ id \in DOMAIN m.qot => n.qot[id] = m.qot[id]
    BY <1>4, <1>5, <2>1 DEF Derived, q
  <2> QED BY <1>4, <2>1 DEF Near
<1>7. Recompute(n, TRUE) = n
  BY <1>2, <1>6, NearSettles DEF n
<1> QED BY <1>6, <1>7 DEF n

\* The same change of two near models, dropping the same records, leaves them
\* near if the recompute still reaches what it reached.
LEMMA NearNext ==
  ASSUME NEW m, NEW n, Near(m, n), NEW a, NEW b, NEW D,
         b.lightpaths = a.lightpaths, b.before = a.before, b.ipLinks = a.ipLinks,
         b.services = a.services, b.failed = a.failed, b.impair = a.impair,
         a.qot = Drop(m.qot, D), b.qot = Drop(n.qot, D),
         \A id \in Reached(m, FALSE) : id \in D \/ id \in Reached(a, FALSE)
  PROVE  Near(a, b)
<1>1. ASSUME NEW id, id \notin Reached(a, FALSE)
      PROVE  /\ id \in DOMAIN b.qot <=> id \in DOMAIN a.qot
             /\ id \in DOMAIN a.qot => b.qot[id] = a.qot[id]
  <2>1. CASE id \in D
    BY <2>1 DEF Drop, Restrict
  <2>2. CASE id \notin D
    <3>1. id \notin Reached(m, FALSE)
      BY <1>1, <2>2
    <3> QED BY <2>2, <3>1 DEF Near, Drop, Restrict
  <2> QED BY <2>1, <2>2
<1> QED BY <1>1 DEF Near

\* No record is dropped: links and services changed, or nothing did.
LEMMA NearSameOptics ==
  ASSUME NEW m, NEW n, Near(m, n), NEW a, NEW b, SameOptics(m, a), SameOptics(n, b),
         b.ipLinks = a.ipLinks, b.services = a.services
  PROVE  Near(a, b)
<1>1. Reached(a, FALSE) = Reached(m, FALSE)
  <2>1. /\ Lit(a) = Lit(m) /\ a.lightpaths = m.lightpaths /\ a.before = m.before
        /\ a.failed = m.failed
    BY DEF SameOptics, Lit
  <2>2. Blocked(a, FALSE) = Blocked(m, FALSE)
    BY <2>1 DEF Blocked, Crossed
  <2>3. HasOffGrid(a) <=> HasOffGrid(m)
    BY <2>1 DEF HasOffGrid
  <2> QED BY <2>1, <2>2, <2>3 DEF Reached
<1> QED BY <1>1 DEF Near, SameOptics

\* The field by field results of add_lightpath and remove_lightpath.
OrderWith(m, id) == m.before \cup (Lit(m) \X {id})
Without(q, m, seq, id) == Drop(Drop(q, {id}), Sharing(m, seq, id))

LEMMA AddFields ==
  ASSUME NEW m, IsRecord(m), NEW id, id \notin Lit(m), NEW lp \in Lightpath, NEW a,
         a = AddLightpath(m, id, lp)
  PROVE  /\ a.lightpaths = Put(m.lightpaths, id, lp) /\ a.before = OrderWith(m, id)
         /\ a.qot = Drop(m.qot, Sharing(m, lp.oms, id)) /\ a.ipLinks = m.ipLinks
         /\ a.services = m.services /\ a.failed = m.failed /\ a.impair = m.impair
<1>1. Is(a, Put(m.lightpaths, id, lp), OrderWith(m, id),
         Drop(m.qot, Sharing(m, lp.oms, id)), m.ipLinks, m.services, m.failed, m.impair)
  BY AddLightpathIs, Zenon DEF OrderWith
<1> QED BY <1>1, IsFields

LEMMA RemoveFields ==
  ASSUME NEW m, IsRecord(m), NEW id \in Lit(m), NEW a, a = RemoveLightpath(m, id)
  PROVE  /\ a.lightpaths = Drop(m.lightpaths, {id}) /\ a.before = OrderWithout(m, id)
         /\ a.qot = Without(m.qot, m, m.lightpaths[id].oms, id)
         /\ a.ipLinks = Drop(m.ipLinks, LinksOver(m, id))
         /\ a.services = m.services /\ a.failed = m.failed /\ a.impair = m.impair
<1>1. Is(a, Drop(m.lightpaths, {id}), OrderWithout(m, id),
         Without(m.qot, m, m.lightpaths[id].oms, id),
         Drop(m.ipLinks, LinksOver(m, id)), m.services, m.failed, m.impair)
  BY RemoveLightpathIs, Zenon DEF Without
<1> QED BY <1>1, IsFields

\* add_lightpath puts the new lightpath last in the loop.
LEMMA AddNear ==
  ASSUME NEW m, NEW n, Coherent(m), Coherent(n), Near(m, n), NEW id, NEW lp \in Lightpath,
         CanAddLightpath(m, id, lp), lp.slot \in Slots,
         NEW a, a = AddLightpath(m, id, lp), NEW b, b = AddLightpath(n, id, lp)
  PROVE  Near(a, b)
<1> DEFINE D == Sharing(m, lp.oms, id)
<1>1. /\ Lit(n) = Lit(m) /\ n.lightpaths = m.lightpaths /\ id \notin Lit(m)
      /\ n.before = m.before /\ n.ipLinks = m.ipLinks /\ n.services = m.services
      /\ n.failed = m.failed /\ n.impair = m.impair
  BY DEF Near, Lit, CanAddLightpath
<1>2. IsRecord(m) /\ IsRecord(n) /\ id \notin Lit(m) /\ id \notin Lit(n)
  BY <1>1, ModelIsRecord DEF Coherent
<1>3. Sharing(n, lp.oms, id) = D
  BY <1>1 DEF Sharing, OmsOf
<1>4. /\ a.lightpaths = Put(m.lightpaths, id, lp) /\ a.before = OrderWith(m, id)
      /\ a.qot = Drop(m.qot, Sharing(m, lp.oms, id)) /\ a.ipLinks = m.ipLinks
      /\ a.services = m.services /\ a.failed = m.failed /\ a.impair = m.impair
  BY <1>2, AddFields
<1>5. /\ b.lightpaths = Put(n.lightpaths, id, lp) /\ b.before = OrderWith(n, id)
      /\ b.qot = Drop(n.qot, Sharing(n, lp.oms, id)) /\ b.ipLinks = n.ipLinks
      /\ b.services = n.services /\ b.failed = n.failed /\ b.impair = n.impair
  BY <1>2, AddFields
<1>6. ASSUME NEW j \in Reached(m, FALSE)
      PROVE  j \in Reached(a, FALSE)
  <2>1. /\ ~ HasOffGrid(m) /\ j \in Lit(m) /\ j \notin Blocked(m, FALSE)
        /\ \A k \in Blocked(m, FALSE) : <<j, k>> \in m.before
    BY <1>6 DEF Reached
  <2>2. /\ Lit(a) = Lit(m) \cup {id} /\ a.lightpaths[id] = lp
        /\ \A k \in Lit(m) : a.lightpaths[k] = m.lightpaths[k]
    BY <1>1, <1>4 DEF Lit, Put
  <2>3. ~ HasOffGrid(a)
    <3>1. lp.slot # OffGrid
      BY SpectrumAssumption DEF Slots, OffGrid
    <3> QED BY <2>1, <2>2, <3>1 DEF HasOffGrid
  <2>4. \A k \in Lit(m) : k \in Blocked(a, FALSE) <=> k \in Blocked(m, FALSE)
    BY <1>4, <2>2 DEF Blocked, Crossed
  <2>5. Blocked(a, FALSE) \subseteq Lit(m) \cup {id}
    BY <2>2 DEF Blocked
  <2>6. \A k \in Blocked(a, FALSE) : <<j, k>> \in a.before
    BY <1>4, <2>1, <2>4, <2>5 DEF OrderWith
  <2> QED BY <2>1, <2>2, <2>3, <2>4, <2>6 DEF Reached
<1>7. Near(a, b)
  <2> HIDE DEF D
  <2>1. a.qot = Drop(m.qot, D) /\ b.qot = Drop(n.qot, D)
    BY <1>3, <1>4, <1>5 DEF D
  <2>2. OrderWith(m, id) = OrderWith(n, id)
    BY <1>1 DEF OrderWith
  <2>3. /\ b.lightpaths = a.lightpaths /\ b.before = a.before /\ b.ipLinks = a.ipLinks
        /\ b.services = a.services /\ b.failed = a.failed /\ b.impair = a.impair
    BY <1>1, <1>4, <1>5, <2>2
  <2>4. \A j \in Reached(m, FALSE) : j \in D \/ j \in Reached(a, FALSE)
    BY <1>6
  <2> QED BY <2>1, <2>3, <2>4, NearNext
<1> QED BY <1>7

\* remove_lightpath takes the lightpath out of the loop.
LEMMA RemoveNear ==
  ASSUME NEW m, NEW n, Coherent(m), Coherent(n), Near(m, n), NEW id \in Lit(m),
         NEW a, a = RemoveLightpath(m, id), NEW b, b = RemoveLightpath(n, id)
  PROVE  Near(a, b)
<1> DEFINE D == {id} \cup Sharing(m, m.lightpaths[id].oms, id)
<1>1. /\ Lit(n) = Lit(m) /\ n.lightpaths = m.lightpaths /\ id \in Lit(n)
      /\ n.before = m.before /\ n.ipLinks = m.ipLinks /\ n.services = m.services
      /\ n.failed = m.failed /\ n.impair = m.impair
  BY DEF Near, Lit
<1>2. IsRecord(m) /\ IsRecord(n)
  BY ModelIsRecord DEF Coherent
<1>3. Sharing(n, n.lightpaths[id].oms, id) = Sharing(m, m.lightpaths[id].oms, id)
  BY <1>1 DEF Sharing, OmsOf
<1>4. /\ a.lightpaths = Drop(m.lightpaths, {id}) /\ a.before = OrderWithout(m, id)
      /\ a.qot = Without(m.qot, m, m.lightpaths[id].oms, id)
      /\ a.ipLinks = Drop(m.ipLinks, LinksOver(m, id))
      /\ a.services = m.services /\ a.failed = m.failed /\ a.impair = m.impair
  BY <1>2, RemoveFields, Zenon
<1>5. /\ b.lightpaths = Drop(n.lightpaths, {id}) /\ b.before = OrderWithout(n, id)
      /\ b.qot = Without(n.qot, n, n.lightpaths[id].oms, id)
      /\ b.ipLinks = Drop(n.ipLinks, LinksOver(n, id))
      /\ b.services = n.services /\ b.failed = n.failed /\ b.impair = n.impair
  <2>1. id \in Lit(n) /\ IsRecord(n)
    BY <1>1, <1>2
  <2> QED BY <2>1, RemoveFields, Zenon
<1>6. \A q : Without(q, m, m.lightpaths[id].oms, id) = Drop(q, D)
  BY DEF Without, Drop, Restrict
<1>7. OrderWithout(n, id) = OrderWithout(m, id) /\ LinksOver(n, id) = LinksOver(m, id)
  BY <1>1 DEF OrderWithout, LinksOver
<1>8. ASSUME NEW j \in Reached(m, FALSE), j # id
      PROVE  j \in Reached(a, FALSE)
  <2>1. /\ ~ HasOffGrid(m) /\ j \in Lit(m) /\ j \notin Blocked(m, FALSE)
        /\ \A k \in Blocked(m, FALSE) : <<j, k>> \in m.before
    BY <1>8 DEF Reached
  <2>2. /\ Lit(a) = Lit(m) \ {id}
        /\ \A k \in Lit(a) : a.lightpaths[k] = m.lightpaths[k]
    BY <1>4 DEF Lit, Drop, Restrict
  <2>3. ~ HasOffGrid(a)
    BY <2>1, <2>2 DEF HasOffGrid
  <2>4. \A k \in Lit(a) : k \in Blocked(a, FALSE) <=> k \in Blocked(m, FALSE)
    BY <1>4, <2>2 DEF Blocked, Crossed
  <2>5. Blocked(a, FALSE) \subseteq Lit(a)
    BY DEF Blocked
  <2>6. ASSUME NEW k \in Blocked(a, FALSE)
        PROVE  <<j, k>> \in a.before
    <3>1. <<j, k>> \in m.before /\ k # id
      BY <2>1, <2>2, <2>4, <2>5
    <3> QED BY <1>4, <1>8, <3>1 DEF OrderWithout
  <2> QED BY <1>8, <2>1, <2>2, <2>3, <2>4, <2>6 DEF Reached
<1>9. a.qot = Drop(m.qot, D) /\ b.qot = Drop(n.qot, D)
  BY <1>1, <1>3, <1>4, <1>5, <1>6 DEF Without
<1>10. \A j \in Reached(m, FALSE) : j \in D \/ j \in Reached(a, FALSE)
  BY <1>8
<1> HIDE DEF D
<1>11. /\ b.lightpaths = a.lightpaths /\ b.before = a.before /\ b.ipLinks = a.ipLinks
       /\ b.services = a.services /\ b.failed = a.failed /\ b.impair = a.impair
  BY <1>1, <1>4, <1>5, <1>7
<1> QED BY <1>9, <1>10, <1>11, NearNext

\* set_lightpath_mode, set_service_working_path and set_service_protection_path
\* leave the loop alone.
LEMMA SetModeNear ==
  ASSUME NEW m, NEW n, Coherent(m), Coherent(n), Near(m, n), NEW id \in Lit(m), NEW mode,
         NEW a, a = SetLightpathMode(m, id, mode), NEW b, b = SetLightpathMode(n, id, mode)
  PROVE  Near(a, b)
<1> DEFINE Lps(x) == [x.lightpaths EXCEPT ![id] = [x.lightpaths[id] EXCEPT !.mode = mode]]
<1>1. ASSUME NEW x, Coherent(x), NEW y, y = SetLightpathMode(x, id, mode)
      PROVE  /\ y.lightpaths = Lps(x) /\ y.before = x.before /\ y.qot = Drop(x.qot, {id})
             /\ y.ipLinks = x.ipLinks /\ y.services = x.services
             /\ y.failed = x.failed /\ y.impair = x.impair
  <2> DEFINE lps == Lps(x)
             q   == Drop(x.qot, {id})
             z   == [x EXCEPT !.lightpaths = lps]
  <2>1. y = [z EXCEPT !.qot = q]
    BY <1>1, Zenon DEF SetLightpathMode
  <2> HIDE DEF lps, q
  <2>2. Is(z, lps, x.before, x.qot, x.ipLinks, x.services, x.failed, x.impair)
    BY <1>1, ModelIsRecord, SetField DEF Coherent, IsRecord
  <2> HIDE DEF z
  <2>3. Is(y, lps, x.before, q, x.ipLinks, x.services, x.failed, x.impair)
    BY <2>1, <2>2, SetField
  <2>4. /\ y.lightpaths = lps /\ y.before = x.before /\ y.qot = q
        /\ y.ipLinks = x.ipLinks /\ y.services = x.services
        /\ y.failed = x.failed /\ y.impair = x.impair
    BY <2>3, IsFields
  <2> QED BY <2>4 DEF lps, q
<1>2. Lps(n) = Lps(m)
  BY DEF Near
<1>3. a.lightpaths \in {Lps(m)} /\ b.lightpaths = a.lightpaths
  BY <1>1, <1>2
<1>4. /\ a.before = m.before /\ a.qot = Drop(m.qot, {id}) /\ a.ipLinks = m.ipLinks
      /\ a.services = m.services /\ a.failed = m.failed /\ a.impair = m.impair
      /\ b.before = n.before /\ b.qot = Drop(n.qot, {id}) /\ b.ipLinks = n.ipLinks
      /\ b.services = n.services /\ b.failed = n.failed /\ b.impair = n.impair
  BY <1>1
<1>5. /\ Lit(a) = Lit(m)
      /\ \A j \in Lit(m) : /\ a.lightpaths[j].oms = m.lightpaths[j].oms
                           /\ a.lightpaths[j].slot = m.lightpaths[j].slot
  <2>1. \A j \in Lit(m) : m.lightpaths[j] \in Lightpath
    BY DEF Coherent, IsModel, IsMap, Lit
  <2>2. DOMAIN Lps(m) = Lit(m)
    BY DEF Lit
  <2>3. ASSUME NEW j \in Lit(m)
        PROVE  Lps(m)[j].oms = m.lightpaths[j].oms /\ Lps(m)[j].slot = m.lightpaths[j].slot
    BY <2>1 DEF Lit, Lightpath
  <2> HIDE DEF Lps
  <2> QED BY <1>3, <2>2, <2>3 DEF Lit
<1> HIDE DEF Lps
<1>6. \A j \in Reached(m, FALSE) : j \in {id} \/ j \in Reached(a, FALSE)
  <2>1. Blocked(a, FALSE) = Blocked(m, FALSE)
    BY <1>4, <1>5 DEF Blocked, Crossed
  <2>2. HasOffGrid(a) <=> HasOffGrid(m)
    BY <1>5 DEF HasOffGrid
  <2> QED BY <1>4, <1>5, <2>1, <2>2 DEF Reached
<1>7. /\ b.before = a.before /\ b.ipLinks = a.ipLinks
      /\ b.services = a.services /\ b.failed = a.failed /\ b.impair = a.impair
  BY <1>4 DEF Near
<1>8. b.lightpaths = a.lightpaths /\ a.qot = Drop(m.qot, {id}) /\ b.qot = Drop(n.qot, {id})
  BY <1>3, <1>4
<1> DEFINE D == {id}
<1>9. a.qot = Drop(m.qot, D) /\ b.qot = Drop(n.qot, D)
  BY <1>8
<1>10. \A j \in Reached(m, FALSE) : j \in D \/ j \in Reached(a, FALSE)
  BY <1>6
<1> HIDE DEF D
<1> QED BY <1>7, <1>8, <1>9, <1>10, NearNext

LEMMA SetPathNear ==
  ASSUME NEW m, NEW n, Coherent(m), Coherent(n), Near(m, n), NEW id, NEW path
  PROVE  /\ Near(SetWorkingPath(m, id, path), SetWorkingPath(n, id, path))
         /\ Near(SetProtectionPath(m, id, path), SetProtectionPath(n, id, path))
<1>1. ASSUME NEW x, Coherent(x), NEW services, NEW y, y = [x EXCEPT !.services = services]
      PROVE  SameOptics(x, y) /\ y.ipLinks = x.ipLinks /\ y.services = services
  <2>1. Is([x EXCEPT !.services = services], x.lightpaths, x.before, x.qot, x.ipLinks, services,
           x.failed, x.impair)
    BY <1>1, ModelIsRecord, SetField DEF Coherent, IsRecord
  <2>2. Is(y, x.lightpaths, x.before, x.qot, x.ipLinks, services, x.failed, x.impair)
    BY <1>1, <2>1
  <2>3. /\ y.lightpaths = x.lightpaths /\ y.before = x.before /\ y.qot = x.qot
        /\ y.ipLinks = x.ipLinks /\ y.services = services
        /\ y.failed = x.failed /\ y.impair = x.impair
    BY <2>2, IsFields
  <2> QED BY <2>3 DEF SameOptics
<1>2. ASSUME NEW services, NEW a, NEW b,
             a = [m EXCEPT !.services = services], b = [n EXCEPT !.services = services]
      PROVE  Near(a, b)
  <2>1. /\ SameOptics(m, a) /\ a.ipLinks = m.ipLinks /\ a.services = services
        /\ SameOptics(n, b) /\ b.ipLinks = n.ipLinks /\ b.services = services
    BY <1>1, <1>2
  <2>2. b.ipLinks = a.ipLinks
    BY <2>1 DEF Near
  <2> QED BY <2>1, <2>2, NearSameOptics
<1>3. WithWorking(n, id, path) = WithWorking(m, id, path)
      /\ WithProtection(n, id, path) = WithProtection(m, id, path)
  BY DEF Near, WithWorking, WithProtection
<1>4. /\ SetWorkingPath(m, id, path) = [m EXCEPT !.services = WithWorking(m, id, path)]
      /\ SetWorkingPath(n, id, path) = [n EXCEPT !.services = WithWorking(n, id, path)]
  BY Zenon DEF SetWorkingPath, WithWorking
<1>5. /\ SetProtectionPath(m, id, path) = [m EXCEPT !.services = WithProtection(m, id, path)]
      /\ SetProtectionPath(n, id, path) = [n EXCEPT !.services = WithProtection(n, id, path)]
  BY Zenon DEF SetProtectionPath, WithProtection
<1> QED BY <1>2, <1>3, <1>4, <1>5, Zenon

\* add_lightpath refuses a frequency off the grid the model carries.
OnGrid(op) == op.op = "provision" => GridChecked \/ op.lp.slot \in Slots

\* Two operations that both succeed, or both raise, on near models.
LEMMA SameOutcome ==
  ASSUME NEW a, NEW b, Near(a, b), NEW r, NEW t,
         \/ r = Applied(a) /\ t = Applied(b)
         \/ r = PlanError(a) /\ t = PlanError(b)
  PROVE  t.ok = r.ok /\ Near(r.model, t.model)
<1>1. ASSUME NEW ok \in BOOLEAN, NEW x, NEW m, x = [ok |-> ok, model |-> m]
      PROVE  x.ok = ok /\ x.model = m
  BY <1>1
<1>2. CASE r = Applied(a) /\ t = Applied(b)
  <2>1. r.ok = TRUE /\ r.model = a /\ t.ok = TRUE /\ t.model = b
    BY <1>1, <1>2 DEF Applied
  <2> QED BY <2>1, Zenon
<1>3. CASE r = PlanError(a) /\ t = PlanError(b)
  <2>1. r.ok = FALSE /\ r.model = a /\ t.ok = FALSE /\ t.model = b
    BY <1>1, <1>3 DEF PlanError
  <2> QED BY <2>1, Zenon
<1> QED BY <1>2, <1>3

\* An operation does not read the records: it meets the same checks and leaves
\* near models near.
LEMMA ApplyOpNear ==
  ASSUME NEW m, NEW n, Coherent(m), Coherent(n), Near(m, n), NEW op, IsOp(op), OnGrid(op),
         NEW r, r = ApplyOp(m, op), NEW t, t = ApplyOp(n, op)
  PROVE  t.ok = r.ok /\ Near(r.model, t.model)
<1>0. /\ Lit(n) = Lit(m) /\ n.ipLinks = m.ipLinks /\ n.services = m.services
  BY DEF Near, Lit
<1>1. CASE /\ op.op = "provision"
           /\ op.id \in LightpathIds /\ op.lp \in Lightpath
           /\ op.linkId \in LinkIds \cup {NoLink}
  <2> DEFINE a == AddLightpath(m, op.id, op.lp)
             b == AddLightpath(n, op.id, op.lp)
             al == AddIPLink(a, op.linkId, BoundLink(op))
             bl == AddIPLink(b, op.linkId, BoundLink(op))
  <2>1. ApplyOp(m, op) = ApplyProvision(m, op) /\ ApplyOp(n, op) = ApplyProvision(n, op)
    BY <1>1 DEF ApplyOp
  <2>2. /\ CanAddLightpath(n, op.id, op.lp) <=> CanAddLightpath(m, op.id, op.lp)
        /\ LinkIdTaken(n, op) <=> LinkIdTaken(m, op)
    BY <1>0 DEF CanAddLightpath, LinkIdTaken
  <2>3. ASSUME CanAddLightpath(m, op.id, op.lp)
        PROVE  Near(a, b) /\ Coherent(a) /\ Coherent(b)
    <3>1. op.lp.slot \in Slots
      BY <1>1, <2>3 DEF OnGrid, CanAddLightpath
    <3>2. Near(a, b)
      BY <1>1, <2>3, <3>1, AddNear
    <3>3. Coherent(a) /\ Coherent(b)
      BY <1>1, <2>2, <2>3, AddLightpathInv
    <3> QED BY <3>2, <3>3
  <2>4. ASSUME CanAddLightpath(m, op.id, op.lp), op.linkId # NoLink
        PROVE  /\ CanAddIPLink(b, op.linkId, BoundLink(op)) <=> CanAddIPLink(a, op.linkId, BoundLink(op))
               /\ CanAddIPLink(a, op.linkId, BoundLink(op)) => Near(al, bl)
    <3>1. Near(a, b) /\ Coherent(a) /\ Coherent(b)
      BY <2>3, <2>4
    <3> HIDE DEF a, b
    <3>2. CanAddIPLink(b, op.linkId, BoundLink(op)) <=> CanAddIPLink(a, op.linkId, BoundLink(op))
      BY <3>1 DEF Near, CanAddIPLink, Lit
    <3>3. ASSUME CanAddIPLink(a, op.linkId, BoundLink(op))
          PROVE  Near(al, bl)
      <4>1. BoundLink(op) \in IPLink /\ op.linkId \in LinkIds
        BY <1>1, <2>4, <3>3 DEF CanAddIPLink, BoundLink, IPLink
      <4>2. /\ SameOptics(a, al) /\ al.ipLinks = Put(a.ipLinks, op.linkId, BoundLink(op))
            /\ al.services = a.services
            /\ SameOptics(b, bl) /\ bl.ipLinks = Put(b.ipLinks, op.linkId, BoundLink(op))
            /\ bl.services = b.services
        BY <3>1, <3>2, <3>3, <4>1, AddIPLinkInv
      <4> HIDE DEF al, bl
      <4>3. bl.ipLinks = al.ipLinks /\ bl.services = al.services
        BY <3>1, <4>2 DEF Near
      <4> QED BY <3>1, <4>2, <4>3, NearSameOptics
    <3> QED BY <3>2, <3>3
  <2>5. ApplyProvision(m, op) =
          IF LinkIdTaken(m, op) \/ ~ CanAddLightpath(m, op.id, op.lp) THEN PlanError(m)
          ELSE IF op.linkId = NoLink THEN Applied(a)
          ELSE IF CanAddIPLink(a, op.linkId, BoundLink(op)) THEN Applied(al)
          ELSE PlanError(a)
    BY DEF ApplyProvision
  <2>6. ApplyProvision(n, op) =
          IF LinkIdTaken(n, op) \/ ~ CanAddLightpath(n, op.id, op.lp) THEN PlanError(n)
          ELSE IF op.linkId = NoLink THEN Applied(b)
          ELSE IF CanAddIPLink(b, op.linkId, BoundLink(op)) THEN Applied(bl)
          ELSE PlanError(b)
    BY DEF ApplyProvision
  <2> HIDE DEF a, b, al, bl
  <2>7. CASE LinkIdTaken(m, op) \/ ~ CanAddLightpath(m, op.id, op.lp)
    <3>1. r = PlanError(m) /\ t = PlanError(n)
      BY <2>1, <2>2, <2>5, <2>6, <2>7
    <3> QED BY <3>1, SameOutcome
  <2>8. CASE ~ LinkIdTaken(m, op) /\ CanAddLightpath(m, op.id, op.lp) /\ op.linkId = NoLink
    <3>1. r = Applied(a) /\ t = Applied(b)
      BY <2>1, <2>2, <2>5, <2>6, <2>8
    <3> QED BY <2>3, <2>8, <3>1, SameOutcome
  <2>9. CASE /\ ~ LinkIdTaken(m, op) /\ CanAddLightpath(m, op.id, op.lp) /\ op.linkId # NoLink
             /\ CanAddIPLink(a, op.linkId, BoundLink(op))
    <3>1. r = Applied(al) /\ t = Applied(bl)
      BY <2>1, <2>2, <2>4, <2>5, <2>6, <2>9
    <3> QED BY <2>4, <2>9, <3>1, SameOutcome
  <2>10. CASE /\ ~ LinkIdTaken(m, op) /\ CanAddLightpath(m, op.id, op.lp) /\ op.linkId # NoLink
              /\ ~ CanAddIPLink(a, op.linkId, BoundLink(op))
    <3>1. r = PlanError(a) /\ t = PlanError(b)
      BY <2>1, <2>2, <2>4, <2>5, <2>6, <2>10
    <3> QED BY <2>3, <2>10, <3>1, SameOutcome
  <2> QED BY <2>7, <2>8, <2>9, <2>10
<1>2. CASE op.op = "teardown" /\ op.id \in LightpathIds
  <2>1. r = ApplyTeardown(m, op) /\ t = ApplyTeardown(n, op)
    BY <1>2 DEF ApplyOp
  <2>2. CASE op.id \in Lit(m)
    <3>1. r = Applied(RemoveLightpath(m, op.id)) /\ t = Applied(RemoveLightpath(n, op.id))
      BY <1>0, <2>1, <2>2 DEF ApplyTeardown
    <3>2. Near(RemoveLightpath(m, op.id), RemoveLightpath(n, op.id))
      BY <2>2, RemoveNear
    <3> QED BY <3>1, <3>2, SameOutcome
  <2>3. CASE op.id \notin Lit(m)
    <3>1. r = PlanError(m) /\ t = PlanError(n)
      BY <1>0, <2>1, <2>3 DEF ApplyTeardown
    <3> QED BY <3>1, SameOutcome
  <2> QED BY <2>2, <2>3
<1>3. CASE op.op = "reroute" /\ op.id \in ServiceIds /\ op.path \in Seq(LinkIds)
  <2>1. r = ApplyReroute(m, op) /\ t = ApplyReroute(n, op)
    BY <1>3 DEF ApplyOp
  <2>2. CanSetPath(n, op.id, op.path) <=> CanSetPath(m, op.id, op.path)
    BY <1>0 DEF CanSetPath, Contiguous, AllPresent
  <2>3. /\ Near(SetWorkingPath(m, op.id, op.path), SetWorkingPath(n, op.id, op.path))
        /\ Near(SetProtectionPath(m, op.id, op.path), SetProtectionPath(n, op.id, op.path))
    BY SetPathNear
  <2>4. \/ r = PlanError(m) /\ t = PlanError(n)
        \/ /\ r = Applied(SetWorkingPath(m, op.id, op.path))
           /\ t = Applied(SetWorkingPath(n, op.id, op.path))
        \/ /\ r = Applied(SetProtectionPath(m, op.id, op.path))
           /\ t = Applied(SetProtectionPath(n, op.id, op.path))
    BY <2>1, <2>2 DEF ApplyReroute
  <2> QED BY <2>3, <2>4, SameOutcome
<1>4. CASE op.op = "set_mode" /\ op.id \in LightpathIds
  <2>1. r = ApplySetMode(m, op) /\ t = ApplySetMode(n, op)
    BY <1>4 DEF ApplyOp
  <2>2. \/ r = PlanError(m) /\ t = PlanError(n)
        \/ /\ op.id \in Lit(m)
           /\ r = Applied(SetLightpathMode(m, op.id, op.mode))
           /\ t = Applied(SetLightpathMode(n, op.id, op.mode))
    BY <1>0, <2>1 DEF ApplySetMode
  <2>3. op.id \in Lit(m) =>
          Near(SetLightpathMode(m, op.id, op.mode), SetLightpathMode(n, op.id, op.mode))
    BY SetModeNear
  <2> QED BY <2>2, <2>3, SameOutcome
<1> QED BY <1>1, <1>2, <1>3, <1>4 DEF IsOp

-------------------------------------------------------------------------------
(* Sums over finite sets.                                                  *)

\* Of sets that have a property, one has the fewest elements.
LEMMA SmallestIn ==
  ASSUME NEW S, IsFiniteSet(S), NEW F \in SUBSET (SUBSET S), F # {}
  PROVE  \E s \in F : \A t \in F : Cardinality(s) <= Cardinality(t)
<1> DEFINE C == {Cardinality(s) : s \in F}
<1>1. \A s \in F : Cardinality(s) \in Nat
  BY FS_Subset, FS_CardinalityType
<1>2. C \in SUBSET Nat /\ C # {}
  BY <1>1
<1>3. PICK c \in C : \A d \in C : c <= d
  <2> HIDE DEF C
  <2> QED BY <1>2, LeastIn
<1> QED BY <1>3

\* The element the sum of s takes first.
First(s) == CHOOSE x \in s : TRUE

\* One turn of the sum.
Adds(g, f, s) == g[s] = IF s = {} THEN 0 ELSE f[First(s)] + g[s \ {First(s)}]

LEMMA FirstIs ==
  ASSUME NEW s, s # {}, IsFiniteSet(s)
  PROVE  /\ First(s) \in s /\ IsFiniteSet(s \ {First(s)})
         /\ Cardinality(s \ {First(s)}) = Cardinality(s) - 1
         /\ Cardinality(s) \in Nat \ {0}
<1>1. First(s) \in s
  BY DEF First
<1> HIDE DEF First
<1>2. IsFiniteSet(s \ {First(s)}) /\ Cardinality(s \ {First(s)}) = Cardinality(s) - 1
  BY <1>1, FS_RemoveElement
<1>3. Cardinality(s) \in Nat /\ Cardinality(s) # 0
  BY FS_CardinalityType, FS_EmptySet
<1> QED BY <1>1, <1>2, <1>3

\* A function that adds up every subset of S exists: one size at a time.
LEMMA SumExists ==
  ASSUME NEW f, NEW S, IsFiniteSet(S)
  PROVE  \E g : g = [s \in SUBSET S |-> g[s]] /\ \A s \in SUBSET S : Adds(g, f, s)
<1> DEFINE Upto(g, n) == /\ g = [s \in SUBSET S |-> g[s]]
                         /\ \A s \in SUBSET S : Cardinality(s) <= n => Adds(g, f, s)
           Some(n) == \E g : Upto(g, n)
           max == Cardinality(S)
           T == {n \in 0 .. max : ~ Some(n)}
<1>0. max \in Nat /\ \A s \in SUBSET S : IsFiniteSet(s) /\ Cardinality(s) \in Nat /\ Cardinality(s) <= max
  BY FS_Subset, FS_CardinalityType
<1>1. Some(0)
  <2> DEFINE g == [s \in SUBSET S |-> 0]
  <2>1. g = [s \in SUBSET S |-> g[s]] /\ \A s \in SUBSET S : g[s] = 0
    OBVIOUS
  <2> HIDE DEF g
  <2>2. ASSUME NEW s \in SUBSET S, Cardinality(s) <= 0
        PROVE  Adds(g, f, s)
    <3>1. s = {}
      BY <1>0, <2>2, FS_EmptySet
    <3> QED BY <2>1, <3>1 DEF Adds
  <2>3. Upto(g, 0)
    BY <2>1, <2>2
  <2> QED BY <2>3
<1>2. ASSUME NEW n \in Nat, Some(n)
      PROVE  Some(n + 1)
  <2>1. PICK g : Upto(g, n)
    BY <1>2
  <2> DEFINE Turn(s) == f[First(s)] + g[s \ {First(s)}]
             h == [s \in SUBSET S |-> IF Cardinality(s) = n + 1 THEN Turn(s) ELSE g[s]]
  <2> HIDE DEF Turn
  <2>2. /\ h = [s \in SUBSET S |-> h[s]]
        /\ \A s \in SUBSET S : h[s] = IF Cardinality(s) = n + 1 THEN Turn(s) ELSE g[s]
    OBVIOUS
  <2> HIDE DEF h
  <2>3. ASSUME NEW s \in SUBSET S, Cardinality(s) <= n + 1
        PROVE  Adds(h, f, s)
    <3>1. CASE s = {}
      <4>1. Cardinality(s) = 0
        BY <3>1, FS_EmptySet
      <4>2. Cardinality(s) # n + 1 /\ Cardinality(s) <= n
        BY <4>1
      <4>3. h[s] = g[s]
        BY <2>2, <4>2
      <4>4. Adds(g, f, s)
        BY <2>1, <4>2
      <4> QED BY <3>1, <4>3, <4>4 DEF Adds
    <3>2. CASE s # {}
      <4> DEFINE t == s \ {First(s)}
      <4>1. /\ t \in SUBSET S /\ Cardinality(t) = Cardinality(s) - 1 /\ Cardinality(s) \in Nat
        BY <1>0, <3>2, FirstIs
      <4>2. h[t] = g[t]
        <5>1. Cardinality(t) # n + 1
          BY <2>3, <4>1
        <5> HIDE DEF t
        <5> QED BY <2>2, <4>1, <5>1
      <4>3. h[s] = f[First(s)] + g[t]
        <5>1. CASE Cardinality(s) = n + 1
          BY <2>2, <5>1 DEF Turn
        <5>2. CASE Cardinality(s) # n + 1
          <6>1. Cardinality(s) <= n
            BY <2>3, <4>1, <5>2
          <6>2. h[s] = g[s] /\ Adds(g, f, s)
            BY <2>1, <2>2, <5>2, <6>1
          <6> QED BY <3>2, <6>2 DEF Adds
        <5> QED BY <5>1, <5>2
      <4> QED BY <3>2, <4>2, <4>3 DEF Adds
    <3> QED BY <3>1, <3>2
  <2>4. Upto(h, n + 1)
    BY <2>2, <2>3
  <2> QED BY <2>4
<1> HIDE DEF Some
<1>3. T = {}
  <2> SUFFICES ASSUME T # {} PROVE FALSE
    OBVIOUS
  <2>1. T \in SUBSET Nat
    BY <1>0
  <2>2. PICK k \in T : \A j \in T : k <= j
    <3> HIDE DEF T
    <3> QED BY <2>1, LeastIn
  <2>3. k \in Nat /\ k # 0 /\ k - 1 \in Nat /\ k - 1 \in 0 .. max
    BY <1>0, <1>1, <2>2
  <2>4. Some(k - 1)
    BY <1>0, <2>2, <2>3
  <2>5. Some(k - 1 + 1) /\ k - 1 + 1 = k
    BY <1>2, <2>3, <2>4
  <2> QED BY <2>2, <2>5
<1>4. Some(max)
  BY <1>0, <1>3
<1>5. PICK g : Upto(g, max)
  BY <1>4 DEF Some
<1> QED BY <1>0, <1>5

\* Two sums of the same values agree: of the sets on which they do not, look
\* at a smallest.
LEMMA SameSum ==
  ASSUME NEW S, IsFiniteSet(S), NEW f,
         NEW g, NEW h, \A s \in SUBSET S : Adds(g, f, s) /\ Adds(h, f, s)
  PROVE  g[S] = h[S]
<1> DEFINE T == {s \in SUBSET S : g[s] # h[s]}
<1> SUFFICES ASSUME T # {} PROVE FALSE
  OBVIOUS
<1>1. PICK s \in T : \A t \in T : Cardinality(s) <= Cardinality(t)
  BY SmallestIn
<1>2. s # {}
  BY <1>1 DEF Adds
<1> DEFINE t == s \ {First(s)}
<1>3. /\ First(s) \in S /\ t \in SUBSET S /\ Cardinality(t) = Cardinality(s) - 1
      /\ Cardinality(s) \in Nat
  BY <1>1, <1>2, FirstIs, FS_Subset
<1>4. g[t] = h[t]
  <2>1. t \notin T
    BY <1>1, <1>3
  <2> QED BY <1>3, <2>1
<1> QED BY <1>1, <1>2, <1>3, <1>4 DEF Adds

\* Total is such a sum.
LEMMA TotalIs ==
  ASSUME NEW f, NEW S, IsFiniteSet(S),
         NEW g, g = [s \in SUBSET S |-> g[s]], \A s \in SUBSET S : Adds(g, f, s)
  PROVE  Total(f, S) = g[S]
<1> DEFINE F(i) == [s \in SUBSET S |-> IF s = {} THEN 0
                                       ELSE f[CHOOSE x \in s : TRUE] + i[s \ {CHOOSE x \in s : TRUE}]]
           iter == CHOOSE i : i = F(i)
<1>1. Total(f, S) = iter[S]
  BY Zenon DEF Total, MapThenSumSet, MapThenFoldSet
<1>2. \A i : F(i) = [s \in SUBSET S |-> IF s = {} THEN 0 ELSE f[First(s)] + i[s \ {First(s)}]]
  BY Zenon DEF First
<1>3. g = F(g)
  <2>1. \A s \in SUBSET S : g[s] = IF s = {} THEN 0 ELSE f[First(s)] + g[s \ {First(s)}]
    BY Zenon DEF Adds
  <2>2. g = [s \in SUBSET S |-> IF s = {} THEN 0 ELSE f[First(s)] + g[s \ {First(s)}]]
    BY <2>1, Zenon
  <2> HIDE DEF F
  <2> QED BY <1>2, <2>2, Zenon
<1>4. iter = F(iter)
  <2> HIDE DEF F
  <2> QED BY <1>3
<1> HIDE DEF iter
<1>5. iter = [s \in SUBSET S |-> IF s = {} THEN 0 ELSE f[First(s)] + iter[s \ {First(s)}]]
  <2> HIDE DEF F
  <2> QED BY <1>2, <1>4
<1>6. \A s \in SUBSET S : Adds(iter, f, s)
  BY <1>5, Zenon DEF Adds
<1>7. iter[S] = g[S]
  <2>1. \A s \in SUBSET S : Adds(iter, f, s) /\ Adds(g, f, s)
    BY <1>6
  <2> QED BY <2>1, SameSum
<1> QED BY <1>1, <1>7

\* A sum takes First first.
LEMMA TotalTurn ==
  ASSUME NEW f, NEW S, IsFiniteSet(S)
  PROVE  /\ S = {} => Total(f, S) = 0
         /\ S # {} => Total(f, S) = f[First(S)] + Total(f, S \ {First(S)})
<1>1. PICK g : g = [s \in SUBSET S |-> g[s]] /\ \A s \in SUBSET S : Adds(g, f, s)
  BY SumExists
<1>2. Total(f, S) = g[S]
  BY <1>1, TotalIs
<1>3. Adds(g, f, S)
  BY <1>1
<1>4. CASE S = {}
  BY <1>2, <1>3, <1>4 DEF Adds
<1>5. CASE S # {}
  <2> DEFINE t == S \ {First(S)}
  <2>1. IsFiniteSet(t) /\ t \subseteq S
    BY <1>5, FirstIs
  <2> HIDE DEF t
  <2>2. PICK h : h = [s \in SUBSET t |-> h[s]] /\ \A s \in SUBSET t : Adds(h, f, s)
    BY <2>1, SumExists
  <2>3. Total(f, t) = h[t]
    BY <2>1, <2>2, TotalIs
  <2>4. h[t] = g[t]
    <3>1. \A s \in SUBSET t : Adds(h, f, s) /\ Adds(g, f, s)
      BY <1>1, <2>1, <2>2
    <3> QED BY <2>1, <3>1, SameSum
  <2> QED BY <1>2, <1>3, <1>5, <2>3, <2>4 DEF Adds, t
<1> QED BY <1>4, <1>5

\* f gives every member of S a number of units.
Counts(f, S) == \A x \in S : f[x] \in Nat

\* A sum of counts is a count, and takes its members in any order.
LEMMA TotalTakes ==
  ASSUME NEW f, NEW S, IsFiniteSet(S), Counts(f, S)
  PROVE  /\ Total(f, S) \in Nat
         /\ \A y \in S : Total(f, S) = f[y] + Total(f, S \ {y})
<1> DEFINE Fine(s) == /\ Total(f, s) \in Nat
                      /\ \A y \in s : Total(f, s) = f[y] + Total(f, s \ {y})
           T == {s \in SUBSET S : ~ Fine(s)}
<1>1. ASSUME T # {} PROVE FALSE
  <2>1. PICK s \in T : \A t \in T : Cardinality(s) <= Cardinality(t)
    BY <1>1, SmallestIn
  <2>2. ASSUME NEW y \in s
        PROVE  /\ s \ {y} \in SUBSET S /\ IsFiniteSet(s \ {y}) /\ IsFiniteSet(s)
               /\ Fine(s \ {y})
    <3>1. IsFiniteSet(s) /\ IsFiniteSet(s \ {y}) /\ Cardinality(s \ {y}) = Cardinality(s) - 1
          /\ Cardinality(s) \in Nat
      BY FS_Subset, FS_RemoveElement, FS_CardinalityType
    <3> DEFINE t == s \ {y}
    <3>2. t \notin T
      <4> HIDE DEF T, t
      <4>1. t \in T => Cardinality(s) <= Cardinality(t)
        BY <2>1
      <4> QED BY <3>1, <4>1 DEF t
    <3> QED BY <3>1, <3>2
  <2>3. s # {}
    <3>1. IsFiniteSet({}) /\ Total(f, {}) = 0
      BY TotalTurn, FS_EmptySet
    <3> QED BY <2>1, <3>1
  <2> DEFINE x == First(s)
  <2>4. x \in s /\ Total(f, s) = f[x] + Total(f, s \ {x})
    <3>1. IsFiniteSet(s)
      BY FS_Subset
    <3> QED BY <2>3, <3>1, FirstIs, TotalTurn
  <2> HIDE DEF x
  <2>5. Total(f, s) \in Nat
    <3>1. Total(f, s \ {x}) \in Nat
      BY <2>2, <2>4
    <3>2. f[x] \in Nat
      BY <2>4 DEF Counts
    <3> QED BY <2>4, <3>1, <3>2
  <2>6. ASSUME NEW y \in s, y # x
        PROVE  Total(f, s) = f[y] + Total(f, s \ {y})
    <3> DEFINE r == (s \ {x}) \ {y}
    <3>1. r = (s \ {y}) \ {x}
      OBVIOUS
    <3>2. Total(f, s \ {x}) = f[y] + Total(f, r)
      BY <2>2, <2>4, <2>6
    <3>3. Total(f, s \ {y}) = f[x] + Total(f, r)
      <4>1. Fine(s \ {y}) /\ x \in s \ {y}
        BY <2>2, <2>4, <2>6
      <4>2. Total(f, s \ {y}) = f[x] + Total(f, (s \ {y}) \ {x})
        BY <4>1
      <4> HIDE DEF r
      <4> QED BY <3>1, <4>2
    <3>4. Total(f, r) \in Nat
      <4>1. r # s /\ r \in SUBSET S /\ r \subseteq s \ {x}
        OBVIOUS
      <4>2. IsFiniteSet(s \ {x}) /\ IsFiniteSet(s) /\ IsFiniteSet(r)
            /\ Cardinality(s \ {x}) = Cardinality(s) - 1
            /\ Cardinality(r) <= Cardinality(s \ {x}) /\ Cardinality(s) \in Nat
            /\ Cardinality(r) \in Nat
        BY <2>4, <4>1, FS_Subset, FS_RemoveElement, FS_CardinalityType
      <4>3. r \notin T
        <5> HIDE DEF T, r
        <5>1. r \in T => Cardinality(s) <= Cardinality(r)
          BY <2>1
        <5> QED BY <4>2, <5>1
      <4> QED BY <4>1, <4>3
    <3> HIDE DEF r
    <3>5. f[x] \in Nat /\ f[y] \in Nat
      BY <2>4, <2>6 DEF Counts
    <3> QED BY <2>4, <3>2, <3>3, <3>4, <3>5
  <2> QED BY <2>1, <2>4, <2>5, <2>6
<1> QED BY <1>1

\* Less of everything is less in all, and so is a part of it.
LEMMA TotalMonotone ==
  ASSUME NEW f, NEW e, NEW S, IsFiniteSet(S), Counts(f, S), Counts(e, S),
         \A x \in S : f[x] <= e[x]
  PROVE  Total(f, S) <= Total(e, S)
<1> DEFINE T == {s \in SUBSET S : ~ (Total(f, s) <= Total(e, s))}
<1>1. ASSUME T # {} PROVE FALSE
  <2>1. PICK s \in T : \A t \in T : Cardinality(s) <= Cardinality(t)
    BY <1>1, SmallestIn
  <2>2. IsFiniteSet(s) /\ Counts(f, s) /\ Counts(e, s)
    BY FS_Subset DEF Counts
  <2>3. PICK x : x \in s
    <3>1. s = {} => Total(f, s) = 0 /\ Total(e, s) = 0
      BY <2>2, TotalTurn
    <3> QED BY <2>1, <3>1
  <2> DEFINE t == s \ {x}
  <2>4. /\ t \in SUBSET S /\ IsFiniteSet(t) /\ Cardinality(t) = Cardinality(s) - 1
        /\ Cardinality(s) \in Nat /\ Counts(f, t) /\ Counts(e, t)
    BY <2>2, <2>3, FS_RemoveElement, FS_CardinalityType DEF Counts
  <2>5. Total(f, t) <= Total(e, t)
    <3>1. t \notin T
      BY <2>1, <2>4
    <3> QED BY <2>4, <3>1
  <2>6. Total(f, s) = f[x] + Total(f, t) /\ Total(e, s) = e[x] + Total(e, t)
    BY <2>2, <2>3, TotalTakes
  <2>7. Total(f, t) \in Nat /\ Total(e, t) \in Nat
    BY <2>4, TotalTakes
  <2> HIDE DEF t
  <2>8. f[x] \in Nat /\ e[x] \in Nat /\ f[x] <= e[x]
    BY <2>3 DEF Counts
  <2> QED BY <2>1, <2>5, <2>6, <2>7, <2>8
<1> QED BY <1>1

LEMMA TotalOfPart ==
  ASSUME NEW f, NEW S, IsFiniteSet(S), Counts(f, S), NEW U \in SUBSET S
  PROVE  Total(f, U) <= Total(f, S)
<1> DEFINE T == {s \in SUBSET S : U \subseteq s /\ ~ (Total(f, U) <= Total(f, s))}
<1>1. ASSUME T # {} PROVE FALSE
  <2>1. PICK s \in T : \A t \in T : Cardinality(s) <= Cardinality(t)
    BY <1>1, SmallestIn
  <2>2. IsFiniteSet(s) /\ Counts(f, s) /\ IsFiniteSet(U) /\ Counts(f, U)
    BY FS_Subset DEF Counts
  <2>3. Total(f, U) \in Nat
    BY <2>2, TotalTakes
  <2>4. PICK x : x \in s /\ x \notin U
    <3>1. s # U
      BY <2>1, <2>3
    <3> QED BY <2>1, <3>1
  <2> DEFINE t == s \ {x}
  <2>5. /\ t \in SUBSET S /\ IsFiniteSet(t) /\ Cardinality(t) = Cardinality(s) - 1
        /\ Cardinality(s) \in Nat /\ Counts(f, t) /\ U \subseteq t
    BY <2>1, <2>2, <2>4, FS_RemoveElement, FS_CardinalityType DEF Counts
  <2>6. Total(f, U) <= Total(f, t)
    <3>1. t \notin T
      BY <2>1, <2>5
    <3> QED BY <2>5, <3>1
  <2>7. Total(f, s) = f[x] + Total(f, t) /\ Total(f, t) \in Nat
    BY <2>2, <2>4, <2>5, TotalTakes
  <2> HIDE DEF t
  <2>8. f[x] \in Nat
    BY <2>4 DEF Counts
  <2> QED BY <2>1, <2>3, <2>6, <2>7, <2>8
<1> QED BY <1>1

\* What is at most the sum of two, member by member, is so in all.
LEMMA TotalOfSum ==
  ASSUME NEW f, NEW e, NEW d, NEW S, IsFiniteSet(S), Counts(f, S), Counts(e, S), Counts(d, S),
         \A x \in S : d[x] <= f[x] + e[x]
  PROVE  Total(d, S) <= Total(f, S) + Total(e, S)
<1> DEFINE T == {s \in SUBSET S : ~ (Total(d, s) <= Total(f, s) + Total(e, s))}
<1>1. ASSUME T # {} PROVE FALSE
  <2>1. PICK s \in T : \A t \in T : Cardinality(s) <= Cardinality(t)
    BY <1>1, SmallestIn
  <2>2. IsFiniteSet(s) /\ Counts(f, s) /\ Counts(e, s) /\ Counts(d, s)
    BY FS_Subset DEF Counts
  <2>3. PICK x : x \in s
    <3>1. s = {} => Total(f, s) = 0 /\ Total(e, s) = 0 /\ Total(d, s) = 0
      BY <2>2, TotalTurn
    <3> QED BY <2>1, <3>1
  <2> DEFINE t == s \ {x}
  <2>4. /\ t \in SUBSET S /\ IsFiniteSet(t) /\ Cardinality(t) = Cardinality(s) - 1
        /\ Cardinality(s) \in Nat /\ Counts(f, t) /\ Counts(e, t) /\ Counts(d, t)
    BY <2>2, <2>3, FS_RemoveElement, FS_CardinalityType DEF Counts
  <2>5. Total(d, t) <= Total(f, t) + Total(e, t)
    <3>1. t \notin T
      BY <2>1, <2>4
    <3> QED BY <2>4, <3>1
  <2>6. Total(f, s) = f[x] + Total(f, t) /\ Total(e, s) = e[x] + Total(e, t)
        /\ Total(d, s) = d[x] + Total(d, t)
    BY <2>2, <2>3, TotalTakes
  <2>7. Total(f, t) \in Nat /\ Total(e, t) \in Nat /\ Total(d, t) \in Nat
    BY <2>4, TotalTakes
  <2> HIDE DEF t
  <2>8. f[x] \in Nat /\ e[x] \in Nat /\ d[x] \in Nat /\ d[x] <= f[x] + e[x]
    BY <2>3 DEF Counts
  <2> QED BY <2>1, <2>5, <2>6, <2>7, <2>8
<1> QED BY <1>1

-------------------------------------------------------------------------------
(* Links and the paths over them.                                          *)

\* Traffic is sent over link k.
Carried(m, k) == LinkStatus(m, k) \in {"up", "unknown"}

\* The record of the lightpath under link k allows its capacity.
Feasible(m, k) ==
  m.ipLinks[k].lightpath \in DOMAIN m.qot /\ ModeFeasible(m.qot[m.ipLinks[k].lightpath])

LEMMA StatusIs ==
  ASSUME NEW m, Coherent(m), NEW k
  PROVE  /\ Carried(m, k) <=> /\ k \in DOMAIN m.ipLinks
                              /\ m.ipLinks[k].lightpath \in DOMAIN m.qot => Feasible(m, k)
         /\ LinkStatus(m, k) = "up" <=> k \in DOMAIN m.ipLinks /\ Feasible(m, k)
         /\ k \in DOMAIN m.ipLinks /\ Feasible(m, k) =>
              Capacity(m, k) = Bitrate[m.lightpaths[m.ipLinks[k].lightpath].mode]
         /\ k \in DOMAIN m.ipLinks => Capacity(m, k) \in Nat
<1> DEFINE lp == m.ipLinks[k].lightpath
<1>1. CASE k \notin DOMAIN m.ipLinks
  BY <1>1 DEF Carried, LinkStatus
<1>2. CASE k \in DOMAIN m.ipLinks
  <2>1. lp \in Lit(m)
    BY <1>2 DEF Coherent, LinksRideLit
  <2>2. Bitrate[m.lightpaths[lp].mode] \in Nat \ {0}
    <3>1. m.lightpaths[lp] \in Lightpath
      BY <2>1 DEF Coherent, IsModel, IsMap, Lit
    <3> QED BY <3>1, RoutingAssumption DEF Lightpath
  <2>3. Capacity(m, k) = IF ModeFeasible(m.qot[lp]) THEN Bitrate[m.lightpaths[lp].mode] ELSE 0
    BY DEF Capacity
  <2>4. LinkStatus(m, k) = IF lp \notin DOMAIN m.qot THEN "unknown"
                           ELSE IF Capacity(m, k) > 0 THEN "up" ELSE "down"
    BY <1>2, <2>1 DEF LinkStatus
  <2> HIDE DEF lp
  <2>5. Feasible(m, k) <=> lp \in DOMAIN m.qot /\ ModeFeasible(m.qot[lp])
    BY DEF Feasible, lp
  <2>6. Capacity(m, k) \in Nat /\ (Capacity(m, k) > 0 <=> ModeFeasible(m.qot[lp]))
    BY <2>2, <2>3
  <2> QED BY <1>2, <2>3, <2>4, <2>5, <2>6 DEF Carried, lp
<1> QED BY <1>1, <1>2

LEMMA UsableIs ==
  ASSUME NEW m, NEW path
  PROVE  PathUsable(m, path) <=> path # <<>> /\ \A k \in Range(path) : Carried(m, k)
BY DEF PathUsable, Carried

\* Where every link that one model carries is carried by the other, a path
\* that can be used on the one can be used on the other.
LEMMA MoreUsable ==
  ASSUME NEW m, NEW n, \A k : Carried(n, k) => Carried(m, k), NEW path, PathUsable(n, path)
  PROVE  PathUsable(m, path)
BY UsableIs

LEMMA FewerDropped ==
  ASSUME NEW m, NEW n, \A k : Carried(n, k) => Carried(m, k), m.services = n.services
  PROVE  DroppedServices(m) \subseteq DroppedServices(n)
<1> SUFFICES ASSUME NEW s \in DOMAIN m.services, ActivePath(m, s) = <<>>
             PROVE  ActivePath(n, s) = <<>>
  BY DEF DroppedServices
<1> DEFINE w == m.services[s].working
           p == m.services[s].protection
<1>1. w = n.services[s].working /\ p = n.services[s].protection
  OBVIOUS
<1>2. \A path : PathUsable(n, path) => PathUsable(m, path) /\ path # <<>>
  BY MoreUsable DEF PathUsable
<1> HIDE DEF w, p
<1>3. ActivePath(m, s) = IF PathUsable(m, w) THEN w ELSE IF PathUsable(m, p) THEN p ELSE <<>>
  BY DEF ActivePath, w, p
<1>4. ActivePath(n, s) = IF PathUsable(n, w) THEN w ELSE IF PathUsable(n, p) THEN p ELSE <<>>
  BY <1>1 DEF ActivePath
<1>5. ~ PathUsable(m, w) \/ w = <<>>
  BY <1>3
<1>6. ~ PathUsable(m, w) => ~ PathUsable(m, p) \/ p = <<>>
  BY <1>3
<1>7. ~ PathUsable(n, w)
  BY <1>2, <1>5
<1>8. ~ PathUsable(n, p)
  <2>1. \A path : PathUsable(m, path) => path # <<>>
    BY DEF PathUsable
  <2> QED BY <1>2, <1>5, <1>6, <2>1
<1> QED BY <1>4, <1>7, <1>8

\* Demands are counts, and a model has finitely many services.
LEMMA Demands ==
  ASSUME IsFiniteSet(ServiceIds), NEW m, Coherent(m)
  PROVE  /\ IsFiniteSet(DOMAIN m.services) /\ Counts(Demand, DOMAIN m.services)
         /\ \A s \in DOMAIN m.services :
              /\ m.services[s] \in Service /\ Demand[s] \in Nat
              /\ \A k : /\ Crossings(m.services[s].working, k) \in Nat
                        /\ Crossings(m.services[s].protection, k) \in Nat
                        /\ Crossings(<<>>, k) \in Nat
<1>1. DOMAIN m.services \subseteq ServiceIds /\ \A s \in DOMAIN m.services : m.services[s] \in Service
  BY DEF Coherent, IsModel, IsMap
<1>2. IsFiniteSet(DOMAIN m.services)
  BY <1>1, FS_Subset
<1>3. \A s \in DOMAIN m.services : Demand[s] \in Nat
  BY <1>1, RoutingAssumption
<1>4. ASSUME NEW path \in Seq(LinkIds), NEW k
      PROVE  Crossings(path, k) \in Nat
  <2>1. IsFiniteSet(DOMAIN path)
    BY FS_Interval
  <2>2. {i \in DOMAIN path : path[i] = k} \in SUBSET DOMAIN path
    OBVIOUS
  <2> QED BY <2>1, <2>2, FS_Subset, FS_CardinalityType DEF Crossings
<1>5. <<>> \in Seq(LinkIds)
  OBVIOUS
<1> QED BY <1>1, <1>2, <1>3, <1>4, <1>5 DEF Service, Counts

\* Fewer services dropped is less demand dropped.
LEMMA LessDropped ==
  ASSUME IsFiniteSet(ServiceIds), NEW m, NEW n, Coherent(n),
         \A k : Carried(n, k) => Carried(m, k), m.services = n.services
  PROVE  DroppedDemand(m) <= DroppedDemand(n)
<1> DEFINE A == DroppedServices(m)
           B == DroppedServices(n)
<1>1. A \in SUBSET B
  BY FewerDropped
<1>2. IsFiniteSet(B) /\ Counts(Demand, B)
  <2>1. B \in SUBSET (DOMAIN n.services)
    BY DEF DroppedServices
  <2> QED BY <2>1, Demands, FS_Subset DEF Counts
<1> HIDE DEF A, B
<1>3. Total(Demand, A) <= Total(Demand, B)
  BY <1>1, <1>2, TotalOfPart
<1> QED BY <1>3 DEF DroppedDemand, A, B

-------------------------------------------------------------------------------
(* What a recompute, and what a cut, does to the links.                    *)

\* A model that was not recomputed carries whatever it carries once it was:
\* an entry that is missing is given the benefit of the doubt, and one that is
\* there says what the recompute will.
LEMMA UnsettledCarries ==
  ASSUME NEW m, Coherent(m), NEW n, Coherent(n), Near(m, n), Recompute(n, TRUE) = n,
         NEW k, Carried(n, k)
  PROVE  Carried(m, k)
<1> DEFINE lp == m.ipLinks[k].lightpath
<1>1. /\ n.ipLinks = m.ipLinks /\ n.lightpaths = m.lightpaths /\ n.failed = m.failed
      /\ Reached(n, FALSE) = Reached(m, FALSE) /\ Reached(n, TRUE) = Reached(n, FALSE)
      /\ Lit(n) = Lit(m) /\ \A j, A : Crossed(n, j, A) = Crossed(m, j, A)
      /\ \A j \in Lit(m) : Propagate(n, j) = Propagate(m, j)
  BY NearReads, SameReach DEF Near
<1>2. k \in DOMAIN m.ipLinks /\ lp \in Lit(m)
  <2>1. k \in DOMAIN n.ipLinks
    BY StatusIs
  <2> QED BY <1>1, <2>1 DEF Coherent, LinksRideLit
<1>3. lp \in DOMAIN n.qot => ModeFeasible(n.qot[lp])
  BY <1>1, StatusIs DEF Feasible
<1> HIDE DEF lp
<1> SUFFICES ASSUME lp \in DOMAIN m.qot PROVE ModeFeasible(m.qot[lp])
  BY <1>2, StatusIs DEF Feasible, lp
<1>4. CASE lp \notin Reached(m, FALSE)
  <2>1. lp \in DOMAIN n.qot /\ n.qot[lp] = m.qot[lp]
    BY <1>4 DEF Near
  <2> QED BY <1>3, <2>1
<1>5. CASE lp \in Reached(m, FALSE)
  <2>1. n.qot = Derived(n, TRUE)
    BY RecomputeQot
  <2>2. lp \in DOMAIN n.qot
    <3>1. DOMAIN Derived(n, TRUE) = DOMAIN n.qot \cup Reached(n, TRUE)
      BY DEF Derived
    <3> QED BY <1>1, <1>5, <2>1, <3>1
  <2>3. n.qot[lp] = Derived(n, TRUE)[lp] /\ lp \in DOMAIN n.qot \cup Reached(n, TRUE)
    BY <2>1, <2>2
  <2>4. Crossed(n, lp, n.failed) # {} => n.qot[lp] = Sentinel(Crossed(n, lp, n.failed))
    <3>1. lp \in Reached(n, TRUE)
      BY <1>1, <1>5
    <3> QED BY <2>3, <3>1, Zenon DEF Derived
  <2>5. ModeFeasible(n.qot[lp])
    BY <1>3, <2>2
  <2>6. Crossed(m, lp, m.failed) = {}
    <3>1. \A S : Sentinel(S).kind # "measured"
      BY DEF Sentinel
    <3> QED BY <1>1, <2>4, <2>5, <3>1 DEF ModeFeasible
  <2>7. IsMeasured(m, lp)
    <3>1. m.qot[lp] \in QoTState
      BY DEF Coherent, IsModel, IsMap
    <3>2. IsMeasured(m, lp) \/ IsSentinel(m, lp)
      BY <3>1 DEF QoTState, Sentinels, Measured, IsMeasured, IsSentinel
    <3> QED BY <2>6, <3>2 DEF Coherent, QotInv, Justified
  <2>8. IsMeasured(n, lp)
    BY <2>2, <2>5 DEF IsMeasured, ModeFeasible
  <2>9. m.qot[lp] = Propagate(m, lp) /\ n.qot[lp] = Propagate(n, lp)
    BY <2>2, <2>7, <2>8 DEF Coherent, QotInv, FreshQot
  <2> QED BY <1>1, <1>2, <2>5, <2>9
<1> QED BY <1>4, <1>5

\* A failure takes links down and leaves the others as they were.
LEMMA CutOnlyLowers ==
  ASSUME NEW m, Coherent(m), NEW assets \in SUBSET Failable, NEW n, n = InjectFailure(m, assets), NEW k
  PROVE  /\ Carried(n, k) => Carried(m, k)
         /\ LinkStatus(n, k) = "up" =>
              LinkStatus(m, k) = "up" /\ Capacity(n, k) = Capacity(m, k)
<1> DEFINE lp == m.ipLinks[k].lightpath
           downed == {j \in Lit(m) : Crossed(m, j, assets) # {}}
<1>1. /\ n.lightpaths = m.lightpaths /\ n.ipLinks = m.ipLinks /\ n.qot = Downed(m, assets)
      /\ Coherent(n)
  <2>1. Is(n, m.lightpaths, m.before, Downed(m, assets), m.ipLinks, m.services,
           m.failed \cup assets, m.impair)
    BY InjectFailureIs
  <2> QED BY <2>1, InjectFailureInv, IsFields
<1>2. DOMAIN n.qot = DOMAIN m.qot \cup downed
  BY <1>1 DEF Downed
<1>3. ASSUME lp \in DOMAIN n.qot, ModeFeasible(n.qot[lp])
      PROVE  lp \in DOMAIN m.qot /\ m.qot[lp] = n.qot[lp]
  <2>1. n.qot[lp] = IF lp \in downed THEN Sentinel(Crossed(m, lp, assets)) ELSE m.qot[lp]
    BY <1>1, <1>3 DEF Downed
  <2>2. \A S : Sentinel(S).kind # "measured"
    BY DEF Sentinel
  <2>3. lp \notin downed
    BY <1>3, <2>1, <2>2 DEF ModeFeasible
  <2> QED BY <1>2, <1>3, <2>1, <2>3
<1> HIDE DEF downed
<1>4. ASSUME Carried(n, k)
      PROVE  Carried(m, k)
  <2>1. k \in DOMAIN m.ipLinks /\ (lp \in DOMAIN n.qot => ModeFeasible(n.qot[lp]))
    BY <1>1, <1>4, StatusIs DEF Feasible
  <2>2. lp \in DOMAIN m.qot => ModeFeasible(m.qot[lp])
    BY <1>2, <1>3, <2>1
  <2> QED BY <2>1, <2>2, StatusIs DEF Feasible
<1>5. ASSUME LinkStatus(n, k) = "up"
      PROVE  LinkStatus(m, k) = "up" /\ Capacity(n, k) = Capacity(m, k)
  <2>1. k \in DOMAIN m.ipLinks /\ lp \in DOMAIN n.qot /\ ModeFeasible(n.qot[lp])
    BY <1>1, <1>5, StatusIs DEF Feasible
  <2>2. lp \in DOMAIN m.qot /\ ModeFeasible(m.qot[lp])
    BY <1>3, <2>1
  <2>3. Feasible(m, k) /\ Feasible(n, k)
    BY <1>1, <2>1, <2>2 DEF Feasible
  <2>4. LinkStatus(m, k) = "up"
    BY <2>1, <2>3, StatusIs
  <2>5. Capacity(n, k) = Bitrate[n.lightpaths[n.ipLinks[k].lightpath].mode]
        /\ Capacity(m, k) = Bitrate[m.lightpaths[m.ipLinks[k].lightpath].mode]
    BY <1>1, <2>1, <2>3, StatusIs
  <2> QED BY <1>1, <2>4, <2>5
<1> QED BY <1>4, <1>5

\* The load that service s puts on link k when it rides path.
Share(s, path, k) == Demand[s] * Crossings(path, k)

\* Load adds the shares up.
LEMMA LoadIs ==
  ASSUME NEW m, NEW k
  PROVE  /\ ActiveLoad(m, k) = Total([s \in DOMAIN m.services |-> Share(s, ActivePath(m, s), k)],
                                     DOMAIN m.services)
         /\ OfferedLoad(m, k) = Total([s \in DOMAIN m.services |-> Share(s, m.services[s].working, k)],
                                      DOMAIN m.services)
         /\ Reserved(m, k) = Total([s \in DOMAIN m.services |-> Share(s, m.services[s].protection, k)],
                                   DOMAIN m.services)
<1> DEFINE D == DOMAIN m.services
<1>1. ASSUME NEW pathOf, pathOf = [s \in D |-> pathOf[s]]
      PROVE  LoadOn(m, k, pathOf) = Total([s \in D |-> Share(s, pathOf[s], k)], D)
  BY DEF LoadOn, Share
<1> DEFINE a == [s \in D |-> ActivePath(m, s)]
           w == [s \in D |-> m.services[s].working]
           p == [s \in D |-> m.services[s].protection]
<1>2. /\ a = [s \in D |-> a[s]] /\ w = [s \in D |-> w[s]] /\ p = [s \in D |-> p[s]]
      /\ [s \in D |-> Share(s, a[s], k)] = [s \in D |-> Share(s, ActivePath(m, s), k)]
      /\ [s \in D |-> Share(s, w[s], k)] = [s \in D |-> Share(s, m.services[s].working, k)]
      /\ [s \in D |-> Share(s, p[s], k)] = [s \in D |-> Share(s, m.services[s].protection, k)]
  OBVIOUS
<1>3. /\ ActiveLoad(m, k) = LoadOn(m, k, a)
      /\ OfferedLoad(m, k) = LoadOn(m, k, w) /\ Reserved(m, k) = LoadOn(m, k, p)
  BY DEF ActiveLoad, OfferedLoad, Reserved
<1> HIDE DEF a, w, p, D
<1>4. /\ LoadOn(m, k, a) = Total([s \in D |-> Share(s, a[s], k)], D)
      /\ LoadOn(m, k, w) = Total([s \in D |-> Share(s, w[s], k)], D)
      /\ LoadOn(m, k, p) = Total([s \in D |-> Share(s, p[s], k)], D)
  BY <1>1, <1>2
<1> QED BY <1>2, <1>3, <1>4 DEF D

LEMMA LoadsAreCounts ==
  ASSUME IsFiniteSet(ServiceIds), NEW m, Coherent(m), NEW k
  PROVE  ActiveLoad(m, k) \in Nat /\ OfferedLoad(m, k) \in Nat /\ Reserved(m, k) \in Nat
<1> DEFINE D == DOMAIN m.services
           a == [s \in D |-> Share(s, ActivePath(m, s), k)]
           w == [s \in D |-> Share(s, m.services[s].working, k)]
           p == [s \in D |-> Share(s, m.services[s].protection, k)]
<1>1. ActiveLoad(m, k) = Total(a, D) /\ OfferedLoad(m, k) = Total(w, D) /\ Reserved(m, k) = Total(p, D)
  BY LoadIs
<1>2. ASSUME NEW s \in D
      PROVE  a[s] \in Nat /\ w[s] \in Nat /\ p[s] \in Nat
  <2>1. /\ Demand[s] \in Nat /\ Crossings(m.services[s].working, k) \in Nat
        /\ Crossings(m.services[s].protection, k) \in Nat /\ Crossings(<<>>, k) \in Nat
    BY Demands
  <2>2. ActivePath(m, s) \in {m.services[s].working, m.services[s].protection, <<>>}
    BY DEF ActivePath
  <2>3. Crossings(ActivePath(m, s), k) \in Nat
    BY <2>1, <2>2
  <2>4. \A c \in Nat : Demand[s] * c \in Nat
    BY <2>1
  <2>5. /\ a[s] = Demand[s] * Crossings(ActivePath(m, s), k)
        /\ w[s] = Demand[s] * Crossings(m.services[s].working, k)
        /\ p[s] = Demand[s] * Crossings(m.services[s].protection, k)
    BY DEF Share
  <2> QED BY <2>1, <2>3, <2>4, <2>5
<1>3. Counts(a, D) /\ Counts(w, D) /\ Counts(p, D)
  BY <1>2 DEF Counts
<1> HIDE DEF a, w, p, D
<1>4. IsFiniteSet(D)
  BY Demands DEF D
<1> QED BY <1>1, <1>3, <1>4, TotalTakes

\* 1:1 admission, on one link: where the working load is within the capacity,
\* and fits together with whatever is reserved, it fits after any cut.
LEMMA CutFits ==
  ASSUME IsFiniteSet(ServiceIds), NEW m, Coherent(m), NEW assets \in SUBSET Failable,
         NEW n, n = InjectFailure(m, assets), NEW k, NEW cap \in Nat,
         ActiveLoad(m, k) <= cap,
         Reserved(m, k) > 0 => OfferedLoad(m, k) + Reserved(m, k) <= cap
  PROVE  ActiveLoad(n, k) <= cap
<1> DEFINE D == DOMAIN m.services
           a == [s \in D |-> Share(s, ActivePath(m, s), k)]
           b == [s \in D |-> Share(s, ActivePath(n, s), k)]
           w == [s \in D |-> Share(s, m.services[s].working, k)]
           p == [s \in D |-> Share(s, m.services[s].protection, k)]
<1>1. n.services = m.services
  BY InjectFailureInv
<1>2. /\ ActiveLoad(m, k) = Total(a, D) /\ ActiveLoad(n, k) = Total(b, D)
      /\ OfferedLoad(m, k) = Total(w, D) /\ Reserved(m, k) = Total(p, D)
  BY <1>1, LoadIs
<1>3. IsFiniteSet(D)
  BY Demands
<1>4. ASSUME NEW s \in D
      PROVE  /\ a[s] \in Nat /\ b[s] \in Nat /\ w[s] \in Nat /\ p[s] \in Nat
             /\ b[s] <= w[s] + p[s]
             /\ p[s] = 0 => b[s] <= a[s]
  <2> DEFINE W == m.services[s].working
             P == m.services[s].protection
  <2>1. /\ a[s] = Demand[s] * Crossings(ActivePath(m, s), k)
        /\ b[s] = Demand[s] * Crossings(ActivePath(n, s), k)
        /\ w[s] = Demand[s] * Crossings(W, k) /\ p[s] = Demand[s] * Crossings(P, k)
    BY DEF Share
  <2>2. Demand[s] \in Nat /\ Crossings(W, k) \in Nat /\ Crossings(P, k) \in Nat
        /\ Crossings(<<>>, k) = 0
    <3>1. {i \in DOMAIN <<>> : <<>>[i] = k} = {}
      OBVIOUS
    <3>2. Crossings(<<>>, k) = 0
      BY <3>1, FS_EmptySet DEF Crossings
    <3> QED BY <3>2, Demands
  <2>3. /\ ActivePath(m, s) = IF PathUsable(m, W) THEN W ELSE IF PathUsable(m, P) THEN P ELSE <<>>
        /\ ActivePath(n, s) = IF PathUsable(n, W) THEN W ELSE IF PathUsable(n, P) THEN P ELSE <<>>
    BY <1>1 DEF ActivePath
  <2>4. PathUsable(n, W) => PathUsable(m, W)
    BY CutOnlyLowers, MoreUsable
  <2> HIDE DEF a, b, w, p, W, P
  <2>5. \/ ActivePath(n, s) = W /\ ActivePath(m, s) = W
        \/ ActivePath(n, s) = P \/ ActivePath(n, s) = <<>>
    BY <2>3, <2>4
  <2>6. ActivePath(m, s) \in {W, P, <<>>}
    BY <2>3
  <2> DEFINE d == Demand[s]
             cw == Crossings(W, k)
             cp == Crossings(P, k)
  <2>7. d * cw \in Nat /\ d * cp \in Nat /\ d * 0 = 0
    BY <2>2
  <2>8. a[s] \in {d * cw, d * cp, 0} /\ w[s] = d * cw /\ p[s] = d * cp
    BY <2>1, <2>2, <2>6, <2>7
  <2>9. \/ b[s] = d * cw /\ a[s] = d * cw
        \/ b[s] = d * cp \/ b[s] = 0
    BY <2>1, <2>2, <2>5, <2>7
  <2> HIDE DEF d, cw, cp
  <2> QED BY <2>7, <2>8, <2>9
<1>5. Counts(a, D) /\ Counts(b, D) /\ Counts(w, D) /\ Counts(p, D)
  BY <1>4 DEF Counts
<1> HIDE DEF a, b, w, p, D
<1>6. /\ Total(a, D) \in Nat /\ Total(b, D) \in Nat /\ Total(w, D) \in Nat /\ Total(p, D) \in Nat
  BY <1>3, <1>5, TotalTakes
<1>7. CASE Total(p, D) > 0
  <2>1. Total(b, D) <= Total(w, D) + Total(p, D)
    BY <1>3, <1>4, <1>5, TotalOfSum
  <2> QED BY <1>2, <1>6, <1>7, <2>1
<1>8. CASE Total(p, D) = 0
  <2>1. ASSUME NEW s \in D PROVE p[s] = 0
    <3>1. Total(p, D) = p[s] + Total(p, D \ {s})
      BY <1>3, <1>5, TotalTakes
    <3>2. Total(p, D \ {s}) \in Nat
      <4>1. IsFiniteSet(D \ {s}) /\ Counts(p, D \ {s})
        BY <1>3, <1>5, FS_RemoveElement DEF Counts
      <4> QED BY <4>1, TotalTakes
    <3> QED BY <1>4, <1>8, <3>1, <3>2
  <2>2. Total(b, D) <= Total(a, D)
    BY <1>3, <1>4, <1>5, <2>1, TotalMonotone
  <2> QED BY <1>2, <1>6, <2>2
<1> QED BY <1>6, <1>7, <1>8
===============================================================================
