------------------------------ MODULE RsaProofs ------------------------------
(***************************************************************************)
(* Proofs about Rsa for every topology, every model to start from, every   *)
(* list of demands and every caps: whatever the route search returns, a    *)
(* slot is taken only where nothing lights it, and the spectrum of the     *)
(* solve is what the model and the answers account for.                    *)
(* What the route search returns keeps clear of what fails or is avoided,  *)
(* and the two legs of a demand are apart.                                 *)
(***************************************************************************)
EXTENDS Rsa, RoutingProofs

-------------------------------------------------------------------------------
(* First fit.                                                              *)

\* The mode of a leg was chosen for some comb and some table of increments.
ChosenMode(leg) ==
  /\ leg.mode # NoMode
  /\ \E calibrated, state :
       leg.mode = BestFeasibleMode(WorseDirection(calibrated, leg.oms, leg.slot,
                                                  Loading(state, leg.oms, leg.slot)))

\* A leg whose slot no section of it lights.
FreeLeg(leg, state) ==
  /\ leg.slot \in Slots
  /\ ChosenMode(leg)
  /\ \A o \in OMS \cap Range(leg.oms) : leg.slot \notin state[o]

\* What an assignment is made of.
LEMMA AssignedIs ==
  ASSUME NEW calibrated, NEW state, NEW route, NEW rate, NEW a,
         a = AssignOnRoute(calibrated, state, route, rate), a # NoAssignment
  PROVE  /\ a.oms = route /\ a.slot = FirstFitSlot(state, route) /\ a.slot # NoSlot
         /\ a.mode # NoMode
         /\ a.mode = BestFeasibleMode(WorseDirection(calibrated, route, a.slot,
                                                     Loading(state, route, a.slot)))
<1> DEFINE slot == FirstFitSlot(state, route)
           mode == BestFeasibleMode(WorseDirection(calibrated, route, slot,
                                                   Loading(state, route, slot)))
<1>1. slot # NoSlot /\ mode # NoMode /\ a = [oms |-> route, slot |-> slot, mode |-> mode]
  BY DEF AssignOnRoute
<1> QED BY <1>1

LEMMA AssignedFree ==
  ASSUME NEW calibrated, NEW state, NEW route, NEW rate, NEW a,
         a = AssignOnRoute(calibrated, state, route, rate), a # NoAssignment,
         NEW d, NEW which
  PROVE  FreeLeg(Leg(d, which, a), state) /\ Leg(d, which, a).oms = route
<1>1. a.oms = route /\ a.slot = FirstFitSlot(state, route) /\ a.slot # NoSlot
  BY AssignedIs
<1>2. /\ Leg(d, which, a).slot = a.slot /\ Leg(d, which, a).oms = a.oms
      /\ Leg(d, which, a).mode = a.mode
  BY DEF Leg
<1>3. ChosenMode(Leg(d, which, a))
  BY <1>1, <1>2, AssignedIs DEF ChosenMode
<1> QED BY <1>1, <1>2, <1>3, FirstFitFree DEF FreeLeg

-------------------------------------------------------------------------------
(* Searches.                                                               *)

OneLeg(legs, x)     == legs = <<x>> /\ FreeLeg(x, work)
TwoLegs(legs, x, y) == /\ legs = <<x, y>> /\ FreeLeg(x, work)
                       /\ FreeLeg(y, Reserve(work, x.oms, x.slot))

GoodLegs(legs) ==
  \/ legs = <<>>
  \/ \E x : OneLeg(legs, x)
  \/ \E x, y : TwoLegs(legs, x, y)

LEMMA AnswerLegs ==
  ASSUME NEW legs, NEW seen, NEW raises
  PROVE  Answer(legs, seen, raises).legs = legs
BY DEF Answer

LEMMA RoutesGood ==
  ASSUME NEW d, NEW routes, NEW search \in OnRoutes(d, routes)
  PROVE  GoodLegs(search.legs)
<1>1. PICK legs \in IF Assigned(routes, d.rate) = {} THEN {<<>>}
                    ELSE BestLegs(d, Assigned(routes, d.rate)) :
        search = Answer(legs, TableAfter(table, work, Range(routes)),
                        \E r \in Range(routes) : Raises(work, r))
  BY DEF OnRoutes
<1>2. search.legs = legs
  BY <1>1, AnswerLegs
<1>3. CASE Assigned(routes, d.rate) = {}
  BY <1>1, <1>2, <1>3 DEF GoodLegs
<1>4. CASE Assigned(routes, d.rate) # {}
  <2>1. PICK x \in Assigned(routes, d.rate) : legs = <<Leg(d, "working", x.got)>>
    BY <1>1, <1>4 DEF BestLegs
  <2>2. x.got # NoAssignment
    BY DEF Assigned
  <2>3. PICK i \in DOMAIN routes :
          x = [at |-> i, got |-> AssignOnRoute(TableAfter(table, work, {routes[j] : j \in 1 .. i - 1}),
                                               work, routes[i], d.rate)]
    BY DEF Assigned
  <2>4. x.got = AssignOnRoute(TableAfter(table, work, {routes[j] : j \in 1 .. i - 1}),
                              work, routes[i], d.rate)
    BY <2>3
  <2>5. FreeLeg(Leg(d, "working", x.got), work)
    BY <2>2, <2>4, AssignedFree
  <2> QED BY <1>2, <2>1, <2>5 DEF GoodLegs, OneLeg
<1> QED BY <1>3, <1>4

LEMMA SecondGood ==
  ASSUME NEW d, NEW a, NEW route, NEW seen, NEW first,
         FreeLeg(Leg(d, "working", a), work), a.oms = first
  PROVE  GoodLegs(OnSecond(d, a, route, Reserve(work, first, a.slot), seen).legs)
<1> DEFINE trial == Reserve(work, first, a.slot)
           b == AssignOnRoute(seen, trial, route, d.rate)
           x == Leg(d, "working", a)
           y == Leg(d, "protection", b)
<1>1. OnSecond(d, a, route, trial, seen).legs = IF b = NoAssignment THEN <<>> ELSE <<x, y>>
  BY AnswerLegs DEF OnSecond
<1>2. CASE b = NoAssignment
  BY <1>1, <1>2 DEF GoodLegs
<1>3. CASE b # NoAssignment
  <2>1. FreeLeg(y, trial)
    BY <1>3, AssignedFree
  <2>2. x.oms = first /\ x.slot = a.slot
    BY DEF Leg
  <2>3. TwoLegs(<<x, y>>, x, y)
    BY <2>1, <2>2 DEF TwoLegs
  <2> QED BY <1>1, <1>3, <2>3 DEF GoodLegs
<1> QED BY <1>2, <1>3

LEMMA PairGood ==
  ASSUME NEW d PROVE GoodLegs(SearchPair(d).legs)
<1> DEFINE pair == DisjointPair(d)
           a == AssignOnRoute(table, work, pair.a, d.rate)
           seen == TableAfter(table, work, {pair.a})
<1>1. CASE pair.status = "no_solution"
  BY <1>1, AnswerLegs DEF SearchPair, GoodLegs
<1>2. CASE pair.status # "no_solution"
  <2>1. SearchPair(d) = OnPair(d, pair, a, seen)
    BY <1>2 DEF SearchPair
  <2>2. CASE Raises(work, pair.a)
    BY <2>1, <2>2, AnswerLegs DEF OnPair, GoodLegs
  <2>3. CASE ~ Raises(work, pair.a) /\ a = NoAssignment
    BY <2>1, <2>3, AnswerLegs DEF OnPair, GoodLegs
  <2>4. CASE ~ Raises(work, pair.a) /\ a # NoAssignment
    <3>1. SearchPair(d) = OnSecond(d, a, pair.b, Reserve(work, pair.a, a.slot), seen)
      BY <2>1, <2>4 DEF OnPair
    <3>2. FreeLeg(Leg(d, "working", a), work) /\ a.oms = pair.a
      BY <2>4, AssignedFree, AssignedIs
    <3> QED BY <3>1, <3>2, SecondGood
  <2> QED BY <2>2, <2>3, <2>4
<1> QED BY <1>1, <1>2

\* Whatever routes a search is given, its legs are free when they are taken.
LEMMA SearchGood ==
  ASSUME NEW d, NEW search \in Searches(d)
  PROVE  GoodLegs(search.legs)
BY RoutesGood, PairGood DEF Searches, SearchRoutes

-------------------------------------------------------------------------------
(* Reserving.                                                              *)

IsSeq(s) == s \in Seq(Range(s))

Distinct(s) == \A i, j \in DOMAIN s : i # j => ~ SameChannel(s[i], s[j])

DarkIn(base, s) == \A i \in DOMAIN s : FreeLeg(s[i], base)

\* The inductive invariant: a list of legs and the spectrum it leaves.
Accounted(base, s, state) ==
  /\ IsSeq(s) /\ state = ReserveLegs(base, s)
  /\ Distinct(s) /\ DarkIn(base, s)

IInv == Accounted(BuildSpectrumState(net), placed, work)

LEMMA AppendIs ==
  ASSUME NEW s, IsSeq(s), NEW x
  PROVE  /\ IsSeq(Append(s, x))
         /\ Len(s) \in Nat /\ DOMAIN s = 1 .. Len(s)
         /\ DOMAIN Append(s, x) = 1 .. Len(s) + 1
         /\ \A i \in 1 .. Len(s) : Append(s, x)[i] = s[i]
         /\ Append(s, x)[Len(s) + 1] = x
<1> DEFINE S == Range(s) \cup {x}
           t == Append(s, x)
<1>1. s \in Seq(S) /\ x \in S
  BY DEF IsSeq
<1>2. /\ t \in Seq(S) /\ Len(t) = Len(s) + 1
      /\ \A i \in 1 .. Len(s) : t[i] = s[i]
      /\ t[Len(s) + 1] = x
  BY <1>1, AppendProperties
<1>3. Len(s) \in Nat /\ DOMAIN s = 1 .. Len(s) /\ DOMAIN t = 1 .. Len(s) + 1
  BY <1>1, <1>2, LenProperties
<1>4. IsSeq(t)
  <2>1. t \in [1 .. Len(t) -> S] /\ Len(t) \in Nat
    BY <1>2, LenProperties
  <2>2. t \in [1 .. Len(t) -> Range(t)]
    BY <2>1 DEF Range
  <2> QED BY <2>1, <2>2, SeqDef DEF IsSeq
<1> QED BY <1>2, <1>3, <1>4

LEMMA ReserveOne ==
  ASSUME NEW base, NEW s, IsSeq(s), NEW x
  PROVE  ReserveLegs(base, Append(s, x)) = Reserve(ReserveLegs(base, s), x.oms, x.slot)
<1> DEFINE t == Append(s, x)
           lit(q, o) == {q[i].slot : i \in {i \in DOMAIN q : o \in Range(q[i].oms)}}
<1>1. ASSUME NEW o \in OMS
      PROVE  lit(t, o) = lit(s, o) \cup (IF o \in Range(x.oms) THEN {x.slot} ELSE {})
  BY AppendIs
<1>2. ASSUME NEW o \in OMS
      PROVE  ReserveLegs(base, t)[o] = Reserve(ReserveLegs(base, s), x.oms, x.slot)[o]
  <2>1. ReserveLegs(base, t)[o] = base[o] \cup lit(t, o)
    BY DEF ReserveLegs
  <2>2. ReserveLegs(base, s)[o] = base[o] \cup lit(s, o)
    BY DEF ReserveLegs
  <2>3. Reserve(ReserveLegs(base, s), x.oms, x.slot)[o] =
          IF o \in Range(x.oms) THEN ReserveLegs(base, s)[o] \cup {x.slot}
          ELSE ReserveLegs(base, s)[o]
    BY DEF Reserve
  <2> QED BY <1>1, <2>1, <2>2, <2>3
<1>3. /\ ReserveLegs(base, t) = [o \in OMS |-> ReserveLegs(base, t)[o]]
      /\ Reserve(ReserveLegs(base, s), x.oms, x.slot) =
           [o \in OMS |-> Reserve(ReserveLegs(base, s), x.oms, x.slot)[o]]
  BY DEF ReserveLegs, Reserve
<1> QED BY <1>2, <1>3

\* A leg that is free when it is taken keeps the books.
LEMMA TakeLeg ==
  ASSUME NEW base, NEW s, NEW state, Accounted(base, s, state),
         NEW x, FreeLeg(x, state)
  PROVE  Accounted(base, Append(s, x), Reserve(state, x.oms, x.slot))
<1> DEFINE t == Append(s, x)
           n == Len(s)
<1>1. /\ IsSeq(t) /\ n \in Nat /\ DOMAIN s = 1 .. n /\ DOMAIN t = 1 .. n + 1
      /\ \A i \in 1 .. n : t[i] = s[i]
      /\ t[n + 1] = x
  BY AppendIs DEF Accounted
<1>2. Reserve(state, x.oms, x.slot) = ReserveLegs(base, t)
  BY ReserveOne DEF Accounted
<1>3. \A o \in OMS : state[o] = base[o] \cup {s[i].slot : i \in {i \in DOMAIN s : o \in Range(s[i].oms)}}
  BY DEF Accounted, ReserveLegs
<1>4. ASSUME NEW i \in 1 .. n PROVE ~ SameChannel(s[i], x) /\ ~ SameChannel(x, s[i])
  <2>1. ASSUME NEW o \in OMS, o \in Range(s[i].oms), o \in Range(x.oms)
        PROVE  s[i].slot # x.slot
    <3>1. s[i].slot \in state[o]
      BY <1>1, <1>3, <2>1
    <3> QED BY <3>1, <2>1 DEF FreeLeg
  <2> QED BY <2>1 DEF SameChannel
<1>5. Distinct(t)
  <2> SUFFICES ASSUME NEW i \in 1 .. n + 1, NEW j \in 1 .. n + 1, i # j
               PROVE  ~ SameChannel(t[i], t[j])
    BY <1>1 DEF Distinct
  <2>1. CASE i \in 1 .. n /\ j \in 1 .. n
    BY <1>1, <2>1 DEF Accounted, Distinct
  <2>2. CASE i = n + 1 /\ j \in 1 .. n
    BY <1>1, <1>4, <2>2
  <2>3. CASE i \in 1 .. n /\ j = n + 1
    BY <1>1, <1>4, <2>3
  <2> QED BY <1>1, <2>1, <2>2, <2>3
<1>6. FreeLeg(x, base)
  BY <1>3 DEF FreeLeg
<1>7. DarkIn(base, t)
  BY <1>1, <1>6 DEF Accounted, DarkIn
<1> QED BY <1>1, <1>2, <1>5, <1>7 DEF Accounted

LEMMA OneMore ==
  ASSUME NEW s, IsSeq(s), NEW x
  PROVE  s \o <<x>> = Append(s, x)
<1> DEFINE S == Range(s) \cup {x}
<1>1. s \in Seq(S) /\ x \in S
  BY DEF IsSeq
<1> QED BY <1>1, AppendIsConcat

LEMMA Few ==
  ASSUME NEW x, NEW y
  PROVE  /\ IsSeq(<<>>) /\ IsSeq(<<x>>)
         /\ Append(<<>>, x) = <<x>> /\ Append(<<x>>, y) = <<x, y>>
<1> DEFINE S == {x, y}
<1>1. IsSeq(<<>>)
  BY EmptySeq DEF IsSeq
<1>2. /\ <<>> \in Seq(S) /\ <<x>> \in Seq(S) /\ <<x, y>> \in Seq(S)
      /\ Len(<<>>) = 0 /\ Len(<<x>>) = 1 /\ Len(<<x, y>>) = 2
      /\ x \in S /\ y \in S
  OBVIOUS
<1>3. /\ Append(<<>>, x) \in Seq(S) /\ Len(Append(<<>>, x)) = 1 /\ Append(<<>>, x)[1] = x
      /\ Append(<<x>>, y) \in Seq(S) /\ Len(Append(<<x>>, y)) = 2
      /\ Append(<<x>>, y)[1] = x /\ Append(<<x>>, y)[2] = y
  BY <1>2, AppendProperties
<1>4. Append(<<>>, x) = <<x>>
  <2>1. \A i \in 1 .. Len(<<x>>) : Append(<<>>, x)[i] = <<x>>[i]
    BY <1>2, <1>3
  <2> QED BY <1>2, <1>3, <2>1, SeqEqual
<1>5. Append(<<x>>, y) = <<x, y>>
  <2>1. \A i \in 1 .. Len(<<x, y>>) : Append(<<x>>, y)[i] = <<x, y>>[i]
    BY <1>2, <1>3
  <2> QED BY <1>2, <1>3, <2>1, SeqEqual
<1>6. IsSeq(Append(<<>>, x))
  BY <1>1, AppendIs
<1> QED BY <1>1, <1>4, <1>5, <1>6

LEMMA TwoMore ==
  ASSUME NEW s, IsSeq(s), NEW x, NEW y
  PROVE  s \o <<x, y>> = Append(Append(s, x), y)
<1> DEFINE S == Range(s) \cup {x, y}
<1>1. s \in Seq(S) /\ <<x>> \in Seq(S) /\ <<y>> \in Seq(S) /\ y \in S
  <2>1. s \in Seq(S) /\ x \in S /\ y \in S
    BY DEF IsSeq
  <2> QED BY <2>1
<1>2. <<x, y>> = <<x>> \o <<y>>
  BY <1>1, Few, AppendIsConcat
<1>3. s \o (<<x>> \o <<y>>) = (s \o <<x>>) \o <<y>>
  BY <1>1, ConcatAssociative
<1>4. s \o <<x>> = Append(s, x) /\ IsSeq(Append(s, x))
  BY OneMore, AppendIs
<1>5. Append(s, x) \o <<y>> = Append(Append(s, x), y)
  BY <1>4, OneMore
<1> QED BY <1>2, <1>3, <1>4, <1>5

\* A function on the sections.
PerSection(state) == state = [o \in OMS |-> state[o]]

\* ReserveLegs of no leg and of one.
LEMMA ReserveFew ==
  ASSUME NEW state, PerSection(state), NEW x
  PROVE  /\ ReserveLegs(state, <<>>) = state
         /\ ReserveLegs(state, <<x>>) = Reserve(state, x.oms, x.slot)
<1>1. IsSeq(<<>>) /\ Append(<<>>, x) = <<x>>
  BY Few
<1>2. ReserveLegs(state, <<>>) = state
  <2>1. \A o \in OMS : state[o] \cup {<<>>[i].slot : i \in {i \in DOMAIN <<>> : o \in Range(<<>>[i].oms)}} = state[o]
    OBVIOUS
  <2>2. ReserveLegs(state, <<>>) = [o \in OMS |-> state[o]]
    BY <2>1 DEF ReserveLegs
  <2> QED BY <2>2 DEF PerSection
<1>3. ReserveLegs(state, <<x>>) = Reserve(state, x.oms, x.slot)
  <2>1. PICK none : none = <<>> /\ IsSeq(none)
    BY <1>1
  <2>2. ReserveLegs(state, Append(none, x)) = Reserve(ReserveLegs(state, none), x.oms, x.slot)
    BY <2>1, ReserveOne
  <2> QED BY <1>1, <1>2, <2>1, <2>2
<1> QED BY <1>2, <1>3

LEMMA ReserveTwo ==
  ASSUME NEW state, PerSection(state), NEW x, NEW y, NEW mid,
         mid = Reserve(state, x.oms, x.slot)
  PROVE  ReserveLegs(state, <<x, y>>) = Reserve(mid, y.oms, y.slot)
<1>1. IsSeq(<<x>>) /\ Append(<<x>>, y) = <<x, y>>
  BY Few
<1>2. ReserveLegs(state, Append(<<x>>, y)) = Reserve(ReserveLegs(state, <<x>>), y.oms, y.slot)
  BY <1>1, ReserveOne
<1>3. ReserveLegs(state, <<x>>) = mid
  BY ReserveFew
<1> QED BY <1>1, <1>2, <1>3

-------------------------------------------------------------------------------
(* Every step keeps the books.                                             *)

LEMMA PlaceKeeps ==
  ASSUME IInv, NEW legs, GoodLegs(legs)
  PROVE  Accounted(BuildSpectrumState(net), placed \o legs, ReserveLegs(work, legs))
<1> DEFINE base == BuildSpectrumState(net)
<1>1. IsSeq(placed) /\ Accounted(base, placed, work)
  BY DEF IInv, Accounted
<1>2. PerSection(work)
  BY <1>1 DEF Accounted, ReserveLegs, PerSection
<1>3. CASE legs = <<>>
  <2>1. placed \o legs = placed
    BY <1>1, <1>3, ConcatEmptySeq DEF IsSeq
  <2>2. ReserveLegs(work, legs) = work
    BY <1>2, <1>3, ReserveFew
  <2> QED BY <1>1, <2>1, <2>2
<1>4. ASSUME NEW x, OneLeg(legs, x)
      PROVE  Accounted(base, placed \o legs, ReserveLegs(work, legs))
  <2>1. legs = <<x>> /\ FreeLeg(x, work)
    BY <1>4 DEF OneLeg
  <2>2. placed \o legs = Append(placed, x)
    BY <1>1, <2>1, OneMore
  <2>3. ReserveLegs(work, <<x>>) = Reserve(work, x.oms, x.slot)
    BY <1>2, ReserveFew
  <2> QED BY <1>1, <2>1, <2>2, <2>3, TakeLeg
<1>5. ASSUME NEW x, NEW y, TwoLegs(legs, x, y)
      PROVE  Accounted(base, placed \o legs, ReserveLegs(work, legs))
  <2> DEFINE mid == Reserve(work, x.oms, x.slot)
  <2>1. legs = <<x, y>> /\ FreeLeg(x, work) /\ FreeLeg(y, mid)
    BY <1>5 DEF TwoLegs
  <2>2. Accounted(base, Append(placed, x), mid)
    BY <1>1, <2>1, TakeLeg
  <2>3. Accounted(base, Append(Append(placed, x), y), Reserve(mid, y.oms, y.slot))
    BY <2>1, <2>2, TakeLeg
  <2>4. placed \o legs = Append(Append(placed, x), y)
    BY <1>1, <2>1, TwoMore
  <2>5. ReserveLegs(work, <<x, y>>) = Reserve(mid, y.oms, y.slot)
    BY <1>2, ReserveTwo
  <2>6. legs = <<x, y>>
    BY <2>1
  <2>7. ReserveLegs(work, legs) = Reserve(mid, y.oms, y.slot)
    BY <2>5, <2>6
  <2> HIDE DEF mid
  <2> QED BY <2>3, <2>4, <2>7
<1> QED BY <1>3, <1>4, <1>5 DEF GoodLegs

LEMMA InitAccounted == Init => IInv
<1> SUFFICES ASSUME Init PROVE IInv
  OBVIOUS
<1>1. placed = <<>> /\ work = BuildSpectrumState(net) /\ PerSection(work)
  BY DEF Init, BuildSpectrumState, PerSection
<1>2. work = ReserveLegs(BuildSpectrumState(net), placed)
  BY <1>1, ReserveFew
<1>3. IsSeq(placed)
  BY <1>1, Few
<1>4. Distinct(placed) /\ DarkIn(BuildSpectrumState(net), placed)
  BY <1>1 DEF Distinct, DarkIn
<1> QED BY <1>2, <1>3, <1>4 DEF IInv, Accounted

LEMMA StepAccounted == IInv /\ [Next]_vars => IInv'
<1> SUFFICES ASSUME IInv, [Next]_vars PROVE IInv'
  OBVIOUS
<1>1. CASE UNCHANGED vars
  BY <1>1 DEF vars, IInv, Accounted, ReserveLegs, BuildSpectrumState, IsSeq, Distinct, DarkIn, SameChannel, FreeLeg
<1>2. CASE Next
  <2>1. PICK search \in Searches(Head(todo)) :
          Place(Head(todo), search) \/ Refuse(Head(todo), search) \/ Raise(search)
    BY <1>2 DEF Next
  <2>2. CASE Place(Head(todo), search)
    <3>1. /\ net' = net /\ placed' = placed \o search.legs
          /\ work' = ReserveLegs(work, search.legs)
      BY <2>2 DEF Place
    <3>2. Accounted(BuildSpectrumState(net), placed \o search.legs, ReserveLegs(work, search.legs))
      BY <2>1, SearchGood, PlaceKeeps
    <3> QED BY <3>1, <3>2 DEF IInv
  <2>3. CASE Refuse(Head(todo), search)
    <3>1. net' = net /\ placed' = placed /\ work' = work
      BY <2>3 DEF Refuse
    <3> QED BY <3>1 DEF IInv
  <2>4. CASE Raise(search)
    <3>1. net' = net /\ placed' = placed /\ work' = work
      BY <2>4 DEF Raise
    <3> QED BY <3>1 DEF IInv
  <2> QED BY <2>1, <2>2, <2>3, <2>4
<1> QED BY <1>1, <1>2

\* At every point of a solve its spectrum is what the model and the assignments
\* light, no two assignments are one channel, and each is dark in the model and
\* has a mode that its probe found feasible.
THEOREM AlwaysAccounted == Spec => []IInv
<1> QED BY InitAccounted, StepAccounted, PTL DEF Spec

\* A refused demand leaves no reservation behind, and an accepted one leaves
\* exactly its legs.
THEOREM SpectrumIsAccounted == Spec => []SpectrumAccounted
<1>1. IInv => SpectrumAccounted
  BY DEF IInv, Accounted, SpectrumAccounted
<1> QED BY <1>1, AlwaysAccounted, PTL

\* No two legs, and no leg and a lightpath, take one slot on one section.
THEOREM SlotsNeverClash == Spec => []NoSlotClash
<1>1. ASSUME IInv PROVE NoSlotClash
  <2>1. Distinct(placed) /\ DarkIn(BuildSpectrumState(net), placed)
    BY <1>1 DEF IInv, Accounted
  <2>2. ASSUME NEW i \in DOMAIN placed, NEW id \in Lit(net)
        PROVE  ~ SameChannel(placed[i], net.lightpaths[id])
    <3>1. ASSUME NEW o \in OMS, o \in Range(placed[i].oms), o \in Range(net.lightpaths[id].oms)
          PROVE  placed[i].slot # net.lightpaths[id].slot
      <4>1. net.lightpaths[id].slot \in BuildSpectrumState(net)[o]
        BY <3>1 DEF BuildSpectrumState, OmsOf
      <4>2. placed[i].slot \notin BuildSpectrumState(net)[o]
        BY <2>1, <3>1 DEF DarkIn, FreeLeg
      <4> QED BY <4>1, <4>2
    <3> QED BY <3>1 DEF SameChannel
  <2> QED BY <2>1, <2>2 DEF NoSlotClash, Distinct
<1>2. IInv => NoSlotClash
  BY <1>1
<1> QED BY <1>2, AlwaysAccounted, PTL
-------------------------------------------------------------------------------
(* Margins.                                                                *)

\* What the code relies on about light: a fuller comb is never better, and a
\* composed GSNR is optimistic by no more than the design margin.
SoundMargins ==
  /\ Decibels
  /\ \A seq, slot, comb : comb \subseteq Slots => Gsnr(seq, slot, Slots) <= Gsnr(seq, slot, comb)
  /\ \A seq, slot : ComposedGsnr(seq, slot) <= Gsnr(seq, slot, Slots) + CompositionBound
  /\ CompositionBound <= DesignMargin

\* Judged on the full comb, exactly or by composition, a mode holds on it.
LEMMA ChosenHolds ==
  ASSUME SoundMargins, FillPolicy = "full", NEW leg, ChosenMode(leg)
  PROVE  /\ leg.mode \in Modes
         /\ RequiredGsnr[leg.mode] <= Gsnr(leg.oms, leg.slot, Slots)
<1>1. PICK calibrated, state :
        leg.mode = BestFeasibleMode(WorseDirection(calibrated, leg.oms, leg.slot,
                                                   Loading(state, leg.oms, leg.slot)))
  BY DEF ChosenMode
<1> DEFINE gsnr == WorseDirection(calibrated, leg.oms, leg.slot, Slots)
<1>2. leg.mode = BestFeasibleMode(gsnr) /\ leg.mode # NoMode
  BY <1>1 DEF Loading, ChosenMode
<1>3. leg.mode \in Modes /\ RequiredGsnr[leg.mode] + DesignMargin <= gsnr
  BY <1>2, BestModeIn DEF FeasibleModes, SoundMargins
<1>4. gsnr \in {ComposedGsnr(leg.oms, leg.slot), Gsnr(leg.oms, leg.slot, Slots)}
  BY DEF WorseDirection
<1>5. /\ ComposedGsnr(leg.oms, leg.slot) \in Int /\ Gsnr(leg.oms, leg.slot, Slots) \in Int
      /\ ComposedGsnr(leg.oms, leg.slot) <= Gsnr(leg.oms, leg.slot, Slots) + CompositionBound
      /\ CompositionBound <= DesignMargin
  BY DEF SoundMargins, Decibels
<1>6. RequiredGsnr[leg.mode] \in Int /\ DesignMargin \in Nat /\ CompositionBound \in Nat
  BY <1>3, ProbeAssumption
<1> QED BY <1>3, <1>4, <1>5, <1>6

SolveOnGrid == net \in RsaModels /\ ~ HasOffGrid(net)

\* Every channel the solve has lit is on the grid.
LEMMA LitOnGrid ==
  ASSUME IInv, SolveOnGrid, NEW seq
  PROVE  OccupiedAlong(work, seq) \subseteq Slots
<1>1. ASSUME NEW o \in OMS PROVE BuildSpectrumState(net)[o] \subseteq Slots
  <2>1. ASSUME NEW id \in Lit(net) PROVE net.lightpaths[id].slot \in Slots
    <3>1. IsMap(net.lightpaths, LightpathIds, Lightpath)
      BY RsaAssumption DEF SolveOnGrid, IsModel
    <3>2. net.lightpaths[id] \in Lightpath
      BY <3>1 DEF IsMap, Lit
    <3>3. net.lightpaths[id].slot \in Slots \cup {OffGrid}
      BY <3>2 DEF Lightpath
    <3> QED BY <3>3 DEF SolveOnGrid, HasOffGrid
  <2> QED BY <2>1 DEF BuildSpectrumState
<1>2. ASSUME NEW o \in OMS PROVE work[o] \subseteq Slots
  BY <1>1, <1>2 DEF IInv, Accounted, ReserveLegs, DarkIn, FreeLeg
<1> QED BY <1>2 DEF OccupiedAlong

\* With sound margins, a mode accepted on the full comb meets its threshold
\* on whatever is lit in the end, composed or not.
THEOREM AcceptedModesKeepHolding ==
  ASSUME SoundMargins PROVE Spec => []AcceptedModesHold
<1>1. IInv /\ SolveOnGrid => AcceptedModesHold
  <2> SUFFICES ASSUME IInv, SolveOnGrid, FillPolicy = "full", NEW i \in DOMAIN placed
               PROVE  RequiredGsnr[placed[i].mode]
                        <= Gsnr(placed[i].oms, placed[i].slot, OccupiedAlong(work, placed[i].oms))
    BY DEF AcceptedModesHold
  <2> DEFINE p == placed[i]
             lit == OccupiedAlong(work, p.oms)
  <2>1. ChosenMode(p)
    BY DEF IInv, Accounted, DarkIn, FreeLeg
  <2>2. p.mode \in Modes /\ RequiredGsnr[p.mode] <= Gsnr(p.oms, p.slot, Slots)
    BY <2>1, ChosenHolds
  <2>3. /\ Gsnr(p.oms, p.slot, Slots) <= Gsnr(p.oms, p.slot, lit)
        /\ Gsnr(p.oms, p.slot, Slots) \in Int /\ Gsnr(p.oms, p.slot, lit) \in Int
    BY LitOnGrid DEF SoundMargins, Decibels
  <2>4. RequiredGsnr[p.mode] \in Int
    BY <2>2, ProbeAssumption
  <2> QED BY <2>2, <2>3, <2>4
<1>2. Init => SolveOnGrid
  BY DEF Init, SolveOnGrid
<1>3. SolveOnGrid /\ [Next]_vars => SolveOnGrid'
  BY DEF SolveOnGrid, Next, vars, Place, Refuse, Raise, HasOffGrid, Lit
<1>4. Spec => []SolveOnGrid
  BY <1>2, <1>3, PTL DEF Spec
<1> QED BY <1>1, <1>4, AlwaysAccounted, PTL
-------------------------------------------------------------------------------
(* The routes of the legs.                                                 *)

\* A leg runs between the ends of its demand and over allowed sections only;
\* the two legs of a protected demand are apart, but for a best effort.
Routed(x, failed) ==
  x.oms \in RouteSet(x.demand.src, x.demand.dst, ForbiddenOms(x.demand.avoid, failed))

Paired(x, y) ==
  /\ x.demand = y.demand
  /\ Apart(x.oms, y.oms, y.demand.basis, y.demand.level) \/ y.demand.bestEffort

AfterWorking(s, i) == s[i].leg = "protection" => i - 1 \in DOMAIN s /\ Paired(s[i - 1], s[i])

LegsRouted(s, failed) ==
  IsSeq(s) /\ \A i \in DOMAIN s : Routed(s[i], failed) /\ AfterWorking(s, i)

\* What the searches add to the legs: nothing, one leg, or two that are paired.
OneRouted(legs, x, failed) == legs = <<x>> /\ Routed(x, failed) /\ x.leg # "protection"

TwoRouted(legs, x, y, failed) ==
  /\ legs = <<x, y>> /\ Routed(x, failed) /\ x.leg # "protection"
  /\ Routed(y, failed) /\ Paired(x, y)

GoodRoutes(legs, failed) ==
  \/ legs = <<>>
  \/ \E x : OneRouted(legs, x, failed)
  \/ \E x, y : TwoRouted(legs, x, y, failed)

LEMMA LegIs ==
  ASSUME NEW d, NEW which, NEW a
  PROVE  /\ Leg(d, which, a).demand = d /\ Leg(d, which, a).leg = which
         /\ Leg(d, which, a).oms = a.oms
BY DEF Leg

LEMMA RoutesRouted ==
  ASSUME NEW d, NEW search \in SearchRoutes(d)
  PROVE  GoodRoutes(search.legs, net.failed)
<1> DEFINE F == net.failed
           routes == ComputePaths(d.src, d.dst, RouteCap, TRUE, d.avoid, F)
           R == RouteSet(d.src, d.dst, ForbiddenOms(d.avoid, F))
<1>1. RouteCap \in Nat
  BY RsaAssumption
<1>2. routes \in Seq(R)
  BY <1>1, ComputedPathsAre, Zenon
<1>3. search \in OnRoutes(d, routes)
  BY DEF SearchRoutes
<1> HIDE DEF routes, R
<1>4. PICK legs \in IF Assigned(routes, d.rate) = {} THEN {<<>>}
                    ELSE BestLegs(d, Assigned(routes, d.rate)) :
        search = Answer(legs, TableAfter(table, work, Range(routes)),
                        \E r \in Range(routes) : Raises(work, r))
  BY <1>3 DEF OnRoutes
<1>5. search.legs = legs
  BY <1>4, AnswerLegs
<1>6. CASE Assigned(routes, d.rate) = {}
  BY <1>4, <1>5, <1>6 DEF GoodRoutes
<1>7. CASE Assigned(routes, d.rate) # {}
  <2>1. PICK x \in Assigned(routes, d.rate) : legs = <<Leg(d, "working", x.got)>>
    BY <1>4, <1>7 DEF BestLegs
  <2>2. x.got # NoAssignment
    BY DEF Assigned
  <2>3. PICK i \in DOMAIN routes :
          x = [at |-> i, got |-> AssignOnRoute(TableAfter(table, work, {routes[j] : j \in 1 .. i - 1}),
                                               work, routes[i], d.rate)]
    BY DEF Assigned
  <2>4. x.got = AssignOnRoute(TableAfter(table, work, {routes[j] : j \in 1 .. i - 1}),
                              work, routes[i], d.rate)
    BY <2>3
  <2>5. x.got.oms = routes[i]
    BY <2>2, <2>4, AssignedIs
  <2>6. i \in 1 .. Len(routes)
    BY <1>2, LenProperties
  <2>7. routes[i] \in R
    BY <1>2, <2>6, ElementOfSeq
  <2> DEFINE leg == Leg(d, "working", x.got)
  <2>8. leg.demand = d /\ leg.leg = "working" /\ leg.oms = routes[i]
    BY <2>5, LegIs
  <2> HIDE DEF leg
  <2>9. Routed(leg, F)
    BY <2>7, <2>8 DEF Routed, R
  <2>10. OneRouted(legs, leg, F)
    BY <2>1, <2>8, <2>9 DEF OneRouted, leg
  <2> QED BY <1>5, <2>10 DEF GoodRoutes
<1> QED BY <1>6, <1>7

LEMMA PairRouted ==
  ASSUME NEW d PROVE GoodRoutes(SearchPair(d).legs, net.failed)
<1> DEFINE F == net.failed
           pair == DisjointPair(d)
           a == AssignOnRoute(table, work, pair.a, d.rate)
           seen == TableAfter(table, work, {pair.a})
           trial == Reserve(work, pair.a, a.slot)
           b == AssignOnRoute(seen, trial, pair.b, d.rate)
           x == Leg(d, "working", a)
           y == Leg(d, "protection", b)
<1>1. CASE pair.status = "no_solution"
  BY <1>1, AnswerLegs DEF SearchPair, GoodRoutes
<1>2. CASE pair.status # "no_solution"
  <2>1. SearchPair(d) = OnPair(d, pair, a, seen)
    BY <1>2 DEF SearchPair
  <2>2. CASE Raises(work, pair.a)
    BY <2>1, <2>2, AnswerLegs DEF OnPair, GoodRoutes
  <2>3. CASE ~ Raises(work, pair.a) /\ a = NoAssignment
    BY <2>1, <2>3, AnswerLegs DEF OnPair, GoodRoutes
  <2>4. CASE ~ Raises(work, pair.a) /\ a # NoAssignment
    <3>1. SearchPair(d) = OnSecond(d, a, pair.b, trial, seen)
      BY <2>1, <2>4 DEF OnPair
    <3>2. SearchPair(d).legs = IF b = NoAssignment THEN <<>> ELSE <<x, y>>
      BY <3>1, AnswerLegs DEF OnSecond
    <3>3. CASE b = NoAssignment
      BY <3>2, <3>3 DEF GoodRoutes
    <3>4. CASE b # NoAssignment
      <4>1. pair = ComputeDisjointPaths(d.src, d.dst, d.basis, d.level, d.bestEffort, TRUE,
                                        ForbiddenOms(d.avoid, F))
        BY DEF DisjointPair
      <4>2. a.oms = pair.a
        BY <2>4, AssignedIs
      <4>3. b.oms = pair.b
        BY <3>4, AssignedIs
      <4>4. SearchPair(d).legs = <<x, y>>
        BY <3>2, <3>4
      <4>5. /\ x.demand = d /\ x.leg = "working" /\ x.oms = pair.a
            /\ y.demand = d /\ y.oms = pair.b
        BY <4>2, <4>3, LegIs
      <4> HIDE DEF pair, x, y
      <4>6. PairSound(pair, d.src, d.dst, ForbiddenOms(d.avoid, F), d.basis, d.level, d.bestEffort)
        BY <4>1, DisjointPathsAre, Zenon
      <4>7. /\ pair.a \in RouteSet(d.src, d.dst, ForbiddenOms(d.avoid, F))
            /\ pair.b \in RouteSet(d.src, d.dst, ForbiddenOms(d.avoid, F))
            /\ Apart(pair.a, pair.b, d.basis, d.level) \/ d.bestEffort
        BY <1>2, <4>6, Zenon DEF PairSound, pair
      <4>8. Routed(x, F) /\ Routed(y, F) /\ Paired(x, y)
        BY <4>5, <4>7, Zenon DEF Routed, Paired
      <4>9. TwoRouted(SearchPair(d).legs, x, y, F)
        BY <4>4, <4>5, <4>8 DEF TwoRouted
      <4> QED BY <4>9 DEF GoodRoutes
    <3> QED BY <3>3, <3>4
  <2> QED BY <2>2, <2>3, <2>4
<1> QED BY <1>1, <1>2

LEMMA SearchRouted ==
  ASSUME NEW d, NEW search \in Searches(d)
  PROVE  GoodRoutes(search.legs, net.failed)
<1>1. CASE d.protected
  BY <1>1, PairRouted DEF Searches
<1>2. CASE ~ d.protected
  BY <1>2, RoutesRouted DEF Searches
<1> QED BY <1>1, <1>2

\* One more leg, in its place.
LEMMA AddRouted ==
  ASSUME NEW s, NEW failed, LegsRouted(s, failed), NEW x, Routed(x, failed),
         x.leg = "protection" => Len(s) \in DOMAIN s /\ Paired(s[Len(s)], x)
  PROVE  LegsRouted(Append(s, x), failed)
<1> DEFINE t == Append(s, x)
           n == Len(s)
<1>1. /\ IsSeq(t) /\ n \in Nat /\ DOMAIN s = 1 .. n /\ DOMAIN t = 1 .. n + 1
      /\ \A i \in 1 .. n : t[i] = s[i]
      /\ t[n + 1] = x
  BY AppendIs DEF LegsRouted
<1> HIDE DEF t, n
<1>2. ASSUME NEW i \in 1 .. n PROVE Routed(t[i], failed) /\ AfterWorking(t, i)
  <2>1. Routed(s[i], failed) /\ AfterWorking(s, i)
    BY <1>1 DEF LegsRouted
  <2>2. t[i] = s[i] /\ (i - 1 \in DOMAIN s => i - 1 \in DOMAIN t /\ t[i - 1] = s[i - 1])
    BY <1>1
  <2> QED BY <2>1, <2>2 DEF AfterWorking
<1>3. Routed(t[n + 1], failed) /\ AfterWorking(t, n + 1)
  <2>1. n \in DOMAIN s => n \in DOMAIN t /\ t[n] = s[n]
    BY <1>1
  <2>2. n + 1 - 1 = n
    BY <1>1
  <2> QED BY <1>1, <2>1, <2>2 DEF AfterWorking, n
<1>4. \A i \in DOMAIN t : i \in 1 .. n \/ i = n + 1
  BY <1>1
<1> QED BY <1>1, <1>2, <1>3, <1>4 DEF LegsRouted, t

LEMMA PlaceRouted ==
  ASSUME NEW s, NEW failed, LegsRouted(s, failed), NEW legs, GoodRoutes(legs, failed)
  PROVE  LegsRouted(s \o legs, failed)
<1>1. IsSeq(s)
  BY DEF LegsRouted
<1>2. CASE legs = <<>>
  <2>1. s \o legs = s
    BY <1>1, <1>2, ConcatEmptySeq DEF IsSeq
  <2> QED BY <2>1
<1>3. ASSUME NEW x, OneRouted(legs, x, failed)
      PROVE  LegsRouted(s \o legs, failed)
  <2>1. s \o legs = Append(s, x)
    BY <1>1, <1>3, OneMore DEF OneRouted
  <2> QED BY <1>3, <2>1, AddRouted DEF OneRouted
<1>4. ASSUME NEW x, NEW y, TwoRouted(legs, x, y, failed)
      PROVE  LegsRouted(s \o legs, failed)
  <2> DEFINE t == Append(s, x)
             n == Len(s)
  <2>1. s \o legs = Append(t, y)
    BY <1>1, <1>4, TwoMore DEF TwoRouted
  <2>2. LegsRouted(t, failed)
    BY <1>4, AddRouted DEF TwoRouted
  <2>3. /\ n \in Nat /\ DOMAIN t = 1 .. n + 1 /\ t[n + 1] = x
        /\ IsSeq(t)
    BY <1>1, AppendIs
  <2> HIDE DEF t, n
  <2>4. Len(t) = n + 1
    <3>1. Len(t) \in Nat /\ DOMAIN t = 1 .. Len(t)
      BY <2>3, LenProperties DEF IsSeq
    <3>2. n + 1 \in 1 .. Len(t) /\ (Len(t) # 0 => Len(t) \in 1 .. n + 1)
      BY <2>3, <3>1
    <3> QED BY <2>3, <3>1, <3>2
  <2>5. Len(t) \in DOMAIN t /\ Paired(t[Len(t)], y) /\ Routed(y, failed)
    BY <1>4, <2>3, <2>4 DEF TwoRouted
  <2> QED BY <2>1, <2>2, <2>5, AddRouted
<1> QED BY <1>2, <1>3, <1>4 DEF GoodRoutes

\* The inductive invariant: failures do not change during a solve.
RInv == LegsRouted(placed, net.failed)

\* At every point of a solve each leg runs between the ends of its demand over
\* sections its avoid-set and the failures allow, and a protection leg follows
\* the working leg of its demand, apart from it unless a best effort was asked.
THEOREM LegsStayRouted == Spec => []RInv
<1>1. Init => RInv
  <2> SUFFICES ASSUME Init PROVE RInv
    OBVIOUS
  <2>1. placed = <<>> /\ IsSeq(placed)
    BY Few DEF Init
  <2> QED BY <2>1 DEF RInv, LegsRouted
<1>2. RInv /\ [Next]_vars => RInv'
  <2> SUFFICES ASSUME RInv, [Next]_vars PROVE RInv'
    OBVIOUS
  <2>1. CASE UNCHANGED vars
    <3>1. net' = net /\ placed' = placed
      BY <2>1 DEF vars
    <3> QED BY <3>1 DEF RInv
  <2>2. CASE Next
    <3>1. PICK search \in Searches(Head(todo)) :
            Place(Head(todo), search) \/ Refuse(Head(todo), search) \/ Raise(search)
      BY <2>2 DEF Next
    <3>2. CASE Place(Head(todo), search)
      <4>1. net' = net /\ placed' = placed \o search.legs
        BY <3>2 DEF Place
      <4>2. GoodRoutes(search.legs, net.failed)
        BY <3>1, SearchRouted
      <4>3. LegsRouted(placed \o search.legs, net.failed)
        BY <4>2, PlaceRouted DEF RInv
      <4> QED BY <4>1, <4>3 DEF RInv
    <3>3. CASE Refuse(Head(todo), search)
      <4>1. net' = net /\ placed' = placed
        BY <3>3 DEF Refuse
      <4> QED BY <4>1 DEF RInv
    <3>4. CASE Raise(search)
      <4>1. net' = net /\ placed' = placed
        BY <3>4 DEF Raise
      <4> QED BY <4>1 DEF RInv
    <3> QED BY <3>1, <3>2, <3>3, <3>4
  <2> QED BY <2>1, <2>2
<1> QED BY <1>1, <1>2, PTL DEF Spec

\* Every section of an allowed route avoids what is forbidden, and the route
\* has the ends it was asked for.
LEMMA RouteIs ==
  ASSUME NEW u, NEW v, NEW forbidden, NEW r \in RouteSet(u, v, forbidden)
  PROVE  /\ Range(r) \subseteq OMS \ forbidden /\ PathEnds(r) = {u, v}
<1>1. PICK n \in Nat \ {0} : Joins(r, n, u, v, OMS \ forbidden)
  BY DEF RouteSet, IsRoute
<1>2. /\ r \in [1 .. n -> OMS \ forbidden] /\ Src[r[1]] = u /\ Dst[r[n]] = v
  BY <1>1 DEF Joins, IsWalk
<1>3. Range(r) \subseteq OMS \ forbidden
  BY <1>2 DEF Range
<1>4. r \in Seq(OMS)
  BY DEF RouteSet
<1>5. Len(r) = n /\ r # <<>>
  <2>1. Len(r) \in Nat /\ DOMAIN r = 1 .. Len(r)
    BY <1>4, LenProperties
  <2>2. 1 .. Len(r) = 1 .. n /\ n \in 1 .. n
    BY <1>2, <2>1
  <2>3. Len(r) = n
    <3> DEFINE l == Len(r)
    <3>1. l \in Nat /\ 1 .. l = 1 .. n
      BY <2>1, <2>2
    <3> HIDE DEF l
    <3>2. n <= l
      BY <2>2, <3>1
    <3>3. l # 0 => l \in 1 .. l
      BY <3>1
    <3>4. l <= n
      BY <3>1, <3>3
    <3> QED BY <3>1, <3>2, <3>4 DEF l
  <2>4. DOMAIN r # {}
    BY <1>2, <2>2
  <2> QED BY <2>3, <2>4
<1>6. PathEnds(r) = {u, v}
  BY <1>2, <1>5 DEF PathEnds
<1> QED BY <1>3, <1>6

\* Nothing a placed route crosses is failed or to be avoided: neither its
\* sections, their elements nor the sites at their ends.
THEOREM PlacementsStayAvoiding == Spec => []PlacementsAvoid
<1>1. ASSUME RInv PROVE PlacementsAvoid
  <2> SUFFICES ASSUME NEW i \in DOMAIN placed
               PROVE  LET avoid == placed[i].demand.avoid
                          bad == net.failed \cup avoid.assets \cup Members(Srlgs, avoid.srlgs)
                                   \cup Members(RiskGroups, avoid.riskGroups)
                      IN  (OmsAssets(placed[i].oms) \cup NodesOf(placed[i].oms)) \cap bad = {}
    BY DEF PlacementsAvoid
  <2> DEFINE x == placed[i]
             avoid == x.demand.avoid
             bad == net.failed \cup avoid.assets \cup Members(Srlgs, avoid.srlgs)
                      \cup Members(RiskGroups, avoid.riskGroups)
             forbidden == ForbiddenOms(avoid, net.failed)
  <2>1. x.oms \in RouteSet(x.demand.src, x.demand.dst, forbidden)
    BY <1>1 DEF RInv, LegsRouted, Routed
  <2>2. forbidden = {o \in OMS : TouchedBy(o) \cap bad # {}}
    BY DEF ForbiddenOms, AvoidedAssets
  <2> HIDE DEF forbidden, x, bad
  <2>3. Range(x.oms) \subseteq OMS \ forbidden
    BY <2>1, RouteIs
  <2>4. ASSUME NEW o \in Range(x.oms) PROVE TouchedBy(o) \cap bad = {}
    BY <2>2, <2>3
  <2>5. \A a \in OmsAssets(x.oms) \cup NodesOf(x.oms) : \E o \in Range(x.oms) : a \in TouchedBy(o)
    BY DEF OmsAssets, NodesOf, TouchedBy
  <2>6. (OmsAssets(x.oms) \cup NodesOf(x.oms)) \cap bad = {}
    BY <2>4, <2>5
  <2> QED BY <2>6 DEF x, bad
<1>2. RInv => PlacementsAvoid
  BY <1>1
<1> QED BY <1>2, LegsStayRouted, PTL

\* Paths between two given ends that share no key share nothing of the kinds
\* their basis compares.
LEMMA ApartIs ==
  ASSUME NEW a, NEW b, NEW ends, PathEnds(a) = ends, PathEnds(b) = ends,
         NEW basis, NEW level, Apart(a, b, basis, level)
  PROVE  /\ basis \in {"physical", "union"} =>
              (Footprint(a) \cap Footprint(b)) \ EndRoadms(ends) = {}
         /\ basis \in {"physical", "union"} /\ level = "node" =>
              NodesOf(a) \cap NodesOf(b) \subseteq ends
         /\ basis \in {"srlg", "union"} =>
              \A g \in DOMAIN Srlgs : Srlgs[g] \cap PhysicalOf(a, ends) = {}
                                       \/ Srlgs[g] \cap PhysicalOf(b, ends) = {}
         /\ basis \in {"risk_group", "union"} =>
              \A g \in DOMAIN RiskGroups : RiskGroups[g] \cap PhysicalOf(a, ends) = {}
                                            \/ RiskGroups[g] \cap PhysicalOf(b, ends) = {}
<1> DEFINE A == PathBasisKeys(a, basis, level, ends)
           B == PathBasisKeys(b, basis, level, ends)
<1>1. A \cap B = {}
  BY DEF Apart, SharedKeys
<1>2. ASSUME basis \in {"physical", "union"}
      PROVE  (Footprint(a) \cap Footprint(b)) \ EndRoadms(ends) = {}
  <2>1. ASSUME NEW k, k \in Footprint(a), k \in Footprint(b), k \notin EndRoadms(ends)
        PROVE  FALSE
    <3>1. <<"phys", k>> \in Phys(PhysicalOf(a, ends)) /\ <<"phys", k>> \in Phys(PhysicalOf(b, ends))
      BY <2>1 DEF Phys, PhysicalOf
    <3>2. <<"phys", k>> \in A /\ <<"phys", k>> \in B
      BY <1>2, <3>1, Zenon DEF PathBasisKeys, PhysicalKeys
    <3> HIDE DEF A, B
    <3> QED BY <1>1, <3>2
  <2> QED BY <2>1
<1>3. ASSUME basis \in {"physical", "union"}, level = "node"
      PROVE  NodesOf(a) \cap NodesOf(b) \subseteq ends
  <2>1. ASSUME NEW n, n \in NodesOf(a), n \in NodesOf(b), n \notin ends
        PROVE  FALSE
    <3>1. <<"node", n>> \in NodeKey(NodesOf(a) \ ends) /\ <<"node", n>> \in NodeKey(NodesOf(b) \ ends)
      BY <2>1 DEF NodeKey
    <3>2. <<"node", n>> \in A /\ <<"node", n>> \in B
      BY <1>3, <3>1, Zenon DEF PathBasisKeys, PhysicalKeys
    <3> HIDE DEF A, B
    <3> QED BY <1>1, <3>2
  <2> QED BY <2>1
<1>4. ASSUME basis \in {"srlg", "union"}, NEW g \in DOMAIN Srlgs,
             Srlgs[g] \cap PhysicalOf(a, ends) # {}, Srlgs[g] \cap PhysicalOf(b, ends) # {}
      PROVE  FALSE
  <2>1. /\ <<"srlg", g>> \in SrlgKey(Touching(Srlgs, PhysicalOf(a, ends)))
        /\ <<"srlg", g>> \in SrlgKey(Touching(Srlgs, PhysicalOf(b, ends)))
    BY <1>4 DEF SrlgKey, Touching
  <2>2. <<"srlg", g>> \in A /\ <<"srlg", g>> \in B
    BY <1>4, <2>1, Zenon DEF PathBasisKeys
  <2> HIDE DEF A, B
  <2> QED BY <1>1, <2>2
<1>5. ASSUME basis \in {"risk_group", "union"}, NEW g \in DOMAIN RiskGroups,
             RiskGroups[g] \cap PhysicalOf(a, ends) # {}, RiskGroups[g] \cap PhysicalOf(b, ends) # {}
      PROVE  FALSE
  <2>1. /\ <<"rg", g>> \in RgKey(Touching(RiskGroups, PhysicalOf(a, ends)))
        /\ <<"rg", g>> \in RgKey(Touching(RiskGroups, PhysicalOf(b, ends)))
    BY <1>5 DEF RgKey, Touching
  <2>2. <<"rg", g>> \in A /\ <<"rg", g>> \in B
    BY <1>5, <2>1, Zenon DEF PathBasisKeys
  <2> HIDE DEF A, B
  <2> QED BY <1>1, <2>2
<1> QED BY <1>2, <1>3, <1>4, <1>5

\* The two legs of a protected demand share nothing that its basis compares,
\* but for the sites they both end at or when a best effort was asked.
THEOREM LegsStayIndependent == Spec => []IndependentLegs
<1>1. ASSUME RInv PROVE IndependentLegs
  <2> SUFFICES ASSUME NEW i \in DOMAIN placed, placed[i].leg = "protection"
               PROVE  LET d == placed[i].demand
                          a == placed[i - 1].oms
                          b == placed[i].oms
                          ends == {d.src, d.dst}
                          shared == (Footprint(a) \cap Footprint(b)) \ EndRoadms(ends)
                          hits(groups) == {g \in DOMAIN groups : groups[g] \cap PhysicalOf(a, ends) # {}
                                                                 /\ groups[g] \cap PhysicalOf(b, ends) # {}}
                      IN  \/ d.bestEffort
                          \/ /\ d.basis \in {"physical", "union"} => shared = {}
                             /\ d.basis \in {"physical", "union"} /\ d.level = "node" =>
                                  NodesOf(a) \cap NodesOf(b) \subseteq ends
                             /\ d.basis \in {"srlg", "union"} => hits(Srlgs) = {}
                             /\ d.basis \in {"risk_group", "union"} => hits(RiskGroups) = {}
    BY Zenon DEF IndependentLegs
  <2> DEFINE d == placed[i].demand
             a == placed[i - 1].oms
             b == placed[i].oms
             ends == {d.src, d.dst}
             forbidden == ForbiddenOms(d.avoid, net.failed)
  <2>1. i - 1 \in DOMAIN placed /\ Paired(placed[i - 1], placed[i])
    BY <1>1 DEF RInv, LegsRouted, AfterWorking
  <2>2. placed[i - 1].demand = d /\ (Apart(a, b, d.basis, d.level) \/ d.bestEffort)
    BY <2>1, Zenon DEF Paired
  <2>3. a \in RouteSet(d.src, d.dst, forbidden) /\ b \in RouteSet(d.src, d.dst, forbidden)
    BY <1>1, <2>1, <2>2 DEF RInv, LegsRouted, Routed
  <2> HIDE DEF a, b, d, forbidden
  <2>4. PathEnds(a) = ends /\ PathEnds(b) = ends
    BY <2>3, RouteIs
  <2> HIDE DEF ends
  <2>5. CASE d.bestEffort
    BY <2>5, Zenon DEF d
  <2>6. CASE Apart(a, b, d.basis, d.level)
    <3>1. /\ d.basis \in {"physical", "union"} =>
               (Footprint(a) \cap Footprint(b)) \ EndRoadms(ends) = {}
          /\ d.basis \in {"physical", "union"} /\ d.level = "node" =>
               NodesOf(a) \cap NodesOf(b) \subseteq ends
          /\ d.basis \in {"srlg", "union"} =>
               \A g \in DOMAIN Srlgs : Srlgs[g] \cap PhysicalOf(a, ends) = {}
                                        \/ Srlgs[g] \cap PhysicalOf(b, ends) = {}
          /\ d.basis \in {"risk_group", "union"} =>
               \A g \in DOMAIN RiskGroups : RiskGroups[g] \cap PhysicalOf(a, ends) = {}
                                             \/ RiskGroups[g] \cap PhysicalOf(b, ends) = {}
      BY <2>4, <2>6, ApartIs, Zenon
    <3> QED BY <3>1, Zenon DEF d, a, b, ends
  <2> QED BY <2>2, <2>5, <2>6, Zenon
<1>2. RInv => IndependentLegs
  BY <1>1
<1> QED BY <1>2, LegsStayRouted, PTL

\* "No disjoint pair" with the search reported exhaustive is a proof that there
\* is none: what the caps drop and how parallel sections are ordered never
\* hides a pair from a search that says it saw them all.
THEOREM ExhaustiveStaysProof == Spec => []ExhaustiveIsProof
<1>1. ExhaustiveIsProof
  <2>1. ASSUME NEW d, NEW forbidden, NEW basis, NEW level, NEW answer,
               answer = ComputeDisjointPaths(d.src, d.dst, basis, level, FALSE, TRUE, forbidden),
               answer.status = "no_solution", answer.exhaustive,
               NEW a \in RoutesBetween(d.src, d.dst, OMS \ forbidden),
               NEW b \in RoutesBetween(d.src, d.dst, OMS \ forbidden), a # b
        PROVE  SharedKeys(a, b, basis, level) # {}
    <3>1. PairComplete(answer, d.src, d.dst, forbidden, basis, level)
      BY <2>1, DisjointPathsAre, Zenon
    <3> QED BY <2>1, <3>1, Zenon DEF PairComplete, Apart
  <2> QED BY <2>1, Zenon DEF ExhaustiveIsProof
<1> QED BY <1>1, PTL
===============================================================================
