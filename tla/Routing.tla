------------------------------- MODULE Routing -------------------------------
(***************************************************************************)
(* Routing and disjointness over the sections (model/solvers.py): pure     *)
(* functions of the topology, the failed assets and an avoid-set.          *)
(*                                                                         *)
(* networkx yields simple paths by weight and leaves ties to its queue;    *)
(* NodeRank is one fixed way to break them.  The three caps of the code    *)
(* are constants so that small instances can run into them.                *)
(***************************************************************************)
EXTENDS Exposure, SequencesExt

CONSTANTS
  LengthKm,       \* [OMS -> Nat], oms_length_km
  NodeRank,       \* [Nodes -> Nat \ {0}], injective
  CandidateCap,   \* _DISJOINT_CANDIDATE_CAP, on distinct node paths
  EmissionCap     \* _DISJOINT_EMISSION_CAP, on routes

ASSUME RoutesAssumption ==
  /\ IsFiniteSet(Nodes) /\ IsFiniteSet(OMS) /\ IsFiniteSet(Assets)
  /\ LengthKm \in [OMS -> Nat]
  /\ NodeRank \in [Nodes -> Nat \ {0}]
  /\ \A a, b \in Nodes : NodeRank[a] = NodeRank[b] => a = b
  /\ CandidateCap \in Nat \ {0} /\ EmissionCap \in Nat \ {0}

NoCap == 0         \* max_node_paths is None

-------------------------------------------------------------------------------
(* Walks that visit no node twice, over any kind of edge.                  *)

Continues(w, e, from, to) ==
  /\ from[e] = to[w[Len(w)]]
  /\ to[e] \notin {from[w[i]] : i \in DOMAIN w} \cup {to[w[Len(w)]]}

SimpleWalks(E, from, to) ==
  LET hops == Cardinality(Nodes) - 1
      walks[n \in 1 .. hops] ==
        IF n = 1 THEN {<<e>> : e \in {e \in E : from[e] # to[e]}}
        ELSE {Append(p[1], p[2]) :
                p \in {p \in walks[n - 1] \X E : Continues(p[1], p[2], from, to)}}
  IN  UNION {walks[n] : n \in 1 .. hops}

\* build_oms_graph is directed: a section carries traffic from Src to Dst only.
OmsRoutes(allowed) == SimpleWalks(allowed, Src, Dst)

RoutesBetween(u, v, allowed) ==
  {r \in OmsRoutes(allowed) : Src[r[1]] = u /\ Dst[r[Len(r)]] = v}

NodeSequence(r) == <<Src[r[1]]>> \o [i \in DOMAIN r |-> Dst[r[i]]]

-------------------------------------------------------------------------------
(* Avoid-sets.                                                             *)

Members(groups, ids) == UNION {groups[g] : g \in ids \cap DOMAIN groups}

AvoidedAssetsOnly(avoid, failed) == avoid.assets                     \* mutant

\* An avoid-set is [assets, srlgs, riskGroups].  Failed assets are folded in.
AvoidedAssets(avoid, failed) == avoid.assets \cup failed

TouchedBy(o) == {o, Src[o], Dst[o]} \cup Elements[o]

ForbiddenOms(avoid, failed) ==
  LET bad == AvoidedAssets(avoid, failed)
               \cup Members(Srlgs, avoid.srlgs) \cup Members(RiskGroups, avoid.riskGroups)
  IN  {o \in OMS : TouchedBy(o) \cap bad # {}}

-------------------------------------------------------------------------------
(* Enumeration.                                                            *)

LexBefore(a, b) ==
  \E i \in DOMAIN a \cap DOMAIN b : a[i] < b[i] /\ \A j \in 1 .. i - 1 : a[j] = b[j]

Ranked(keyed) ==
  {<<1 + Cardinality({q \in keyed : LexBefore(q[1], p[1])}), p[2]>> : p \in keyed}

InOrder(ranked) == <<>> \o [i \in 1 .. Cardinality(ranked) |-> (CHOOSE p \in ranked : p[1] = i)[2]]

\* S as a sequence in the order of keys no two members share.
SortedBy(S, Key(_)) == InOrder(Ranked({<<Key(x), x>> : x \in S}))

Mapped(s, Op(_)) == <<>> \o [i \in DOMAIN s |-> Op(s[i])]

\* FoldLeft and SelectSeq, in a form that the provers can expand.
Folded(Step(_, _), start, s) ==
  LET after[n \in 0 .. Len(s)] == IF n = 0 THEN start ELSE Step(after[n - 1], s[n])
  IN  after[Len(s)]

\* The members of s that are in S.
Filtered(s, S) == Folded(LAMBDA kept, x : IF x \in S THEN Append(kept, x) ELSE kept, <<>>, s)

\* The first k of s, or all of it.
Take(s, k) == SubSeq(s, 1, Min({k, Len(s)}))

\* _oms_between: parallel sections by (length, id) or by id.
OmsBetween(u, v, byLength, forbidden) ==
  SortedBy({o \in OMS \ forbidden : Src[o] = u /\ Dst[o] = v},
           LAMBDA o : <<IF byLength THEN LengthKm[o] ELSE 0, Rank[o]>>)

HopOptions(p, byLength, forbidden) ==
  <<>> \o [i \in 1 .. Len(p) - 1 |-> OmsBetween(p[i], p[i + 1], byLength, forbidden)]

\* Every choice of a parallel per hop, in odometer order; the choices of one
\* index at all hops come first when the number per node path is capped.
Picks(options) ==
  {c \in [DOMAIN options -> UNION {DOMAIN options[h] : h \in DOMAIN options}] :
     \A h \in DOMAIN options : c[h] \in DOMAIN options[h]}

IsDiagonal(c) == \A h \in DOMAIN c : c[h] = c[1]

HopCombos(options, diagonalFirst) ==
  LET turn(c) == <<IF diagonalFirst /\ IsDiagonal(c) THEN 0 ELSE 1>> \o c
      choose(c) == <<>> \o [h \in DOMAIN options |-> options[h][c[h]]]
  IN  Mapped(SortedBy(Picks(options), turn), choose)

\* Node paths by best-case weight: each hop counts its shortest parallel.
NodePathWeight(p, byLength, forbidden) ==
  IF byLength
  THEN Total([i \in 1 .. Len(p) - 1 |->
                LengthKm[OmsBetween(p[i], p[i + 1], TRUE, forbidden)[1]]], 1 .. Len(p) - 1)
  ELSE Len(p) - 1

NodePaths(u, v, byLength, forbidden) ==
  SortedBy({NodeSequence(r) : r \in RoutesBetween(u, v, OMS \ forbidden)},
           LAMBDA p : <<NodePathWeight(p, byLength, forbidden), Len(p)>>
                      \o [i \in DOMAIN p |-> NodeRank[p[i]]])

\* The first pass gives each node path an even share of k; what is left over is
\* handed out one route per node path and sweep.
Turn(x, share) == IF x[2] <= share THEN <<0, x[1], x[2]>> ELSE <<1, x[2], x[1]>>

\* Positions <<node path, choice>>; all of them are offered, the share only
\* decides when.
FirstPassOnly(combos, share) ==                                      \* mutant
  UNION {{<<i, j>> : j \in {j \in DOMAIN combos[i] : j <= share}} : i \in DOMAIN combos}

Offered(combos, share) == UNION {{<<i, j>> : j \in DOMAIN combos[i]} : i \in DOMAIN combos}

Emitted(combos, share, k) ==
  Mapped(Take(SortedBy(Offered(combos, share), LAMBDA x : Turn(x, share)), k),
         LAMBDA x : combos[x[1]][x[2]])

\* The routes over a list of node paths; maxNodePaths = NoCap looks at them all.
RoutesOver(paths, k, byLength, forbidden, maxNodePaths) ==
  LET combos(p) == HopCombos(HopOptions(p, byLength, forbidden), maxNodePaths # NoCap)
  IN  IF maxNodePaths = NoCap THEN Emitted(Mapped(paths, combos), k, k)
      ELSE Emitted(Mapped(Take(paths, maxNodePaths), combos),
                   Max({1, k \div maxNodePaths}), k)

EnumerateOmsPaths(u, v, k, byLength, forbidden, maxNodePaths) ==
  RoutesOver(NodePaths(u, v, byLength, forbidden), k, byLength, forbidden, maxNodePaths)

ComputePaths(u, v, k, byLength, avoid, failed) ==
  EnumerateOmsPaths(u, v, k, byLength, ForbiddenOms(avoid, failed), NoCap)

-------------------------------------------------------------------------------
(* Disjoint pairs.                                                         *)

SharedKeys(a, b, basis, level) ==
  PathBasisKeys(a, basis, level, PathEnds(a)) \cap PathBasisKeys(b, basis, level, PathEnds(b))

\* check_disjointness over two given paths; ends are the demand's, if known.
CheckDisjointness(a, b, basis, level, endsA, endsB) ==
  LET shared == PathBasisKeys(a, basis, level, endsA) \cap PathBasisKeys(b, basis, level, endsB)
  IN  [disjoint |-> shared = {}, assets |-> SharedAssets(shared), groups |-> SharedGroups(shared),
       levelApplied |-> LevelIsSignificant(basis)]

\* The scan is over i < j and keeps the first pair of a kind: the first
\* disjoint one, or else the first with the fewest shared keys.  A scored pair
\* is <<shared keys, i, j>>.
ScoredPairs(keys) ==
  {<<Cardinality(keys[p[1]] \cap keys[p[2]]), p[1], p[2]>> :
     p \in {p \in (DOMAIN keys) \X (DOMAIN keys) : p[1] < p[2]}}

FirstPair(scored) == CHOOSE p \in scored : \A q \in scored \ {p} : LexBefore(p, q)

\* Neither cap cut the search short.
Exhausted(paths, cands) == Len(cands) < EmissionCap /\ Len(paths) <= CandidateCap

NoPair(exhaustive) == [status |-> "no_solution", a |-> <<>>, b |-> <<>>, exhaustive |-> exhaustive]

PickPair(cands, scored, bestEffort, exhaustive) ==
  LET found(status, p) ==
        [status |-> status, a |-> cands[p[2]], b |-> cands[p[3]], exhaustive |-> exhaustive]
      disjoint(p) == p[1] = 0
  IN  IF \E p \in scored : disjoint(p) THEN found("solution", FirstPair(scored))
      ELSE IF bestEffort /\ scored # {} THEN found("partial", FirstPair(scored))
      ELSE NoPair(exhaustive)

DisjointPairOf(cands, basis, level, bestEffort, exhaustive) ==
  PickPair(cands,
           ScoredPairs(Mapped(cands, LAMBDA r : PathBasisKeys(r, basis, level, PathEnds(r)))),
           bestEffort, exhaustive)

DisjointPairOver(paths, basis, level, bestEffort, byLength, forbidden) ==
  LET over(cands) == DisjointPairOf(cands, basis, level, bestEffort, Exhausted(paths, cands))
  IN  over(RoutesOver(paths, EmissionCap, byLength, forbidden, CandidateCap))

ComputeDisjointPaths(u, v, basis, level, bestEffort, byLength, forbidden) ==
  DisjointPairOver(NodePaths(u, v, byLength, forbidden), basis, level, bestEffort, byLength, forbidden)
===============================================================================
