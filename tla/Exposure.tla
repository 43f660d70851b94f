------------------------------- MODULE Exposure -------------------------------
(***************************************************************************)
(* What a path is exposed to (model/exposure.py): the keys two paths are   *)
(* compared on under a basis and a level, and the footprint of a service   *)
(* against a risk group.                                                   *)
(***************************************************************************)
EXTENDS NetworkState

CONSTANTS
  Srlgs,        \* static shared-risk groups: id -> their asset ids
  RiskGroups    \* dynamic risk groups: id -> their asset ids

ASSUME GroupAssumption == IsFiniteSet(DOMAIN Srlgs) /\ IsFiniteSet(DOMAIN RiskGroups)

Bases  == {"physical", "srlg", "risk_group", "union"}
KeyLevels == {"link", "node"}       \* any level but "node" compares spans

\* A node and a section can bear the same id: keys carry their namespace.
Phys(S)    == {<<"phys", a>> : a \in S}
NodeKey(S) == {<<"node", n>> : n \in S}
SrlgKey(S) == {<<"srlg", g>> : g \in S}
RgKey(S)   == {<<"rg", g>> : g \in S}

NodesOf(seq) == {Src[o] : o \in Range(seq)} \cup {Dst[o] : o \in Range(seq)}

\* The ends a path would be given by its first and last section.
PathEnds(seq) == IF seq = <<>> THEN {} ELSE {Src[seq[1]], Dst[seq[Len(seq)]]}

EndRoadms(ends) == {Roadm[n] : n \in ends \cap DOMAIN Roadm}

\* Two paths between the same ends have to share the ends.
PhysicalOf(seq, ends) == Footprint(seq) \ EndRoadms(ends)

\* A node-level comparison without the spans.
NodeOnlyKeys(seq, level, ends) ==                                    \* mutant
  IF level = "node" THEN NodeKey(NodesOf(seq) \ ends) ELSE Phys(PhysicalOf(seq, ends))

PhysicalKeys(seq, level, ends) ==
  Phys(PhysicalOf(seq, ends))
    \cup (IF level = "node" THEN NodeKey(NodesOf(seq) \ ends) ELSE {})

Touching(groups, assets) == {g \in DOMAIN groups : groups[g] \cap assets # {}}

PathBasisKeys(seq, basis, level, ends) ==
  LET assets == PhysicalOf(seq, ends)
  IN  (IF basis \in {"physical", "union"} THEN PhysicalKeys(seq, level, ends) ELSE {})
        \cup (IF basis \in {"srlg", "union"} THEN SrlgKey(Touching(Srlgs, assets)) ELSE {})
        \cup (IF basis \in {"risk_group", "union"} THEN RgKey(Touching(RiskGroups, assets)) ELSE {})

LevelIsSignificant(basis) == basis \in {"physical", "union"}

\* split_shared_keys: shared assets and shared groups.
SharedAssets(keys) == {k[2] : k \in {k \in keys : k[1] \in {"phys", "node"}}}
SharedGroups(keys) == {k[2] : k \in {k \in keys : k[1] \in {"srlg", "rg"}}}

-------------------------------------------------------------------------------
(* Services.  A link whose lightpath is gone contributes nothing.          *)

Riding(m, path) == {k \in Range(path) \cap DOMAIN m.ipLinks : m.ipLinks[k].lightpath \in Lit(m)}

\* The physical part of _path_asset_set.
PathAssets(m, path) ==
  UNION {Footprint(m.lightpaths[m.ipLinks[k].lightpath].oms) : k \in Riding(m, path)}

WorkingAssets(m, s)    == PathAssets(m, m.services[s].working)
ProtectionAssets(m, s) == PathAssets(m, m.services[s].protection)

\* compute_exposure's both_intersect: the pair is correlated under the group.
BothIntersect(m, s, g) ==
  /\ WorkingAssets(m, s) \cap RiskGroups[g] # {}
  /\ ProtectionAssets(m, s) \cap RiskGroups[g] # {}
===============================================================================
