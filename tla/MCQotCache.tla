------------------------------ MODULE MCQotCache ------------------------------
(***************************************************************************)
(* A line A-B-C with a symmetric span A-B and one from B to C that has no  *)
(* section back, under two branches that differ in their design margin.    *)
(***************************************************************************)
EXTENDS QotCache

MCNodes == {"A", "B", "C"}
MCOMS == {"ab", "ba", "bc"}
MCSrc == [o \in MCOMS |-> IF o = "ab" THEN "A" ELSE "B"]
MCDst == [o \in MCOMS |-> CASE o = "ab" -> "B" [] o = "ba" -> "A" [] OTHER -> "C"]
MCKind == [o \in MCOMS |-> IF o = "bc" THEN 2 ELSE 1]
MCDropKind == [n \in MCNodes |-> 0]
MCMarginOf == [b \in {"live", "branch"} |-> IF b = "live" THEN 1 ELSE 0]
MCPaths == {<<"ab">>, <<"ab", "bc">>}
MCCombs == {{0}, {0, 1}}
MCDegraded == {<<"branch", "ab">>}
NoElements == [o \in MCOMS |-> {}]
NoRoadm == EmptyMap
MCRank == [o \in MCOMS |-> CASE o = "ab" -> 1 [] o = "ba" -> 2 [] OTHER -> 3]
===============================================================================
