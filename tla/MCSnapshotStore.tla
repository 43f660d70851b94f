--------------------------- MODULE MCSnapshotStore ---------------------------
(***************************************************************************)
(* Small instances of SnapshotStore.                                       *)
(***************************************************************************)
EXTENDS SnapshotStore, TLC

RefSymmetry == Permutations(Refs)

\* At most this many references are held at once, besides the store's own.
CONSTANT HeldBound
FewHeld == Cardinality(held) <= HeldBound
===============================================================================
