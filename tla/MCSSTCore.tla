----------------------------- MODULE MCSSTCore -----------------------------
(* Small instances of the secure storage core for TLC. *)
EXTENDS SSTCore

UuidSymmetry == Permutations(Uuids)
Symmetry == Permutations(Values) \cup UuidSymmetry
=============================================================================
