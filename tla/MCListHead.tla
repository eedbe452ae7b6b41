----------------------------- MODULE MCListHead -----------------------------
(* Instances of ListHead for TLC. *)
EXTENDS ListHead, TLC

CellSymmetry == Permutations(Heads) \cup Permutations(Entries)

============================================================================
