--------------------------- MODULE MCLocationQueue --------------------------
(* Small instances of LocationQueue for TLC. *)
EXTENDS LocationQueue, TLC

OwnerSymmetry == Permutations(Owner)
=============================================================================
