----------------------------- MODULE MCReceipts -----------------------------
(* Small instances of Receipts for TLC. *)
EXTENDS Receipts, TLC

RequestSymmetry == Permutations(Request)

\* A photo declared with size 2 may arrive cut short; a scan has another type.
Photo == [type |-> "image/jpeg", size |-> 2]
Thumbnail == [type |-> "image/jpeg", size |-> 1]
Scan == [type |-> "image/png", size |-> 1]
PhotoOrThumbnail == {Photo, Thumbnail}
AnyFile == {Photo, Thumbnail, Scan}

SoleOwner == [e \in Expense |-> CHOOSE d \in Driver : TRUE]
=============================================================================
