----------------------------- MODULE MCTracking -----------------------------
(* A small instance of TripTracking, for TLC. *)
EXTENDS TripTracking, TLC

OperationSymmetry == Permutations(Op)
=============================================================================
