-------------------------- MODULE MCSyncCollection --------------------------
(* Symmetry for the runs of SyncCollection that check no liveness.          *)
EXTENDS SyncCollection, TLC

ActorSymmetry == Permutations(Actors)
=============================================================================
