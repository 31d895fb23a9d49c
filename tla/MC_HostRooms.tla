---------------------------- MODULE MC_HostRooms ----------------------------
(* Interchangeable phones; the symmetry is for runs of safety only.         *)
EXTENDS HostRooms, TLC

Phones == Permutations(Claimants)
=============================================================================
