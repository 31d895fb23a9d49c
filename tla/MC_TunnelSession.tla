--------------------------- MODULE MC_TunnelSession -------------------------
(* Interchangeable ids.                                                     *)
EXTENDS TunnelSession, TLC

Interchangeable == Permutations(Ids)
=============================================================================
