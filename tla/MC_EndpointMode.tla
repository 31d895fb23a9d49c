--------------------------- MODULE MC_EndpointMode --------------------------
(* Interchangeable tunnel addresses.                                        *)
EXTENDS EndpointMode, TLC

Addresses == Permutations(Urls)
=============================================================================
