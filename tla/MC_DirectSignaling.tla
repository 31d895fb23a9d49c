-------------------------- MODULE MC_DirectSignaling ------------------------
(* Nothing but numbers: checked as it is.                                   *)
EXTENDS DirectSignaling
=============================================================================
