----------------------------- MODULE MC_Pairing -----------------------------
(* Two phones, two codes, two tokens; the phones are interchangeable.  A   *)
(* code is good for the unit of the clock it was minted in, and not for    *)
(* the next: both sides of its expiry.                                     *)
EXTENDS Pairing, TLC

Phones == Permutations(Claimants)
=============================================================================
