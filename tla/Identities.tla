----------------------------- MODULE Identities -----------------------------
(***************************************************************************)
(* The names shared by the offer table, the device store and the parts     *)
(* that use them.  A Client Instance is its X25519 public key; rooms, codes *)
(* and tokens are random and never repeat, so they are numbered from 1 in  *)
(* the order in which they are drawn.                                      *)
(***************************************************************************)
EXTENDS Integers

CONSTANTS
    Claimants,      \* Client Instance public keys
    NoClaimant      \* an offer nobody has claimed, a record bound to no key

ASSUME NoClaimantAssumption == NoClaimant \notin Claimants

NoRoom == 0         \* a record written before rooms existed
=============================================================================
