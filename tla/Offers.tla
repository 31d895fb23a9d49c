------------------------------- MODULE Offers -------------------------------
(***************************************************************************)
(* PairingOfferManager of src/pairing.ts: the in-memory table of minted    *)
(* pairing codes.  A table is a function from the codes it holds to        *)
(* records; the operators below are the methods, as functions on tables.   *)
(*                                                                         *)
(* QR payload, display name and STUN list are data that no decision reads  *)
(* back.                                                                   *)
(***************************************************************************)
EXTENDS Identities

CONSTANT TtlMs      \* codeTtlMs: lifetime of a code in clock units

ASSUME TtlAssumption == TtlMs \in Nat

\* One pending offer.  claim = undefined is claimant = NoClaimant, token = 0.
Offer == [expMs: Nat, room: Nat, claimant: Claimants \cup {NoClaimant},
          token: Nat]

EmptyOffers == [c \in {} |-> {}]

\* prune(): a mint first drops every expired offer, claimed ones included.
Prune(offers, now) ==
    LET kept == {c \in DOMAIN offers : now <= offers[c].expMs}
    IN  [c \in kept |-> offers[c]]

\* The shared tail of mint() and mintPublic(): prune, then store a fresh code.
Store(offers, code, room, now) ==
    LET pruned == Prune(offers, now)
    IN  [c \in DOMAIN pruned \cup {code} |->
            IF c = code
            THEN [expMs |-> now + TtlMs, room |-> room,
                  claimant |-> NoClaimant, token |-> 0]
            ELSE pruned[c]]

\* validate(): 'ok' is an unclaimed code inside its window.
Validate(offers, code, now) ==
    IF code \notin DOMAIN offers \/ offers[code].claimant # NoClaimant
    THEN "unknown"
    ELSE IF now <= offers[code].expMs THEN "ok" ELSE "expired"

\* The checks claim() makes before it looks at the previous claim: a known
\* code, presented in the room it was minted for, inside its window.
Presentable(offers, code, room, now) ==
    /\ code \in DOMAIN offers
    /\ offers[code].room = room
    /\ now <= offers[code].expMs

\* claim() may issue a token for an unclaimed code ...
Claimable(offers, code, room, now) ==
    /\ Presentable(offers, code, room, now)
    /\ offers[code].claimant = NoClaimant

\* Mutant: the key that presents a claimed code is not compared.
RetryableByAnyKey(offers, code, claimant, room, now) ==
    /\ Presentable(offers, code, room, now)
    /\ offers[code].claimant # NoClaimant

\* ... and repeats the transient token to the key that claimed it.
Retryable(offers, code, claimant, room, now) ==
    /\ Presentable(offers, code, room, now)
    /\ offers[code].claimant = claimant

\* pending.claim = { claimant, deviceToken }
Claim(offers, code, claimant, token) ==
    [offers EXCEPT ![code] =
        [@ EXCEPT !.claimant = claimant, !.token = token]]
=============================================================================
