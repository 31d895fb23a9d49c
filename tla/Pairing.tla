------------------------------- MODULE Pairing ------------------------------
(***************************************************************************)
(* The credentials of the Host: one-time pairing codes (src/pairing.ts),   *)
(* the device token store and its file (src/tokens.ts), and the handshake  *)
(* that exchanges the first for an entry in the second                     *)
(* (src/handshake.ts).                                                     *)
(*                                                                         *)
(* Node runs one handler at a time, so a handshake, a mint or a revoke is  *)
(* one action.  What is not atomic is the save() that ends every change of *)
(* the store: it may fail after memory has changed, and the process may    *)
(* stop at any moment and read the file back.                              *)
(***************************************************************************)
EXTENDS Offers, Devices

CONSTANTS
    MaxClock,        \* bound on the clock
    MaxCodes,        \* bound on the number of codes minted
    MaxTokens,       \* bound on the tokens; one at least is new
    MaxLegacy,       \* bound on the unbound rows an older version left behind
    MaxHeld          \* bound on those whose phone ever comes back

ASSUME BoundsAssumption ==
    /\ {MaxClock, MaxCodes, MaxTokens, MaxLegacy, MaxHeld} \subseteq Nat
    /\ MaxTokens > 0

VARIABLES
    now,             \* Date.now()
    offers,          \* PairingOfferManager.pending
    minted,          \* codes minted so far: 1 .. minted
    devices,         \* DeviceTokenStore.devices
    disk,            \* the rows in the store file
    issued,          \* tokens generated so far: 1 .. issued
    rooms,           \* rooms drawn so far: 1 .. rooms
    legacy,          \* history: the rows 1 .. legacy were in the first file
    acks,            \* history: the grants acknowledged to clients
    retired,         \* history: tokens taken out of use in memory
    revoked          \* history: tokens whose revocation was answered

vars == <<now, offers, minted, devices, disk, issued, rooms, legacy,
          acks, retired, revoked>>

Tokens == 1..(MaxTokens + MaxLegacy)

\* A sealed acknowledgement of a handshake: the code it was given for (0 for
\* a token reconnect), to which key, for which token, and in which room the
\* code was presented.
Ack == [code: 0..MaxCodes, claimant: Claimants, token: Tokens,
        room: 0..MaxCodes]

\* writeFileSync to a temporary file, renameSync, chmodSync: "ok"; "lost",
\* the file is as before and save() throws; "late", the file is replaced and
\* chmodSync throws.  A handler whose save() throws answers nothing.
SaveOutcome == {"ok", "lost", "late"}

\* Mutant: the answer does not wait for the write.
SaveLater(outcome, ds) == disk' = IF outcome = "late" THEN ds ELSE disk

Save(outcome, ds) == disk' = IF outcome = "lost" THEN disk ELSE ds

\* Tokens some client presents: those acknowledged to it, and those of the
\* records that an older version issued to a phone that is still in use.
Disclosed == {a.token : a \in acks} \cup {t \in 1..legacy : t <= MaxHeld}

-----------------------------------------------------------------------------
\* The first boot finds no file, or the rows of a version that bound neither
\* key nor room.
LegacyRow(d) ==
    [token |-> d, claimant |-> NoClaimant, room |-> NoRoom, live |-> TRUE,
     lastSeenAt |-> 0, pos |-> d]

Init ==
    /\ legacy \in {n \in 0..MaxLegacy : n <= MaxLiveDevices}
    /\ now = 0
    /\ offers = EmptyOffers
    /\ minted = 0
    /\ devices = [d \in 1..legacy |-> LegacyRow(d)]
    /\ disk = devices
    /\ issued = legacy
    /\ rooms = 0
    /\ acks = {}
    /\ retired = {}
    /\ revoked = {}

Tick ==
    /\ now < MaxClock
    /\ now' = now + 1
    /\ UNCHANGED <<offers, minted, devices, disk, issued, rooms, legacy,
                   acks, retired, revoked>>

\* Mutant: the code is stored before it is drawn.
MintEarly(room) ==
    /\ minted < MaxCodes
    /\ room \in LiveRooms(devices) \cup {rooms + 1}
    /\ minted' = minted + 1
    /\ rooms' = IF room = rooms + 1 THEN room ELSE rooms
    /\ offers' = Store(offers, minted, room, now)
    /\ UNCHANGED <<now, devices, disk, issued, legacy, acks, retired, revoked>>

\* handleLocalPair: a QR for a new room, or for the room of a live device.
Mint(room) ==
    /\ minted < MaxCodes
    /\ room \in LiveRooms(devices) \cup {rooms + 1}
    /\ minted' = minted + 1
    /\ rooms' = IF room = rooms + 1 THEN room ELSE rooms
    /\ offers' = Store(offers, minted', room, now)
    /\ UNCHANGED <<now, devices, disk, issued, legacy, acks, retired, revoked>>

\* Mutant: the claim is recorded although issuing its token threw.
ClaimBeforeIssue(claimant, code, room, outcome) ==
    /\ issued < MaxTokens \/ issued = legacy
    /\ Claimable(offers, code, room, now)
    /\ MayIssueOrUpdate(devices, claimant)
    /\ issued' = issued + 1
    /\ devices' = IssueOrUpdate(devices, issued', claimant, room, now)
    /\ Save(outcome, devices')
    /\ retired' = retired \cup Overwritten(devices, claimant)
    /\ offers' = Claim(offers, code, claimant, issued')
    /\ acks' = IF outcome = "ok"
               THEN acks \cup {[code |-> code, claimant |-> claimant,
                                token |-> issued', room |-> room]}
               ELSE acks
    /\ UNCHANGED <<now, minted, rooms, legacy, revoked>>

\* hostHandshake with a code nobody has claimed: claim() issues the token
\* through issueOrUpdate() and records the claim only if that returned.
ClaimOffer(claimant, code, room, outcome) ==
    /\ issued < MaxTokens \/ issued = legacy
    /\ Claimable(offers, code, room, now)
    /\ MayIssueOrUpdate(devices, claimant)
    /\ issued' = issued + 1
    /\ devices' = IssueOrUpdate(devices, issued', claimant, room, now)
    /\ Save(outcome, devices')
    /\ retired' = retired \cup Overwritten(devices, claimant)
    /\ IF outcome = "ok"
       THEN /\ offers' = Claim(offers, code, claimant, issued')
            /\ acks' = acks \cup {[code |-> code, claimant |-> claimant,
                                   token |-> issued', room |-> room]}
       ELSE UNCHANGED <<offers, acks>>
    /\ UNCHANGED <<now, minted, rooms, legacy, revoked>>

\* hostHandshake with a code this key has claimed: the same token again, out
\* of the claim and without a look at the store.
RetryClaim(claimant, code, room) ==
    /\ Retryable(offers, code, claimant, room, now)
    /\ acks' = acks \cup {[code |-> code, claimant |-> claimant,
                           token |-> offers[code].token, room |-> room]}
    /\ UNCHANGED <<now, offers, minted, devices, disk, issued, rooms, legacy,
                   retired, revoked>>

\* hostHandshake with a device token, by whoever has got hold of it, on a
\* connection of any room drawn so far.  The save of a label that comes with
\* the hello follows that of authenticate(): if only the first succeeds the
\* file is replaced and nothing is answered, as for "late".
Reconnect(claimant, token, room, outcome) ==
    \E d \in DOMAIN devices :
        /\ MayAuthenticate(devices, d, token, claimant)
        /\ devices' = Authenticate(devices, d, claimant, room, now)
        /\ Save(outcome, devices')
        /\ acks' = IF outcome = "ok"
                   THEN acks \cup {[code |-> 0, claimant |-> claimant,
                                    token |-> token, room |-> NoRoom]}
                   ELSE acks
        /\ UNCHANGED <<now, offers, minted, issued, rooms, legacy, retired,
                       revoked>>

\* handleRevoke.
Revoke(d, outcome) ==
    /\ d \in Live(devices)
    /\ devices' = RevokeRow(devices, d)
    /\ Save(outcome, devices')
    /\ retired' = retired \cup {devices[d].token}
    /\ revoked' = IF outcome = "ok"
                  THEN revoked \cup {devices[d].token} ELSE revoked
    /\ UNCHANGED <<now, offers, minted, issued, rooms, legacy, acks>>

\* handleLabel: the label itself is not modelled, the save it makes is.
Rename(d, outcome) ==
    /\ d \in Live(devices)
    /\ Save(outcome, devices)
    /\ UNCHANGED <<now, offers, minted, devices, issued, rooms, legacy, acks,
                   retired, revoked>>

\* The process stops, at any point, and a new one reads the file: the offers
\* are gone, historical duplicates are merged and the result saved.  (If that
\* save throws the plugin does not start, which is no step of this model.)
\* A token whose retirement never reached the file is in use again.
Restart ==
    /\ offers' = EmptyOffers
    /\ devices' = Merge(disk)
    /\ disk' = devices'
    /\ retired' = (retired \cup {disk[d].token : d \in Losers(disk)})
                  \ {devices'[d].token : d \in Live(devices')}
    /\ UNCHANGED <<now, minted, issued, rooms, legacy, acks, revoked>>

Next ==
    \/ Tick
    \/ \E room \in 1..(rooms + 1) : Mint(room)
    \/ \E claimant \in Claimants, code \in 1..minted, room \in 1..rooms,
          outcome \in SaveOutcome : ClaimOffer(claimant, code, room, outcome)
    \/ \E claimant \in Claimants, code \in 1..minted, room \in 1..rooms :
          RetryClaim(claimant, code, room)
    \/ \E claimant \in Claimants, token \in Disclosed, room \in 1..rooms,
          outcome \in SaveOutcome : Reconnect(claimant, token, room, outcome)
    \/ \E d \in DOMAIN devices, outcome \in SaveOutcome : Revoke(d, outcome)
    \/ \E d \in DOMAIN devices, outcome \in SaveOutcome : Rename(d, outcome)
    \/ Restart

Spec == Init /\ [][Next]_vars

-----------------------------------------------------------------------------
IsStore(ds) ==
    /\ DOMAIN ds \subseteq 1..issued
    /\ \A d \in DOMAIN ds : ds[d] \in Row /\ ds[d].token \in 1..issued

\* The variables have their types; codes, tokens and rooms were drawn.
TypeOK ==
    /\ now \in 0..MaxClock
    /\ minted \in 0..MaxCodes /\ rooms \in 0..minted
    /\ issued \in 0..(MaxTokens + MaxLegacy)
    /\ legacy \in 0..MaxLegacy /\ legacy <= issued
    /\ DOMAIN offers \subseteq 1..minted
    /\ \A c \in DOMAIN offers : offers[c] \in Offer
    /\ IsStore(devices) /\ IsStore(disk)
    /\ acks \subseteq Ack
    /\ retired \subseteq 1..issued /\ revoked \subseteq 1..issued

\* A code is single-use although retries are answered: whatever was ever
\* acknowledged for it went to one key, with one token, in one room, also
\* across lost acknowledgements, failed saves and expiry.  (claim(),
\* pairing.ts:169-173.)
CodeSingleUse ==
    \A a, b \in acks : a.code = b.code /\ a.code # 0 => a = b

\* A token serves one key only: nobody but the Client Instance that was first
\* acknowledged with it, by code or by binding a legacy record, is ever
\* acknowledged with it again, whatever is lost in a crash in between.
\* (handshake.ts:15-18, tokens.ts:152-157.)
TokenHasOneHolder ==
    \A a, b \in acks : a.token = b.token => a.claimant = b.claimant

\* An answered revocation is for good: no live row, in memory or in the file
\* a restart would read, carries the token again.  (tokens.ts:173-179.)
RevokedForGood ==
    \A ds \in {devices, disk} : \A d \in Live(ds) : ds[d].token \notin revoked

\* A token the phone was told survives a crash at any point: as long as this
\* process has not replaced it, merged it away or started to revoke it, the
\* row it opens is live in the file.  (README.md:39.)
AckedTokenDurable ==
    \A a \in acks :
        \/ a.token \in retired
        \/ \E d \in Live(disk) :
              disk[d].token = a.token /\ disk[d].claimant = a.claimant

\* Re-pairing never gives a Client Instance a second live row; two can only
\* come from binding a record of an older version.  (tokens.ts:98-102.)
OneRowPerClaimant ==
    \A d, e \in Bound(devices) :
        devices[d].claimant = devices[e].claimant /\ d > legacy /\ e > legacy
            => d = e

\* A phone has one live row, and the abuse ceiling holds for the rows in
\* memory and in the file, whatever failed saves, crashes and re-pairings at
\* the ceiling do to either.  (tokens.ts:79, 98-102.)
RowsLimited ==
    /\ OneRowPerClaimant
    /\ \A ds \in {devices, disk} : Cardinality(Live(ds)) <= MaxLiveDevices

\* A live row of the file goes out of use at boot, or by a re-pairing, only
\* for a live row of the same Client Instance that was seen no earlier: the
\* merge never keeps the stale credential.  And a restart leaves one live row
\* per Client Instance, whatever the file held.  (mergeLiveClaimants,
\* tokens.ts:200-231.)
RetiredForSuccessor ==
    [][/\ \A d \in Bound(disk) :
            disk[d].token \in retired' \ retired =>
                \/ d \in DOMAIN devices' /\ ~devices'[d].live
                \/ \E e \in Live(devices') :
                     /\ devices'[e].claimant = disk[d].claimant
                     /\ devices'[e].lastSeenAt >= disk[d].lastSeenAt
                     /\ devices'[e].token \notin retired'
       /\ Restart =>
            \A d, e \in Live(devices') :
               /\ devices'[d].claimant # NoClaimant
               /\ devices'[d].claimant = devices'[e].claimant
               => d = e]_vars

\* The credentials implement the contract: every step is a grant, a
\* revocation, or nothing a client can tell.
Contract == INSTANCE PairingContract WITH
    Grants <- Ack, Tokens <- Tokens, granted <- acks, revokedTokens <- revoked

ImplementsContract == Contract!Spec

-----------------------------------------------------------------------------
\* Parts of the inductive invariant.

\* No two rows of a store carry the same token.
TokensUnique ==
    \A ds \in {devices, disk} : \A d, e \in DOMAIN ds :
        ds[d].token = ds[e].token => d = e

\* A row is bound to the key its token was acknowledged to.
RowsMatchAcks ==
    \A ds \in {devices, disk} : \A d \in DOMAIN ds, a \in acks :
        ds[d].token = a.token => ds[d].claimant = a.claimant

\* A pending offer remembers exactly what was acknowledged for it.
OffersMatchAcks ==
    /\ \A a \in acks : a.code \in 0..minted /\ a.token \in 1..issued
    /\ \A a \in acks : a.code \in DOMAIN offers =>
          /\ offers[a.code].claimant = a.claimant
          /\ offers[a.code].token = a.token
          /\ offers[a.code].room = a.room
    /\ \A c \in DOMAIN offers : offers[c].claimant # NoClaimant =>
          [code |-> c, claimant |-> offers[c].claimant,
           token |-> offers[c].token, room |-> offers[c].room] \in acks

\* A row that is not bound was in the first file; a bound row has a room.
UnboundIsLegacy ==
    \A ds \in {devices, disk} : \A d \in DOMAIN ds :
        ds[d].claimant = NoClaimant => d <= legacy

BoundHasRoom ==
    \A ds \in {devices, disk} : \A d \in DOMAIN ds :
        ds[d].claimant # NoClaimant => ds[d].room # NoRoom

Credentials ==
    /\ TypeOK
    /\ TokensUnique
    /\ RowsMatchAcks
    /\ OffersMatchAcks
    /\ CodeSingleUse
    /\ TokenHasOneHolder
    /\ RevokedForGood
=============================================================================
