------------------------------ MODULE Devices -------------------------------
(***************************************************************************)
(* DeviceTokenStore of src/tokens.ts: the table of paired devices.  A      *)
(* store is a function from record ids to rows; the operators below are    *)
(* the methods, as functions on stores.                                    *)
(*                                                                         *)
(* A record's id is the first token it was given.  The source keeps an     *)
(* array; a row's place in it is its field pos.  Labels, client types and  *)
(* createdAt are data that no decision reads back.                         *)
(***************************************************************************)
EXTENDS Identities, FiniteSets

CONSTANT MaxLiveDevices     \* MAX_LIVE_DEVICES (256)

ASSUME LimitAssumption == MaxLiveDevices \in Nat

Row == [token: Nat, claimant: Claimants \cup {NoClaimant}, room: Nat,
        live: BOOLEAN, lastSeenAt: Nat, pos: Nat]

\* revokedAt === null
Live(ds) == {d \in DOMAIN ds : ds[d].live}

HasLiveForRoom(ds, room) == \E d \in Live(ds) : ds[d].room = room

LiveRooms(ds) == {ds[d].room : d \in Live(ds)} \ {NoRoom}

\* The live rows bound to a Client Instance, and the first of a set of rows.
LiveOf(ds, claimant) == {d \in Live(ds) : ds[d].claimant = claimant}

First(ds, S) == CHOOSE d \in S : \A e \in S : ds[d].pos <= ds[e].pos

\* Mutant: one too many.
BelowLimitByOne(ds) == Cardinality(Live(ds)) <= MaxLiveDevices

\* issue() below the ceiling appends a row; at the ceiling it throws.
BelowLimit(ds) == Cardinality(Live(ds)) < MaxLiveDevices

Issue(ds, token, claimant, room, now) ==
    [d \in DOMAIN ds \cup {token} |->
        IF d = token
        THEN [token |-> token, claimant |-> claimant, room |-> room,
              live |-> TRUE, lastSeenAt |-> now, pos |-> token]
        ELSE ds[d]]

\* issueOrUpdate(): a known Client Instance keeps its row, with a new token.
MayIssueOrUpdate(ds, claimant) == LiveOf(ds, claimant) # {} \/ BelowLimit(ds)

IssueOrUpdate(ds, token, claimant, room, now) ==
    IF LiveOf(ds, claimant) = {}
    THEN Issue(ds, token, claimant, room, now)
    ELSE [ds EXCEPT ![First(ds, LiveOf(ds, claimant))] =
             [@ EXCEPT !.token = token, !.room = room, !.lastSeenAt = now]]

\* The token that issueOrUpdate() overwrites, if any.
Overwritten(ds, claimant) ==
    IF LiveOf(ds, claimant) = {}
    THEN {} ELSE {ds[First(ds, LiveOf(ds, claimant))].token}

\* Mutant: the key that presents the token is not compared.
MayAuthenticateAnyKey(ds, d, token, claimant) ==
    d \in Live(ds) /\ ds[d].token = token

\* Mutant: revoked rows are not skipped.
MayAuthenticateRevoked(ds, d, token, claimant) ==
    /\ d \in DOMAIN ds
    /\ ds[d].token = token
    /\ ds[d].claimant \in {NoClaimant, claimant}

\* authenticate(): the live row whose hash matches, unless it is bound to
\* another Client Instance.  The row is then bound and follows the room.
MayAuthenticate(ds, d, token, claimant) ==
    /\ d \in Live(ds)
    /\ ds[d].token = token
    /\ ds[d].claimant \in {NoClaimant, claimant}

Authenticate(ds, d, claimant, room, now) ==
    [ds EXCEPT ![d] =
        [@ EXCEPT !.claimant = claimant, !.room = room, !.lastSeenAt = now]]

\* revoke(): the row stays in the table and is never live again.
RevokeRow(ds, d) == [ds EXCEPT ![d] = [@ EXCEPT !.live = FALSE]]

\* mergeLiveClaimants(), run on the file at boot: of the live rows of one
\* Client Instance the most recently seen survives (the earliest of those,
\* on a tie) and takes the place of the first.  The winner inherits a label,
\* a client type and the oldest createdAt, which are not modelled, and a
\* room only if it has none, which no bound row lacks (BoundHasRoom).
Bound(ds) == {d \in Live(ds) : ds[d].claimant # NoClaimant}

\* Mutant: the comparison is the wrong way round.
Oldest(ds, S) == {d \in S : \A e \in S : ds[d].lastSeenAt <= ds[e].lastSeenAt}

Newest(ds, S) == {d \in S : \A e \in S : ds[e].lastSeenAt <= ds[d].lastSeenAt}

Winner(ds, claimant) ==
    First(ds, Newest(ds, LiveOf(ds, claimant)))

Losers(ds) == {d \in Bound(ds) : d # Winner(ds, ds[d].claimant)}

Merge(ds) ==
    [d \in DOMAIN ds \ Losers(ds) |->
        IF d \in Bound(ds)
        THEN [ds[d] EXCEPT
                !.pos = ds[First(ds, LiveOf(ds, ds[d].claimant))].pos]
        ELSE ds[d]]
=============================================================================
