------------------------------ MODULE HostRooms -----------------------------
(***************************************************************************)
(* Who may reach the Host where: apply() of src/index.ts with the relay    *)
(* connector (src/relay-connector.ts), the admission of the Host Gateway   *)
(* (src/gateway.ts) and the credentials of Offers and Devices.             *)
(*                                                                         *)
(* A phone reaches the Host through a room.  In relay mode the Host sits   *)
(* in the room itself: a campaign keeps a socket to the relay.  In custom  *)
(* mode the phone comes to the Gateway, which admits it if the room is     *)
(* authorized.  On either kind of carrier a handshake opens a session of   *)
(* one Client Instance.                                                    *)
(*                                                                         *)
(* Two things happen at their own time: sockets open and close, and a      *)
(* timer reseats the campaigns every 15 seconds.  Everything else is one   *)
(* handler, which Node runs to its end.  (The handlers that await the Quick *)
(* Tunnel are not here: modes are relay and custom.)                       *)
(***************************************************************************)
EXTENDS Offers, Devices

CONSTANTS
    RelayUrls,       \* relays the user may choose
    FirstRelay,      \* the one configured when the plugin is first applied
    SeatKinds,       \* Gateway entries: subset of {"signal", "tunnel"}
    MaxClock, MaxCodes, MaxTokens, MaxSaves     \* bounds

ASSUME RelayAssumption == FirstRelay \in RelayUrls

ASSUME RoomBoundsAssumption ==
    {MaxClock, MaxCodes, MaxTokens, MaxSaves} \subseteq Nat

VARIABLES
    now,             \* Date.now()
    offers, minted,  \* PairingOfferManager, codes minted
    devices, issued, \* DeviceTokenStore, tokens generated
    rooms,           \* rooms drawn so far: 1 .. rooms
    mode, relayUrl,  \* live.mode, live.relayUrl
    campaigns,       \* relayCampaigns with their connectors and gates
    admitted,        \* rooms of the Gateway: room -> expiresAt
    gates,           \* open Gateway sockets with their gates: seat -> session
    saves,           \* endpoint changes so far (bounded)
    abandoned        \* history: rooms whose last device left by a new pairing

vars == <<now, offers, minted, devices, issued, rooms, mode, relayUrl,
          campaigns, admitted, gates, saves, abandoned>>

credentials == <<offers, devices, issued, abandoned>>
counters == <<now, minted, rooms, saves>>
endpoint == <<mode, relayUrl>>

\* A campaign's connector is waiting for its socket, has it, waits for its
\* backoff timer, or has given up.  code 0 is the empty code of a reseat;
\* session is the Client Instance served by the gate, or NoClaimant.
Link == {"connecting", "open", "backoff", "stopped"}

Campaign == [url: RelayUrls, code: Nat, link: Link,
             session: Claimants \cup {NoClaimant}]

Seat == SeatKinds \X Nat

Forever == MaxClock + TtlMs + 1      \* Number.POSITIVE_INFINITY

\* The partial functions campaigns, admitted and gates.
Put(f, x, y) == [z \in DOMAIN f \cup {x} |-> IF z = x THEN y ELSE f[z]]
Drop(f, S) == [z \in DOMAIN f \ S |-> f[z]]
Empty == [z \in {} |-> 0]

-----------------------------------------------------------------------------
(***************************************************************************)
(* The helpers of apply().                                                 *)
(***************************************************************************)

\* connector.active, and shouldReuseRelayCampaign() for the relay url.
Active(campaign) == campaign.link # "stopped"

Reusable(cs, room, url) ==
    /\ room \in DOMAIN cs
    /\ cs[room].url = url
    /\ Active(cs[room])

NewCampaign(url, code) ==
    [url |-> url, code |-> code, link |-> "connecting",
     session |-> NoClaimant]

\* ensureRelayRoom(): an empty code keeps a reusable campaign, any other call
\* closes the campaign of the room, its socket and its session, and starts
\* anew.
EnsureRelayRoom(cs, room, code, url) ==
    IF code = 0 /\ Reusable(cs, room, url)
    THEN cs
    ELSE Put(cs, room, NewCampaign(url, code))

\* shouldKeepPendingRelaySeat(): the offer the campaign was started for is
\* still unclaimed and unexpired.
PendingSeat(cs, room) == Validate(offers, cs[room].code, now) = "ok"

\* closeCampaign() of each room, and closeRelayRooms(): the connector stops and
\* the session goes with its socket.
CloseCampaigns(cs, left) == Drop(cs, left)
CloseRelayRooms(cs) == CloseCampaigns(cs, DOMAIN cs)

\* Mutants: a room with a pending QR only is left; a campaign that has given
\* up passes for a seat.
RestartLiveOnly(cs, url) ==
    [r \in LiveRooms(devices) |->
        IF Reusable(cs, r, url) THEN cs[r] ELSE NewCampaign(url, 0)]

RestartMissing(cs, url) ==
    LET live == LiveRooms(devices)
        kept == {r \in DOMAIN cs : r \in live \/ PendingSeat(cs, r)}
    IN  [r \in kept \cup live |->
            IF r \in kept THEN cs[r] ELSE NewCampaign(url, 0)]

\* restartRelayRooms() in relay mode: leave the rooms that have neither a
\* live device nor a pending offer, then take a seat for every live room.
RestartRelayRooms(cs, url) ==
    LET live == LiveRooms(devices)
        kept == {r \in DOMAIN cs : r \in live \/ PendingSeat(cs, r)}
    IN  [r \in kept \cup live |->
            IF r \in kept /\ (r \notin live \/ Reusable(cs, r, url))
            THEN cs[r]
            ELSE NewCampaign(url, 0)]

\* authorizedRoom(): an entry decides until it has expired, then the store.
Authorized(room) ==
    \/ room \in DOMAIN admitted /\ admitted[room] >= now
    \/ HasLiveForRoom(devices, room)

\* Authorize every live room without an expiry.
AuthorizeLive ==
    [r \in DOMAIN admitted \cup LiveRooms(devices) |->
        IF r \in LiveRooms(devices) THEN Forever ELSE admitted[r]]

SeatsOf(room) == {s \in DOMAIN gates : s[2] = room}

-----------------------------------------------------------------------------
(***************************************************************************)
(* Pairing, revocation and endpoint changes: requests of the settings card. *)
(***************************************************************************)
Init ==
    /\ now = 0 /\ minted = 0 /\ issued = 0 /\ rooms = 0 /\ saves = 0
    /\ offers = EmptyOffers
    /\ devices = Empty
    /\ mode \in {"relay", "custom"}
    /\ relayUrl = FirstRelay
    /\ campaigns = Empty /\ admitted = Empty /\ gates = Empty
    /\ abandoned = {}

Tick ==
    /\ now < MaxClock
    /\ now' = now + 1
    /\ UNCHANGED <<credentials, minted, rooms, saves, endpoint, campaigns,
                   admitted, gates>>

\* handleLocalPair: mint() and a campaign for the code in relay mode,
\* mintPublic() and an authorization until the code expires otherwise.  The
\* room is a new one, or that of a live device whose QR is refreshed.
Pair(room) ==
    /\ minted < MaxCodes
    /\ room \in LiveRooms(devices) \cup {rooms + 1}
    /\ minted' = minted + 1
    /\ rooms' = IF room = rooms + 1 THEN room ELSE rooms
    /\ offers' = Store(offers, minted', room, now)
    /\ IF mode = "relay"
       THEN /\ campaigns' = EnsureRelayRoom(campaigns, room, minted', relayUrl)
            /\ UNCHANGED admitted
       ELSE /\ admitted' = Put(admitted, room, now + TtlMs)
            /\ UNCHANGED campaigns
    /\ UNCHANGED <<now, saves, devices, issued, endpoint, gates, abandoned>>

\* handleRevoke: when the room of the record has no other live device, its
\* campaign and its Gateway gates are closed and its authorization expires.
Revoke(d) ==
    /\ d \in Live(devices)
    /\ devices' = RevokeRow(devices, d)
    /\ LET room == devices[d].room
       IN  IF HasLiveForRoom(devices', room)
           THEN UNCHANGED <<campaigns, admitted, gates>>
           ELSE /\ campaigns' = CloseCampaigns(campaigns, {room})
                /\ gates' = Drop(gates, SeatsOf(room))
                /\ admitted' = Put(admitted, room, now - 1)
    /\ UNCHANGED <<counters, offers, issued, endpoint, abandoned>>

\* Mutant: the campaigns are left running.
SaveEndpointOnly(newMode, url) ==
    /\ saves < MaxSaves
    /\ saves' = saves + 1
    /\ mode' = newMode
    /\ IF newMode = "custom"
       THEN admitted' = AuthorizeLive /\ UNCHANGED <<campaigns, relayUrl>>
       ELSE /\ relayUrl' = url
            /\ campaigns' = RestartRelayRooms(campaigns, url)
            /\ UNCHANGED admitted
    /\ UNCHANGED <<now, minted, rooms, credentials, gates>>

\* handleEndpointSave: to a custom endpoint every campaign is closed and the
\* live rooms are authorized; to a relay the campaigns are reseated, and the
\* Gateway is left as it is.
SaveEndpoint(newMode, url) ==
    /\ saves < MaxSaves
    /\ saves' = saves + 1
    /\ mode' = newMode
    /\ IF newMode = "custom"
       THEN /\ campaigns' = CloseRelayRooms(campaigns)
            /\ admitted' = AuthorizeLive
            /\ UNCHANGED relayUrl
       ELSE /\ relayUrl' = url
            /\ campaigns' = RestartRelayRooms(campaigns, url)
            /\ UNCHANGED admitted
    /\ UNCHANGED <<now, minted, rooms, credentials, gates>>

\* The reseat timer.  Outside relay mode there is nothing to close, since
\* leaving relay mode closed every campaign.
Reseat ==
    /\ campaigns' = IF mode = "relay"
                    THEN RestartRelayRooms(campaigns, relayUrl) ELSE CloseRelayRooms(campaigns)
    /\ UNCHANGED <<counters, credentials, endpoint, admitted, gates>>

\* The plugin is unloaded and applied again: every socket is closed, offers
\* and authorizations are forgotten, the store is read back.
Reload ==
    /\ offers' = EmptyOffers
    /\ gates' = Empty
    /\ abandoned' = {}
    /\ IF mode = "relay"
       THEN /\ campaigns' = [r \in LiveRooms(devices) |->
                                NewCampaign(relayUrl, 0)]
            /\ admitted' = Empty
       ELSE /\ campaigns' = Empty
            /\ admitted' = [r \in LiveRooms(devices) |-> Forever]
    /\ UNCHANGED <<counters, devices, issued, endpoint>>

-----------------------------------------------------------------------------
(***************************************************************************)
(* Carriers: the socket of a campaign and the seats of the Gateway.        *)
(***************************************************************************)

\* 'open': a fresh gate is attached; it has no session yet.
RelayOpen(room) ==
    /\ room \in DOMAIN campaigns /\ campaigns[room].link = "connecting"
    /\ campaigns' = [campaigns EXCEPT ![room].link = "open"]
    /\ UNCHANGED <<counters, credentials, endpoint, admitted, gates>>

\* 'close': the session goes with the socket; the connector retries while the
\* room has a live device or the campaign's own offer is pending.
RelayClose(room) ==
    /\ room \in DOMAIN campaigns
    /\ campaigns[room].link \in {"connecting", "open"}
    /\ campaigns' = [campaigns EXCEPT ![room] =
          [@ EXCEPT !.session = NoClaimant,
                    !.link = IF \/ HasLiveForRoom(devices, room)
                                \/ PendingSeat(campaigns, room)
                             THEN "backoff" ELSE "stopped"]]
    /\ UNCHANGED <<counters, credentials, endpoint, admitted, gates>>

\* The backoff timer.
RelayRetry(room) ==
    /\ room \in DOMAIN campaigns /\ campaigns[room].link = "backoff"
    /\ campaigns' = [campaigns EXCEPT ![room].link = "connecting"]
    /\ UNCHANGED <<counters, credentials, endpoint, admitted, gates>>

\* A Gateway upgrade: an authorized room gets the seat, whose occupant is
\* thrown out; asking forgets an entry that has expired.
GateOpen(seat) ==
    LET room == seat[2]
    IN  /\ Authorized(room)
        /\ gates' = Put(gates, seat, NoClaimant)
        /\ admitted' = IF room \in DOMAIN admitted /\ admitted[room] < now
                       THEN Drop(admitted, {room}) ELSE admitted
        /\ UNCHANGED <<counters, credentials, endpoint, campaigns>>

GateClose(seat) ==
    /\ seat \in DOMAIN gates
    /\ gates' = Drop(gates, {seat})
    /\ UNCHANGED <<counters, credentials, endpoint, campaigns, admitted>>

-----------------------------------------------------------------------------
(***************************************************************************)
(* Handshakes on an open carrier of a room.                                *)
(***************************************************************************)

\* The carriers of a room: its campaign's open socket, its Gateway seats.
RelayCarrier(room) ==
    room \in DOMAIN campaigns /\ campaigns[room].link = "open"

\* hostHandshake with a code: a first claim, or a retry out of the claim.
ClaimCode(claimant, code, room) ==
    /\ issued < MaxTokens
    /\ Claimable(offers, code, room, now)
    /\ MayIssueOrUpdate(devices, claimant)
    /\ issued' = issued + 1
    /\ devices' = IssueOrUpdate(devices, issued', claimant, room, 0)
    /\ offers' = Claim(offers, code, claimant, issued')
    /\ abandoned' = abandoned \cup
          {r \in {devices[d].room : d \in LiveOf(devices, claimant)} :
              ~HasLiveForRoom(devices', r)}

RetryCode(claimant, code, room) ==
    /\ Retryable(offers, code, claimant, room, now)
    /\ UNCHANGED credentials

\* A code opens a session on the carrier it came in on, and nothing else: the
\* room the Client Instance was in before is not looked at.
RelayByCode(claimant, code, room) ==
    /\ RelayCarrier(room)
    /\ ClaimCode(claimant, code, room) \/ RetryCode(claimant, code, room)
    /\ campaigns' = [campaigns EXCEPT ![room].session = claimant]
    /\ UNCHANGED <<counters, endpoint, admitted, gates>>

GateByCode(claimant, code, seat) ==
    /\ seat \in DOMAIN gates
    /\ ClaimCode(claimant, code, seat[2]) \/ RetryCode(claimant, code, seat[2])
    /\ gates' = [gates EXCEPT ![seat] = claimant]
    /\ UNCHANGED <<counters, endpoint, campaigns, admitted>>

\* authenticate() moves the record to the room of the carrier.
AdmitToken(claimant, d, room) ==
    /\ MayAuthenticate(devices, d, devices[d].token, claimant)
    /\ devices' = Authenticate(devices, d, claimant, room, 0)
    /\ UNCHANGED <<offers, issued, abandoned>>

\* Mutant: the room the device came from is not left.
LeftNone(d, room) == {}

\* followDeviceRoom(), called when the record came from another room: leave
\* that room if no live device is left in it, and secure the new one.
Left(d, room) ==
    {r \in {devices[d].room} : r # room /\ ~HasLiveForRoom(devices', r)}

Followed(cs, d, room) ==
    IF mode = "relay" /\ devices[d].room # room
    THEN EnsureRelayRoom(CloseCampaigns(cs, Left(d, room)), room, 0, relayUrl)
    ELSE CloseCampaigns(cs, Left(d, room))

Secured(d, room) ==
    LET left == Left(d, room)
        expired == [r \in DOMAIN admitted \cup left |->
                       IF r \in left THEN now - 1 ELSE admitted[r]]
    IN  IF mode # "relay" /\ devices[d].room # room
        THEN Put(expired, room, Forever) ELSE expired

GatesLeft(d, room) == UNION {SeatsOf(r) : r \in Left(d, room)}

\* The session is adopted after the callback: if that replaced the very
\* campaign the hello came in on, the session starts on a closed carrier.
RelayByToken(claimant, d, room) ==
    /\ RelayCarrier(room)
    /\ AdmitToken(claimant, d, room)
    /\ LET cs == Followed(campaigns, d, room)
       IN  campaigns' = IF cs[room] = campaigns[room]
                        THEN [cs EXCEPT ![room].session = claimant] ELSE cs
    /\ admitted' = Secured(d, room)
    /\ gates' = Drop(gates, GatesLeft(d, room))
    /\ UNCHANGED <<counters, endpoint>>

GateByToken(claimant, d, seat) ==
    /\ seat \in DOMAIN gates
    /\ AdmitToken(claimant, d, seat[2])
    /\ campaigns' = Followed(campaigns, d, seat[2])
    /\ admitted' = Secured(d, seat[2])
    /\ gates' = [Drop(gates, GatesLeft(d, seat[2])) EXCEPT ![seat] = claimant]
    /\ UNCHANGED <<counters, endpoint>>

-----------------------------------------------------------------------------
Requests ==
    \/ \E room \in 1..(rooms + 1) : Pair(room)
    \/ \E d \in DOMAIN devices : Revoke(d)
    \/ \E newMode \in {"relay", "custom"}, url \in RelayUrls :
          SaveEndpoint(newMode, url)
    \/ Reload

Sockets ==
    \/ \E room \in 1..rooms :
          RelayOpen(room) \/ RelayClose(room) \/ RelayRetry(room)
    \/ \E seat \in SeatKinds \X (1..rooms) : GateOpen(seat) \/ GateClose(seat)

Handshakes ==
    \E claimant \in Claimants :
        \/ \E code \in 1..minted, room \in 1..rooms :
              RelayByCode(claimant, code, room)
        \/ \E code \in 1..minted, seat \in SeatKinds \X (1..rooms) :
              GateByCode(claimant, code, seat)
        \/ \E d \in DOMAIN devices, room \in 1..rooms :
              RelayByToken(claimant, d, room)
        \/ \E d \in DOMAIN devices, seat \in SeatKinds \X (1..rooms) :
              GateByToken(claimant, d, seat)

Next == Tick \/ Reseat \/ Requests \/ Sockets \/ Handshakes

Spec == Init /\ [][Next]_vars

\* setInterval runs the reseat for as long as the plugin is applied.
FairSpec == Spec /\ WF_vars(Reseat)

-----------------------------------------------------------------------------
IsFunctionOn(f, D, S) == DOMAIN f \subseteq D /\ \A x \in DOMAIN f : f[x] \in S

\* The variables have their types; campaigns exist in relay mode only.
TypeOK ==
    /\ mode \in {"relay", "custom"} /\ relayUrl \in RelayUrls
    /\ IsFunctionOn(offers, 1..minted, Offer)
    /\ IsFunctionOn(devices, 1..issued, Row)
    /\ IsFunctionOn(campaigns, 1..rooms, Campaign)
    /\ IsFunctionOn(admitted, 1..rooms, (-1)..Forever)
    /\ IsFunctionOn(gates, SeatKinds \X (1..rooms), Claimants \cup {NoClaimant})
    /\ abandoned \subseteq 1..rooms
    /\ mode = "custom" => DOMAIN campaigns = {}

\* Someone is, or may still become, entitled to the room.
Offered(room) == \E c \in DOMAIN offers :
                    offers[c].room = room /\ now <= offers[c].expMs

\* The Host serves no session and admits nobody in a room that has neither a
\* live device nor an offer still in its window: whichever way the devices of
\* a room went, by revocation or by following a token to another room, in
\* either mode and with a mode change in between, the room was closed behind
\* them.  The one way that leaves a room behind is a new pairing of its
\* device.  (handleRevoke, followDeviceRoom; index.ts:129-147, 337-350.)
RoomsAccounted ==
    \A room \in (1..rooms) \ abandoned : ~HasLiveForRoom(devices, room) =>
        /\ Authorized(room) => Offered(room)
        /\ \A seat \in SeatsOf(room) : gates[seat] = NoClaimant
        /\ room \in DOMAIN campaigns => campaigns[room].session = NoClaimant

\* While an unclaimed QR is in its window, neither the reseat timer nor
\* anything that happens to the sockets takes the Host out of the room the QR
\* names.  The one exception is a room that has a live device and is still
\* served at a relay that the user has since replaced: there the device comes
\* first, and the reseat moves the Host to the new relay.
\* (relay-campaign.ts:10-20, index.ts:188-204.)
PendingQrKeepsSeat ==
    [][Reseat \/ Sockets \/ Tick =>
         \A room \in DOMAIN campaigns :
            /\ PendingSeat(campaigns, room) /\ Active(campaigns[room])
            /\ now' <= offers[campaigns[room].code].expMs
            /\ HasLiveForRoom(devices, room) => campaigns[room].url = relayUrl
            => /\ room \in DOMAIN campaigns'
               /\ campaigns'[room].code = campaigns[room].code
               /\ Active(campaigns'[room])]_vars

\* In relay mode the Host comes to sit in the room of every live device, at
\* the relay now configured, whatever made the campaign stop or miss; and a
\* campaign of a room that has neither a live device nor a pending offer is
\* closed, with the session it may serve.  (index.ts:188-204.)
SeatsFollowDevices ==
    \A room \in 1..MaxCodes :
        /\ (mode = "relay" /\ room \in LiveRooms(devices))
              ~> \/ mode # "relay" \/ room \notin LiveRooms(devices)
                 \/ Reusable(campaigns, room, relayUrl)
        /\ (room \in DOMAIN campaigns /\ ~HasLiveForRoom(devices, room))
              ~> \/ room \notin DOMAIN campaigns
                 \/ HasLiveForRoom(devices, room)
                 \/ PendingSeat(campaigns, room)

\* A Gateway session of a revoked device is closed, unless its room is also
\* that of a live device.  The code breaks this: a re-pairing moves the record
\* to another room and leaves the old one open, so the revocation closes the
\* wrong room.  (test/relay-campaign.test.mjs:197.)
RevokeClosesGatewaySession ==
    \A seat \in DOMAIN gates :
        gates[seat] # NoClaimant /\ LiveOf(devices, gates[seat]) = {}
            => HasLiveForRoom(devices, seat[2])
=============================================================================
