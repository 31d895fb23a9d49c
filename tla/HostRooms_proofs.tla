--------------------------- MODULE HostRooms_proofs -------------------------
(***************************************************************************)
(* RoomsAccounted of HostRooms, for any number of phones, codes, tokens,   *)
(* relays, endpoint changes and clock ticks.  It is not inductive: what    *)
(* keeps a room that has no live device without a session is that no code  *)
(* of it that was claimed, and would be taken for a retry, can come in on  *)
(* a carrier any more; and what keeps an entry of the Gateway from lasting *)
(* longer than the offer is that nothing but the mint of that offer wrote  *)
(* it.                                                                     *)
(***************************************************************************)
EXTENDS HostRooms, WellFoundedInduction, TLAPS

\* The types, and that the rooms named by rows and offers were drawn.
Typed ==
    /\ now \in 0..MaxClock
    /\ minted \in Nat /\ issued \in Nat /\ rooms \in Nat
    /\ TypeOK
    /\ \A d \in DOMAIN devices : devices[d].room \in 1..rooms
    /\ \A c \in DOMAIN offers : offers[c].room \in 1..rooms

\* A phone in the room finds the Host there, or is let in by the Gateway.
Reachable(room) ==
    room \in DOMAIN campaigns \/ SeatsOf(room) # {} \/ Authorized(room)

\* An entry that still holds goes back to an offer that lasts as long.
EntryIsOffered(room) ==
    room \in DOMAIN admitted /\ admitted[room] >= now =>
        \E c \in DOMAIN offers :
            offers[c].room = room /\ admitted[room] <= offers[c].expMs

Unserved(room) ==
    /\ \A seat \in SeatsOf(room) : gates[seat] = NoClaimant
    /\ room \in DOMAIN campaigns => campaigns[room].session = NoClaimant

Unclaimed(room) ==
    \A c \in DOMAIN offers :
        offers[c].room = room => offers[c].claimant = NoClaimant

\* What holds of a room without a live device.
Idle(room) ==
    /\ EntryIsOffered(room)
    /\ Unserved(room)
    /\ Reachable(room) => Unclaimed(room)

RoomsIdle ==
    \A room \in (1..rooms) \ abandoned :
        ~HasLiveForRoom(devices, room) => Idle(room)

-----------------------------------------------------------------------------
(***************************************************************************)
(* The operators of the store.                                             *)
(***************************************************************************)

\* Every non-empty set of natural numbers has a least element.
LEMMA LeastExists ==
    ASSUME NEW S, S \subseteq Nat, S # {}
    PROVE  \E m \in S : \A k \in S : m <= k
<1> DEFINE R == OpToRel(<, Nat)
<1>1. IsWellFoundedOn(R, Nat)
  BY NatLessThanWellFounded
<1>2. \A x, y \in Nat : x < y => <<x, y>> \in R
  BY DEF OpToRel
<1> HIDE DEF R
<1>3. PICK m \in S : \A k \in S : ~(<<k, m>> \in R)
  BY <1>1, WFMin
<1>4. \A k \in S : ~(k < m)
  BY <1>2, <1>3
<1> QED
  BY <1>4

\* First picks a member of a non-empty set of rows.
LEMMA FirstIsMember ==
    ASSUME NEW ds, NEW S, S # {}, \A d \in S : ds[d].pos \in Nat
    PROVE  First(ds, S) \in S
<1> DEFINE P == {ds[d].pos : d \in S}
<1>1. PICK m \in P : \A k \in P : m <= k
  <2>1. P \subseteq Nat /\ P # {}
    OBVIOUS
  <2> QED
    BY <2>1, LeastExists
<1>2. \E d \in S : \A e \in S : ds[d].pos <= ds[e].pos
  BY <1>1
<1> QED
  BY <1>2 DEF First

Rows(ds, n, m) ==
    IsFunctionOn(ds, 1..n, Row) /\ \A d \in DOMAIN ds : ds[d].room \in 1..m

\* issueOrUpdate() writes one row, live and in the room; a room that loses its
\* last live row by it was a room of the same Client Instance.
LEMMA IssueOrUpdateMoves ==
    ASSUME NEW ds, NEW n \in Nat, NEW m \in Nat, Rows(ds, n, m),
           NEW c \in Claimants, NEW room \in 1..m
    PROVE  LET new == IssueOrUpdate(ds, n + 1, c, room, 0)
           IN  /\ Rows(new, n + 1, m)
               /\ HasLiveForRoom(new, room)
               /\ \A r : HasLiveForRoom(ds, r) =>
                     \/ HasLiveForRoom(new, r)
                     \/ r \in {ds[d].room : d \in LiveOf(ds, c)}
<1> DEFINE new == IssueOrUpdate(ds, n + 1, c, room, 0)
<1>1. \E f \in 1..(n + 1) :
         /\ DOMAIN new = DOMAIN ds \cup {f}
         /\ \A d \in DOMAIN ds : d # f => new[d] = ds[d]
         /\ new[f] \in Row /\ new[f].room = room /\ new[f].live
         /\ f \in DOMAIN ds => f \in LiveOf(ds, c)
  <2>1. CASE LiveOf(ds, c) = {}
    <3>1. new = Issue(ds, n + 1, c, room, 0)
      BY <2>1 DEF IssueOrUpdate
    <3> HIDE DEF new
    <3>2. /\ DOMAIN new = DOMAIN ds \cup {n + 1}
          /\ \A d \in DOMAIN ds : d # n + 1 => new[d] = ds[d]
          /\ new[n + 1] = [token |-> n + 1, claimant |-> c, room |-> room,
                           live |-> TRUE, lastSeenAt |-> 0, pos |-> n + 1]
      BY <3>1 DEF Issue
    <3>3. /\ new[n + 1] \in Row /\ new[n + 1].room = room /\ new[n + 1].live
          /\ n + 1 \notin DOMAIN ds
      BY <3>2 DEF Row, Rows, IsFunctionOn
    <3> QED
      BY <3>2, <3>3
  <2>2. CASE LiveOf(ds, c) # {}
    <3>1. PICK f : f = First(ds, LiveOf(ds, c))
      OBVIOUS
    <3>2. f \in LiveOf(ds, c)
      <4>1. \A d \in LiveOf(ds, c) : ds[d].pos \in Nat
        BY DEF LiveOf, Live, Rows, IsFunctionOn, Row
      <4> QED
        BY <2>2, <3>1, <4>1, FirstIsMember
    <3>3. f \in DOMAIN ds /\ f \in 1..n /\ ds[f] \in Row /\ ds[f].live
      BY <3>2 DEF LiveOf, Live, Rows, IsFunctionOn
    <3>4. PICK row : row = [ds[f] EXCEPT !.token = n + 1, !.room = room,
                                         !.lastSeenAt = 0]
      OBVIOUS
    <3>5. row \in Row /\ row.room = room /\ row.live
      <4>1. n + 1 \in Nat /\ room \in Nat
        OBVIOUS
      <4> QED
        BY <3>3, <3>4, <4>1 DEF Row
    <3>6. new = [ds EXCEPT ![f] = row]
      BY <2>2, <3>1, <3>4 DEF IssueOrUpdate
    <3> HIDE DEF new
    <3>7. /\ DOMAIN new = DOMAIN ds \cup {f}
          /\ \A d \in DOMAIN ds : d # f => new[d] = ds[d]
          /\ new[f] = row
      BY <3>3, <3>6
    <3> QED
      BY <3>2, <3>3, <3>5, <3>7
  <2> QED
    BY <2>1, <2>2
<1> HIDE DEF new
<1>2. PICK f \in 1..(n + 1) :
         /\ DOMAIN new = DOMAIN ds \cup {f}
         /\ \A d \in DOMAIN ds : d # f => new[d] = ds[d]
         /\ new[f] \in Row /\ new[f].room = room /\ new[f].live
         /\ f \in DOMAIN ds => f \in LiveOf(ds, c)
  BY <1>1
<1>3. Rows(new, n + 1, m)
  BY <1>2 DEF Rows, IsFunctionOn
<1>4. HasLiveForRoom(new, room)
  BY <1>2 DEF HasLiveForRoom, Live
<1>5. ASSUME NEW r, HasLiveForRoom(ds, r), ~HasLiveForRoom(new, r)
      PROVE  r \in {ds[d].room : d \in LiveOf(ds, c)}
  <2>1. PICK d \in Live(ds) : ds[d].room = r
    BY <1>5 DEF HasLiveForRoom
  <2>2. d = f
    BY <1>2, <1>5, <2>1 DEF HasLiveForRoom, Live
  <2> QED
    BY <1>2, <2>1, <2>2 DEF Live
<1> QED
  BY <1>3, <1>4, <1>5 DEF new

\* authenticate() moves one live row to the room: only the room it came from
\* can lose its last live row by it.
LEMMA AuthenticateMoves ==
    ASSUME NEW ds, NEW n \in Nat, NEW m \in Nat, Rows(ds, n, m),
           NEW c \in Claimants, NEW room \in 1..m, NEW d \in Live(ds)
    PROVE  LET new == Authenticate(ds, d, c, room, 0)
           IN  /\ Rows(new, n, m)
               /\ HasLiveForRoom(new, room)
               /\ \A r : HasLiveForRoom(ds, r) =>
                            HasLiveForRoom(new, r) \/ r = ds[d].room
<1>1. PICK new : new = Authenticate(ds, d, c, room, 0)
  OBVIOUS
<1>2. d \in DOMAIN ds /\ ds[d] \in Row /\ ds[d].live
  BY DEF Live, Rows, IsFunctionOn
<1>3. PICK row : row = [ds[d] EXCEPT !.claimant = c, !.room = room, !.lastSeenAt = 0]
  OBVIOUS
<1>4. row \in Row /\ row.room = room /\ row.live
  <2>1. room \in Nat /\ c \in Claimants \cup {NoClaimant}
    OBVIOUS
  <2> QED
    BY <1>2, <1>3, <2>1 DEF Row
<1>5. /\ DOMAIN new = DOMAIN ds
      /\ \A e \in DOMAIN ds : e # d => new[e] = ds[e]
      /\ new[d] = row
  BY <1>1, <1>2, <1>3 DEF Authenticate
<1>6. Rows(new, n, m)
  BY <1>4, <1>5 DEF Rows, IsFunctionOn
<1>7. HasLiveForRoom(new, room)
  BY <1>2, <1>4, <1>5 DEF HasLiveForRoom, Live
<1>8. \A r : HasLiveForRoom(ds, r) => HasLiveForRoom(new, r) \/ r = ds[d].room
  BY <1>5 DEF HasLiveForRoom, Live
<1> QED
  BY <1>1, <1>6, <1>7, <1>8

\* revoke() takes one row out.
LEMMA RevokeMoves ==
    ASSUME NEW ds, NEW n \in Nat, NEW m \in Nat, Rows(ds, n, m), NEW d \in Live(ds)
    PROVE  /\ Rows(RevokeRow(ds, d), n, m)
           /\ \A r : HasLiveForRoom(ds, r) =>
                        HasLiveForRoom(RevokeRow(ds, d), r) \/ r = ds[d].room
<1>1. PICK new : new = RevokeRow(ds, d)
  OBVIOUS
<1>2. d \in DOMAIN ds /\ ds[d] \in Row
  BY DEF Live, Rows, IsFunctionOn
<1>3. /\ DOMAIN new = DOMAIN ds
      /\ \A e \in DOMAIN ds : e # d => new[e] = ds[e]
      /\ new[d] = [ds[d] EXCEPT !.live = FALSE]
  BY <1>1, <1>2 DEF RevokeRow
<1>4. new[d] \in Row /\ new[d].room = ds[d].room
  BY <1>2, <1>3 DEF Row
<1>5. Rows(new, n, m)
  BY <1>3, <1>4 DEF Rows, IsFunctionOn
<1>6. \A r : HasLiveForRoom(ds, r) => HasLiveForRoom(new, r) \/ r = ds[d].room
  BY <1>3 DEF HasLiveForRoom, Live
<1> QED
  BY <1>1, <1>5, <1>6

-----------------------------------------------------------------------------
(***************************************************************************)
(* The partial functions, and the helpers of apply() on them.              *)
(***************************************************************************)
LEMMA BoundsAreNat == /\ MaxClock \in Nat /\ TtlMs \in Nat
                      /\ Forever \in Nat /\ MaxClock + TtlMs < Forever
BY RoomBoundsAssumption, TtlAssumption DEF Forever

LEMMA PutOn ==
    ASSUME NEW f, NEW D, NEW S, IsFunctionOn(f, D, S), NEW x \in D, NEW y \in S
    PROVE  IsFunctionOn(Put(f, x, y), D, S)
BY DEF IsFunctionOn, Put

LEMMA DropOn ==
    ASSUME NEW f, NEW D, NEW S, IsFunctionOn(f, D, S), NEW R
    PROVE  IsFunctionOn(Drop(f, R), D, S)
BY DEF IsFunctionOn, Drop

LEMMA ExceptOn ==
    ASSUME NEW f, NEW D, NEW S, IsFunctionOn(f, D, S), NEW x, NEW y \in S
    PROVE  IsFunctionOn([f EXCEPT ![x] = y], D, S)
BY DEF IsFunctionOn

LEMMA NewCampaignTyped ==
    ASSUME NEW url \in RelayUrls, NEW code \in Nat
    PROVE  /\ NewCampaign(url, code) \in Campaign
           /\ NewCampaign(url, code).session = NoClaimant
BY DEF NewCampaign, Campaign, Link

LEMMA EnsureOn ==
    ASSUME NEW cs, NEW D, IsFunctionOn(cs, D, Campaign), NEW room \in D,
           NEW code \in Nat, NEW url \in RelayUrls
    PROVE  LET new == EnsureRelayRoom(cs, room, code, url)
           IN  /\ IsFunctionOn(new, D, Campaign)
               /\ DOMAIN new = DOMAIN cs \cup {room}
               /\ \A r \in DOMAIN cs : r # room => new[r] = cs[r]
<1>1. CASE code = 0 /\ Reusable(cs, room, url)
  BY <1>1 DEF EnsureRelayRoom, Reusable
<1>2. CASE ~(code = 0 /\ Reusable(cs, room, url))
  <2>1. PICK campaign : campaign = NewCampaign(url, code)
    OBVIOUS
  <2>2. EnsureRelayRoom(cs, room, code, url) = Put(cs, room, campaign)
    BY <1>2, <2>1 DEF EnsureRelayRoom
  <2>3. campaign \in Campaign
    BY <2>1, NewCampaignTyped
  <2> QED
    BY <2>2, <2>3, PutOn DEF Put
<1> QED
  BY <1>1, <1>2

\* A reseat takes a seat for live rooms only, and gives none up that it keeps.
LEMMA RestartOn ==
    ASSUME Typed, NEW url \in RelayUrls
    PROVE  LET new == RestartRelayRooms(campaigns, url)
           IN  /\ IsFunctionOn(new, 1..rooms, Campaign)
               /\ \A r \in DOMAIN new : ~HasLiveForRoom(devices, r) =>
                     r \in DOMAIN campaigns /\ new[r] = campaigns[r]
<1>1. LiveRooms(devices) \subseteq 1..rooms
  BY DEF Typed, LiveRooms, Live
<1>2. \A r \in LiveRooms(devices) : HasLiveForRoom(devices, r)
  BY DEF LiveRooms, HasLiveForRoom
<1>3. NewCampaign(url, 0) \in Campaign
  BY NewCampaignTyped
<1>4. IsFunctionOn(campaigns, 1..rooms, Campaign)
  BY DEF Typed, TypeOK
<1>5. PICK new : new = RestartRelayRooms(campaigns, url)
  OBVIOUS
<1>6. /\ DOMAIN new \subseteq DOMAIN campaigns \cup LiveRooms(devices)
      /\ \A r \in DOMAIN new :
            \/ r \in DOMAIN campaigns /\ new[r] = campaigns[r]
            \/ r \in LiveRooms(devices) /\ new[r] = NewCampaign(url, 0)
  BY <1>5 DEF RestartRelayRooms
<1>7. IsFunctionOn(new, 1..rooms, Campaign)
  BY <1>1, <1>3, <1>4, <1>6 DEF IsFunctionOn
<1> QED
  BY <1>2, <1>5, <1>6, <1>7

\* A mint drops no offer that may still be claimed, and adds an unclaimed one.
LEMMA StoreOffers ==
    ASSUME NEW n \in Nat, NEW m \in Nat, NEW room \in Nat, NEW t \in Nat,
           IsFunctionOn(offers, 1..n, Offer)
    PROVE  LET new == Store(offers, n + 1, room, t)
           IN  /\ IsFunctionOn(new, 1..(n + 1), Offer)
               /\ n + 1 \in DOMAIN new /\ new[n + 1].room = room
               /\ new[n + 1].expMs = t + TtlMs /\ new[n + 1].claimant = NoClaimant
               /\ \A c \in DOMAIN new : c # n + 1 => c \in DOMAIN offers /\ new[c] = offers[c]
               /\ \A c \in DOMAIN offers : t <= offers[c].expMs =>
                     c \in DOMAIN new /\ new[c] = offers[c]
<1>1. PICK offer : offer = [expMs |-> t + TtlMs, room |-> room,
                            claimant |-> NoClaimant, token |-> 0]
  OBVIOUS
<1>2. /\ offer \in Offer /\ offer.room = room
      /\ offer.expMs = t + TtlMs /\ offer.claimant = NoClaimant
  BY <1>1, BoundsAreNat DEF Offer
<1>3. PICK new : new = Store(offers, n + 1, room, t)
  OBVIOUS
<1>4. /\ DOMAIN new = {c \in DOMAIN offers : t <= offers[c].expMs} \cup {n + 1}
      /\ new[n + 1] = offer
      /\ \A c \in DOMAIN new : c # n + 1 => new[c] = offers[c]
  BY <1>1, <1>3 DEF Store, Prune
<1>5. n + 1 \notin DOMAIN offers
  BY DEF IsFunctionOn
<1>6. IsFunctionOn(new, 1..(n + 1), Offer)
  BY <1>2, <1>4 DEF IsFunctionOn
<1> QED
  BY <1>2, <1>3, <1>4, <1>5, <1>6

-----------------------------------------------------------------------------
(***************************************************************************)
(* How a room stays idle.                                                  *)
(***************************************************************************)

\* Nothing opens in the room while time stands still and no code is minted or
\* claimed.
LEMMA QuietRoom ==
    ASSUME NEW room, Idle(room), UNCHANGED <<now, offers>>,
           ~HasLiveForRoom(devices', room),
           room \in DOMAIN admitted' =>
               \/ room \in DOMAIN admitted /\ admitted'[room] = admitted[room]
               \/ ~(admitted'[room] >= now),
           room \in DOMAIN campaigns' =>
               /\ room \in DOMAIN campaigns
               /\ campaigns'[room].session \in {NoClaimant, campaigns[room].session},
           \A seat \in SeatsOf(room)' : gates'[seat] = NoClaimant,
           SeatsOf(room)' # {} => Reachable(room)
    PROVE  Idle(room)'
<1>1. EntryIsOffered(room)'
  BY DEF Idle, EntryIsOffered
<1>2. Unserved(room)'
  BY DEF Idle, Unserved
<1>3. Reachable(room)' => Reachable(room)
  BY DEF Reachable, Authorized
<1>4. Unclaimed(room) => Unclaimed(room)'
  BY DEF Unclaimed
<1> QED
  BY <1>1, <1>2, <1>3, <1>4 DEF Idle

\* A room that was closed is idle.
LEMMA ClosedRoom ==
    ASSUME NEW room, ~HasLiveForRoom(devices', room),
           room \notin DOMAIN campaigns', SeatsOf(room)' = {},
           room \in DOMAIN admitted' => ~(admitted'[room] >= now')
    PROVE  Idle(room)'
BY DEF Idle, EntryIsOffered, Unserved, Reachable, Authorized

\* Devices and abandoned rooms as they are: only what happens in each room
\* counts.
LEMMA QuietRooms ==
    ASSUME RoomsIdle, UNCHANGED <<now, offers, devices, abandoned, rooms>>,
           \A room \in 1..rooms : ~HasLiveForRoom(devices, room) =>
               /\ room \in DOMAIN admitted' =>
                     \/ room \in DOMAIN admitted /\ admitted'[room] = admitted[room]
                     \/ ~(admitted'[room] >= now)
               /\ room \in DOMAIN campaigns' =>
                     /\ room \in DOMAIN campaigns
                     /\ campaigns'[room].session \in {NoClaimant, campaigns[room].session}
               /\ \A seat \in SeatsOf(room)' :
                     \/ gates'[seat] = NoClaimant
                     \/ seat \in SeatsOf(room) /\ gates'[seat] = gates[seat]
               /\ SeatsOf(room)' # {} => Reachable(room)
    PROVE  RoomsIdle'
<1> SUFFICES ASSUME NEW room \in (1..rooms) \ abandoned, ~HasLiveForRoom(devices, room)
             PROVE  Idle(room)'
  BY DEF RoomsIdle
<1>1. Idle(room)
  BY DEF RoomsIdle
<1>2. \A seat \in SeatsOf(room)' : gates'[seat] = NoClaimant
  BY <1>1 DEF Idle, Unserved
<1> QED
  BY <1>1, <1>2, QuietRoom

-----------------------------------------------------------------------------
(***************************************************************************)
(* The steps.                                                              *)
(***************************************************************************)
LEMMA InitRooms == Init => Typed /\ RoomsIdle
<1> SUFFICES ASSUME Init PROVE Typed /\ RoomsIdle
  OBVIOUS
<1>1. Typed
  BY BoundsAreNat, RelayAssumption
  DEF Init, Typed, TypeOK, IsFunctionOn, Empty, EmptyOffers
<1>2. RoomsIdle
  BY DEF Init, RoomsIdle
<1> QED
  BY <1>1, <1>2

\* The clock only lets entries and offers run out.
LEMMA TickRooms == ASSUME Typed, RoomsIdle, Tick PROVE Typed' /\ RoomsIdle'
<1>1. /\ now \in Int /\ now' = now + 1 /\ now' \in 0..MaxClock
      /\ UNCHANGED <<minted, rooms, offers, devices, issued, abandoned, saves,
                     mode, relayUrl, campaigns, admitted, gates>>
  BY BoundsAreNat DEF Tick, Typed, credentials, endpoint
<1>2. Typed'
  BY <1>1 DEF Typed, TypeOK
<1>3. ASSUME NEW room \in (1..rooms) \ abandoned, ~HasLiveForRoom(devices, room)
      PROVE  Idle(room)'
  <2>1. Idle(room)
    BY <1>3 DEF RoomsIdle
  <2>2. room \in DOMAIN admitted => admitted[room] \in Int
    BY BoundsAreNat DEF Typed, TypeOK, IsFunctionOn
  <2>3. admitted[room] \in Int /\ admitted[room] >= now' => admitted[room] >= now
    BY <1>1
  <2>4. EntryIsOffered(room)'
    BY <1>1, <2>1, <2>2, <2>3 DEF Idle, EntryIsOffered
  <2>5. Reachable(room)' => Reachable(room)
    BY <1>1, <1>3, <2>2, <2>3 DEF Reachable, Authorized, SeatsOf
  <2>6. Unserved(room)' /\ (Unclaimed(room) => Unclaimed(room)')
    BY <1>1, <2>1 DEF Idle, Unserved, SeatsOf, Unclaimed
  <2> QED
    BY <2>1, <2>4, <2>5, <2>6 DEF Idle
<1> QED
  BY <1>1, <1>2, <1>3 DEF RoomsIdle

\* A mint makes the room reachable with an unclaimed offer: it is a new room,
\* in which nothing was claimed, or has a live device.
LEMMA PairRooms ==
    ASSUME Typed, RoomsIdle, NEW room \in 1..(rooms + 1), Pair(room)
    PROVE  Typed' /\ RoomsIdle'
<1>1. /\ minted \in Nat /\ rooms \in Nat /\ now \in Nat /\ room \in Nat
      /\ minted' = minted + 1 /\ rooms' \in Nat
      /\ rooms' = IF room = rooms + 1 THEN room ELSE rooms
      /\ room \in 1..rooms' /\ 1..rooms \subseteq 1..rooms'
      /\ offers' = Store(offers, minted + 1, room, now)
      /\ UNCHANGED <<now, devices, issued, mode, relayUrl, gates, abandoned>>
  BY BoundsAreNat DEF Typed, Pair, endpoint
<1>2. IsFunctionOn(offers, 1..minted, Offer)
  BY DEF Typed, TypeOK
<1>3. /\ IsFunctionOn(offers', 1..minted', Offer)
      /\ minted + 1 \in DOMAIN offers' /\ offers'[minted + 1].room = room
      /\ offers'[minted + 1].expMs = now + TtlMs
      /\ offers'[minted + 1].claimant = NoClaimant
      /\ \A c \in DOMAIN offers' :
            c # minted + 1 => c \in DOMAIN offers /\ offers'[c] = offers[c]
      /\ \A c \in DOMAIN offers : now <= offers[c].expMs =>
            c \in DOMAIN offers' /\ offers'[c] = offers[c]
  BY <1>1, <1>2, StoreOffers
<1>4. /\ IsFunctionOn(campaigns, 1..rooms', Campaign)
      /\ IsFunctionOn(admitted, 1..rooms', (-1)..Forever)
      /\ IsFunctionOn(gates', SeatKinds \X (1..rooms'), Claimants \cup {NoClaimant})
  BY <1>1 DEF Typed, TypeOK, IsFunctionOn
<1>5. /\ IsFunctionOn(campaigns', 1..rooms', Campaign)
      /\ IsFunctionOn(admitted', 1..rooms', (-1)..Forever)
      /\ mode = "custom" => DOMAIN campaigns' = {}
      /\ \A r : r # room =>
            /\ r \in DOMAIN campaigns' =>
                  r \in DOMAIN campaigns /\ campaigns'[r] = campaigns[r]
            /\ r \in DOMAIN admitted' =>
                  r \in DOMAIN admitted /\ admitted'[r] = admitted[r]
      /\ room \in DOMAIN campaigns' =>
            campaigns'[room].session = NoClaimant \/ room \in DOMAIN campaigns
      /\ room \in DOMAIN admitted' =>
            admitted'[room] <= now + TtlMs \/ room \in DOMAIN admitted
  <2>1. CASE mode = "relay"
    <3>1. /\ campaigns' = EnsureRelayRoom(campaigns, room, minted', relayUrl)
          /\ admitted' = admitted /\ relayUrl \in RelayUrls
          /\ minted' \in Nat /\ minted' # 0
      BY <1>1, <2>1 DEF Pair, Typed, TypeOK
    <3>2. campaigns' = Put(campaigns, room, NewCampaign(relayUrl, minted'))
      BY <3>1 DEF EnsureRelayRoom
    <3>3. PICK campaign : campaign = NewCampaign(relayUrl, minted')
      OBVIOUS
    <3>4. campaign \in Campaign /\ campaign.session = NoClaimant
      BY <3>1, <3>3, NewCampaignTyped
    <3>5. IsFunctionOn(campaigns', 1..rooms', Campaign)
      BY <1>1, <1>4, <3>2, <3>3, <3>4, PutOn
    <3> QED
      BY <1>4, <2>1, <3>1, <3>2, <3>3, <3>4, <3>5 DEF Put
  <2>2. CASE mode # "relay"
    <3>1. /\ campaigns' = campaigns
          /\ admitted' = Put(admitted, room, now + TtlMs)
          /\ mode = "custom" => DOMAIN campaigns = {}
      BY <2>2 DEF Pair, Typed, TypeOK
    <3>2. now + TtlMs \in (-1)..Forever
      BY BoundsAreNat DEF Typed
    <3>3. IsFunctionOn(admitted', 1..rooms', (-1)..Forever)
      BY <1>1, <1>4, <3>1, <3>2, PutOn
    <3>4. now + TtlMs <= now + TtlMs
      BY <1>1, BoundsAreNat
    <3> QED
      BY <1>4, <3>1, <3>3, <3>4 DEF Put
  <2> QED
    BY <2>1, <2>2
<1>6. /\ \A d \in DOMAIN devices : devices[d].room \in 1..rooms'
      /\ \A c \in DOMAIN offers' : offers'[c].room \in 1..rooms'
  BY <1>1, <1>3 DEF Typed
<1>7. Typed'
  <2>1. minted' \in Nat
    BY <1>1
  <2>2. abandoned \subseteq 1..rooms'
    BY <1>1 DEF Typed, TypeOK
  <2> QED
    BY <1>1, <1>3, <1>4, <1>5, <1>6, <2>1, <2>2 DEF Typed, TypeOK
<1>8. ASSUME NEW r \in (1..rooms') \ abandoned, ~HasLiveForRoom(devices, r), r # room
      PROVE  Idle(r)'
  <2>1. Idle(r)
    BY <1>1, <1>8 DEF RoomsIdle
  <2>2. EntryIsOffered(r)'
    <3> SUFFICES ASSUME r \in DOMAIN admitted', admitted'[r] >= now
                 PROVE  \E c \in DOMAIN offers' :
                           offers'[c].room = r /\ admitted'[r] <= offers'[c].expMs
      BY <1>1 DEF EntryIsOffered
    <3>1. r \in DOMAIN admitted /\ admitted'[r] = admitted[r] /\ admitted[r] \in Int
      BY <1>5, <1>8, BoundsAreNat DEF Typed, TypeOK, IsFunctionOn
    <3>2. PICK c \in DOMAIN offers :
              offers[c].room = r /\ admitted[r] <= offers[c].expMs
      BY <2>1, <3>1 DEF Idle, EntryIsOffered
    <3>3. offers[c].expMs \in Nat
      BY <1>2 DEF IsFunctionOn, Offer
    <3>4. now <= offers[c].expMs
      BY <1>1, <3>1, <3>2, <3>3
    <3> QED
      BY <1>3, <3>1, <3>2, <3>4
  <2>3. Unserved(r)'
    BY <1>1, <1>5, <1>8, <2>1 DEF Idle, Unserved, SeatsOf
  <2>4. Reachable(r)' => Reachable(r)
    BY <1>1, <1>5, <1>8 DEF Reachable, Authorized, SeatsOf
  <2>5. Unclaimed(r) => Unclaimed(r)'
    BY <1>3, <1>8 DEF Unclaimed
  <2> QED
    BY <2>1, <2>2, <2>3, <2>4, <2>5 DEF Idle
<1>9. ASSUME ~HasLiveForRoom(devices, room)
      PROVE  Idle(room)'
  <2>1. room = rooms + 1
    BY <1>9 DEF Pair, LiveRooms, HasLiveForRoom
  <2>2. /\ room \notin 1..rooms
        /\ room \notin DOMAIN campaigns /\ room \notin DOMAIN admitted
        /\ \A c \in DOMAIN offers : offers[c].room # room
    BY <1>1, <2>1 DEF Typed, TypeOK, IsFunctionOn
  <2>3. SeatsOf(room)' = {}
    BY <1>1, <2>2 DEF SeatsOf, Typed, TypeOK, IsFunctionOn
  <2>4. Unclaimed(room)'
    BY <1>3, <2>2 DEF Unclaimed
  <2>5. Unserved(room)'
    BY <1>5, <2>2, <2>3 DEF Unserved
  <2>6. EntryIsOffered(room)'
    BY <1>3, <1>5, <2>2 DEF EntryIsOffered
  <2> QED
    BY <2>4, <2>5, <2>6 DEF Idle
<1> QED
  BY <1>1, <1>7, <1>8, <1>9 DEF RoomsIdle

\* What only moves campaigns, entries and seats keeps the types if it keeps
\* theirs.
LEMMA QuietTyped ==
    ASSUME Typed, UNCHANGED <<now, minted, issued, rooms, offers, devices, abandoned>>,
           mode' \in {"relay", "custom"}, relayUrl' \in RelayUrls,
           IsFunctionOn(campaigns, 1..rooms, Campaign)',
           IsFunctionOn(admitted, 1..rooms, (-1)..Forever)',
           IsFunctionOn(gates, SeatKinds \X (1..rooms), Claimants \cup {NoClaimant})',
           mode' = "custom" => DOMAIN campaigns' = {}
    PROVE  Typed'
BY DEF Typed, TypeOK

\* A room whose last device is revoked is closed.
LEMMA RevokeRooms ==
    ASSUME Typed, RoomsIdle, NEW d \in DOMAIN devices, Revoke(d)
    PROVE  Typed' /\ RoomsIdle'
<1>1. PICK room : room = devices[d].room
  OBVIOUS
<1>2. /\ d \in Live(devices) /\ devices' = RevokeRow(devices, d)
      /\ room \in 1..rooms /\ now \in Nat /\ now \in 0..MaxClock
      /\ UNCHANGED <<now, minted, rooms, saves, offers, issued, mode, relayUrl, abandoned>>
      /\ \/ HasLiveForRoom(devices', room) /\ UNCHANGED <<campaigns, admitted, gates>>
         \/ /\ campaigns' = Drop(campaigns, {room})
            /\ gates' = Drop(gates, SeatsOf(room))
            /\ admitted' = Put(admitted, room, now - 1)
  BY <1>1 DEF Revoke, Typed, counters, endpoint, CloseCampaigns
<1>3. /\ Rows(devices', issued, rooms)
      /\ \A r : HasLiveForRoom(devices, r) => HasLiveForRoom(devices', r) \/ r = room
  BY <1>1, <1>2, RevokeMoves DEF Typed, TypeOK, Rows
<1>4. /\ IsFunctionOn(campaigns', 1..rooms, Campaign)
      /\ IsFunctionOn(admitted', 1..rooms, (-1)..Forever)
      /\ IsFunctionOn(gates', SeatKinds \X (1..rooms), Claimants \cup {NoClaimant})
      /\ mode = "custom" => DOMAIN campaigns' = {}
  <2>1. /\ IsFunctionOn(campaigns, 1..rooms, Campaign)
        /\ IsFunctionOn(admitted, 1..rooms, (-1)..Forever)
        /\ IsFunctionOn(gates, SeatKinds \X (1..rooms), Claimants \cup {NoClaimant})
        /\ mode = "custom" => DOMAIN campaigns = {}
    BY DEF Typed, TypeOK
  <2>2. now - 1 \in (-1)..Forever
    BY <1>2, BoundsAreNat
  <2>3. IsFunctionOn(Put(admitted, room, now - 1), 1..rooms, (-1)..Forever)
    BY <1>2, <2>1, <2>2, PutOn
  <2>4. /\ IsFunctionOn(Drop(campaigns, {room}), 1..rooms, Campaign)
        /\ DOMAIN campaigns = {} => DOMAIN Drop(campaigns, {room}) = {}
    BY <2>1, DropOn DEF Drop
  <2>5. IsFunctionOn(Drop(gates, SeatsOf(room)), SeatKinds \X (1..rooms),
                     Claimants \cup {NoClaimant})
    BY <2>1, DropOn
  <2> QED
    BY <1>2, <2>1, <2>3, <2>4, <2>5
<1>5. Typed'
  BY <1>2, <1>3, <1>4 DEF Typed, TypeOK, Rows
<1>6. ASSUME NEW r \in (1..rooms) \ abandoned, ~HasLiveForRoom(devices', r)
      PROVE  Idle(r)'
  <2>1. CASE r = room
    <3>1. /\ room \notin DOMAIN campaigns' /\ SeatsOf(room)' = {}
          /\ admitted'[room] = now - 1
      BY <1>2, <1>6, <2>1 DEF Drop, Put, SeatsOf
    <3>2. ~(now - 1 >= now)
      BY <1>2
    <3> QED
      BY <1>2, <1>6, <2>1, <3>1, <3>2, ClosedRoom
  <2>2. CASE r # room
    <3>1. Idle(r)
      BY <1>3, <1>6, <2>2 DEF RoomsIdle
    <3>2. /\ r \in DOMAIN admitted' =>
                r \in DOMAIN admitted /\ admitted'[r] = admitted[r]
          /\ r \in DOMAIN campaigns' =>
                r \in DOMAIN campaigns /\ campaigns'[r] = campaigns[r]
          /\ \A seat \in SeatsOf(r)' : seat \in SeatsOf(r) /\ gates'[seat] = gates[seat]
      BY <1>2, <2>2 DEF Drop, Put, SeatsOf
    <3>3. \A seat \in SeatsOf(r)' : gates'[seat] = NoClaimant
      BY <3>1, <3>2 DEF Idle, Unserved
    <3>4. SeatsOf(r)' # {} => Reachable(r)
      BY <3>2 DEF Reachable
    <3> QED
      BY <1>2, <1>6, <3>1, <3>2, <3>3, <3>4, QuietRoom
  <2> QED
    BY <2>1, <2>2
<1> QED
  BY <1>2, <1>5, <1>6 DEF RoomsIdle

\* An endpoint change closes campaigns and opens for live rooms only.
LEMMA SaveEndpointRooms ==
    ASSUME Typed, RoomsIdle, NEW newMode \in {"relay", "custom"},
           NEW url \in RelayUrls, SaveEndpoint(newMode, url)
    PROVE  Typed' /\ RoomsIdle'
<1>1. /\ mode' = newMode
      /\ UNCHANGED <<now, minted, rooms, offers, devices, issued, abandoned, gates>>
  BY DEF SaveEndpoint, credentials
<1>2. /\ IsFunctionOn(campaigns, 1..rooms, Campaign)
      /\ IsFunctionOn(admitted, 1..rooms, (-1)..Forever)
      /\ IsFunctionOn(gates, SeatKinds \X (1..rooms), Claimants \cup {NoClaimant})
      /\ relayUrl \in RelayUrls
  BY DEF Typed, TypeOK
<1>3. /\ relayUrl' \in RelayUrls
      /\ IsFunctionOn(campaigns', 1..rooms, Campaign)
      /\ newMode = "custom" => DOMAIN campaigns' = {}
      /\ \A r \in DOMAIN campaigns' : ~HasLiveForRoom(devices, r) =>
            r \in DOMAIN campaigns /\ campaigns'[r] = campaigns[r]
  <2>1. CASE newMode = "custom"
    <3>1. campaigns' = Drop(campaigns, DOMAIN campaigns) /\ relayUrl' = relayUrl
      BY <2>1 DEF SaveEndpoint, CloseRelayRooms, CloseCampaigns
    <3>2. DOMAIN campaigns' = {}
      BY <3>1 DEF Drop
    <3>3. IsFunctionOn(campaigns', 1..rooms, Campaign)
      BY <1>2, <3>1, DropOn
    <3> QED
      BY <1>2, <3>1, <3>2, <3>3
  <2>2. CASE newMode # "custom"
    <3>1. campaigns' = RestartRelayRooms(campaigns, url) /\ relayUrl' = url
      BY <2>2 DEF SaveEndpoint
    <3>2. PICK new : new = RestartRelayRooms(campaigns, url)
      OBVIOUS
    <3>3. /\ IsFunctionOn(new, 1..rooms, Campaign)
          /\ \A r \in DOMAIN new : ~HasLiveForRoom(devices, r) =>
                r \in DOMAIN campaigns /\ new[r] = campaigns[r]
      BY <3>2, RestartOn
    <3> QED
      BY <2>2, <3>1, <3>2, <3>3
  <2> QED
    BY <2>1, <2>2
<1>4. /\ IsFunctionOn(admitted', 1..rooms, (-1)..Forever)
      /\ \A r \in DOMAIN admitted' : ~HasLiveForRoom(devices, r) =>
            r \in DOMAIN admitted /\ admitted'[r] = admitted[r]
  <2>1. CASE newMode = "custom"
    <3>1. LiveRooms(devices) \subseteq 1..rooms
      BY DEF Typed, LiveRooms, Live
    <3>2. Forever \in (-1)..Forever
      BY BoundsAreNat
    <3>3. /\ DOMAIN admitted' = DOMAIN admitted \cup LiveRooms(devices)
          /\ \A r \in DOMAIN admitted' :
                \/ r \in LiveRooms(devices) /\ admitted'[r] = Forever
                \/ r \in DOMAIN admitted /\ admitted'[r] = admitted[r]
      BY <2>1 DEF SaveEndpoint, AuthorizeLive
    <3>4. \A r \in LiveRooms(devices) : HasLiveForRoom(devices, r)
      BY DEF LiveRooms, HasLiveForRoom
    <3> QED
      BY <1>2, <3>1, <3>2, <3>3, <3>4 DEF IsFunctionOn
  <2>2. CASE newMode # "custom"
    BY <1>2, <2>2 DEF SaveEndpoint
  <2> QED
    BY <2>1, <2>2
<1>5. Typed'
  BY <1>1, <1>2, <1>3, <1>4, QuietTyped
<1>6. ASSUME NEW room \in 1..rooms, ~HasLiveForRoom(devices, room)
      PROVE  /\ room \in DOMAIN admitted' =>
                   room \in DOMAIN admitted /\ admitted'[room] = admitted[room]
             /\ room \in DOMAIN campaigns' =>
                   room \in DOMAIN campaigns /\ campaigns'[room] = campaigns[room]
             /\ \A seat \in SeatsOf(room)' :
                   seat \in SeatsOf(room) /\ gates'[seat] = gates[seat]
             /\ SeatsOf(room)' # {} => Reachable(room)
  BY <1>1, <1>3, <1>4, <1>6 DEF SeatsOf, Reachable
<1>7. RoomsIdle'
  BY <1>1, <1>6, QuietRooms
<1> QED
  BY <1>5, <1>7

\* So does the reseat timer.
LEMMA ReseatRooms == ASSUME Typed, RoomsIdle, Reseat PROVE Typed' /\ RoomsIdle'
<1>1. UNCHANGED <<now, minted, rooms, offers, devices, issued, abandoned, mode,
                  relayUrl, admitted, gates>>
  BY DEF Reseat, credentials, counters, endpoint
<1>2. /\ IsFunctionOn(campaigns, 1..rooms, Campaign)
      /\ IsFunctionOn(admitted, 1..rooms, (-1)..Forever)
      /\ IsFunctionOn(gates, SeatKinds \X (1..rooms), Claimants \cup {NoClaimant})
      /\ relayUrl \in RelayUrls /\ mode \in {"relay", "custom"}
  BY DEF Typed, TypeOK
<1>3. /\ IsFunctionOn(campaigns', 1..rooms, Campaign)
      /\ mode = "custom" => DOMAIN campaigns' = {}
      /\ \A r \in DOMAIN campaigns' : ~HasLiveForRoom(devices, r) =>
            r \in DOMAIN campaigns /\ campaigns'[r] = campaigns[r]
  <2>1. CASE mode = "relay"
    <3>1. campaigns' = RestartRelayRooms(campaigns, relayUrl)
      BY <2>1 DEF Reseat
    <3> QED
      BY <1>2, <2>1, <3>1, RestartOn
  <2>2. CASE mode # "relay"
    BY <1>2, <2>2, DropOn
    DEF Reseat, CloseRelayRooms, CloseCampaigns, Drop, IsFunctionOn
  <2> QED
    BY <2>1, <2>2
<1>4. Typed'
  BY <1>1, <1>2, <1>3, QuietTyped
<1>5. ASSUME NEW room \in 1..rooms, ~HasLiveForRoom(devices, room)
      PROVE  /\ room \in DOMAIN campaigns' =>
                   room \in DOMAIN campaigns /\ campaigns'[room] = campaigns[room]
             /\ \A seat \in SeatsOf(room)' :
                   seat \in SeatsOf(room) /\ gates'[seat] = gates[seat]
             /\ SeatsOf(room)' # {} => Reachable(room)
  BY <1>1, <1>3, <1>5 DEF SeatsOf, Reachable
<1>6. RoomsIdle'
  BY <1>1, <1>5, QuietRooms
<1> QED
  BY <1>4, <1>6

\* After a reload only live rooms are open, and no code was claimed.
LEMMA ReloadRooms == ASSUME Typed, RoomsIdle, Reload PROVE Typed' /\ RoomsIdle'
<1>1. /\ UNCHANGED <<now, minted, rooms, devices, issued, mode, relayUrl>>
      /\ DOMAIN offers' = {} /\ abandoned' = {} /\ DOMAIN gates' = {}
  BY DEF Reload, counters, endpoint, EmptyOffers, Empty
<1>2. LiveRooms(devices) \subseteq 1..rooms
  BY DEF Typed, LiveRooms, Live
<1>3. \A r \in LiveRooms(devices) : HasLiveForRoom(devices, r)
  BY DEF LiveRooms, HasLiveForRoom
<1>4. PICK campaign : campaign = NewCampaign(relayUrl, 0)
  OBVIOUS
<1>5. campaign \in Campaign /\ Forever \in (-1)..Forever
  BY <1>4, NewCampaignTyped, BoundsAreNat DEF Typed, TypeOK
<1>6. /\ DOMAIN campaigns' \subseteq LiveRooms(devices)
      /\ \A r \in DOMAIN campaigns' : campaigns'[r] = campaign
      /\ DOMAIN admitted' \subseteq LiveRooms(devices)
      /\ \A r \in DOMAIN admitted' : admitted'[r] = Forever
      /\ mode = "custom" => DOMAIN campaigns' = {}
  BY <1>4 DEF Reload, Empty
<1>7. /\ IsFunctionOn(campaigns', 1..rooms, Campaign)
      /\ IsFunctionOn(admitted', 1..rooms, (-1)..Forever)
  BY <1>2, <1>5, <1>6 DEF IsFunctionOn
<1>8. Typed'
  BY <1>1, <1>6, <1>7 DEF Typed, TypeOK, IsFunctionOn
<1>9. ASSUME NEW room \in 1..rooms, ~HasLiveForRoom(devices, room)
      PROVE  Idle(room)'
  <2>1. room \notin DOMAIN campaigns' /\ room \notin DOMAIN admitted' /\ SeatsOf(room)' = {}
    BY <1>1, <1>3, <1>6, <1>9 DEF SeatsOf
  <2> QED
    BY <1>1, <1>9, <2>1, ClosedRoom
<1> QED
  BY <1>1, <1>8, <1>9 DEF RoomsIdle

\* The events of a relay socket open no session.
LEMMA RelaySocketRooms ==
    ASSUME Typed, RoomsIdle, NEW room \in 1..rooms,
           RelayOpen(room) \/ RelayClose(room) \/ RelayRetry(room)
    PROVE  Typed' /\ RoomsIdle'
<1>1. /\ UNCHANGED <<now, minted, rooms, offers, devices, issued, abandoned, mode,
                     relayUrl, admitted, gates>>
      /\ room \in DOMAIN campaigns
  BY DEF RelayOpen, RelayClose, RelayRetry, credentials, counters, endpoint
<1>2. /\ IsFunctionOn(campaigns, 1..rooms, Campaign)
      /\ IsFunctionOn(admitted, 1..rooms, (-1)..Forever)
      /\ IsFunctionOn(gates, SeatKinds \X (1..rooms), Claimants \cup {NoClaimant})
      /\ relayUrl \in RelayUrls /\ mode \in {"relay", "custom"}
      /\ mode = "custom" => DOMAIN campaigns = {}
      /\ campaigns[room] \in Campaign
  BY <1>1 DEF Typed, TypeOK, IsFunctionOn
<1>3. \E link \in Link, session \in {NoClaimant, campaigns[room].session} :
         campaigns' = [campaigns EXCEPT ![room] =
                          [@ EXCEPT !.session = session, !.link = link]]
  <2>1. CASE RelayClose(room)
    BY <2>1 DEF RelayClose, Link
  <2>2. CASE RelayOpen(room) \/ RelayRetry(room)
    <3>1. PICK link \in Link : campaigns' = [campaigns EXCEPT ![room].link = link]
      BY <2>2 DEF RelayOpen, RelayRetry, Link
    <3>2. [campaigns[room] EXCEPT !.link = link] =
          [campaigns[room] EXCEPT !.session = campaigns[room].session, !.link = link]
      BY <1>2 DEF Campaign
    <3> QED
      BY <3>1, <3>2
  <2> QED
    BY <2>1, <2>2
<1>4. PICK campaign : /\ campaigns' = [campaigns EXCEPT ![room] = campaign]
                      /\ campaign \in Campaign
                      /\ campaign.session \in {NoClaimant, campaigns[room].session}
  <2>1. PICK link \in Link, session \in {NoClaimant, campaigns[room].session} :
           campaigns' = [campaigns EXCEPT ![room] =
                            [campaigns[room] EXCEPT !.session = session, !.link = link]]
    BY <1>3
  <2>2. PICK campaign :
           campaign = [campaigns[room] EXCEPT !.session = session, !.link = link]
    OBVIOUS
  <2>3. campaign \in Campaign /\ campaign.session = session
    BY <1>2, <2>2 DEF Campaign
  <2> QED
    BY <2>1, <2>2, <2>3
<1>5. /\ IsFunctionOn(campaigns', 1..rooms, Campaign)
      /\ DOMAIN campaigns' = DOMAIN campaigns
      /\ \A r \in DOMAIN campaigns' :
            campaigns'[r].session \in {NoClaimant, campaigns[r].session}
  BY <1>1, <1>2, <1>4, ExceptOn
<1>6. Typed'
  BY <1>1, <1>2, <1>5, QuietTyped
<1>7. ASSUME NEW r \in 1..rooms, ~HasLiveForRoom(devices, r)
      PROVE  /\ \A seat \in SeatsOf(r)' :
                   seat \in SeatsOf(r) /\ gates'[seat] = gates[seat]
             /\ SeatsOf(r)' # {} => Reachable(r)
  BY <1>1 DEF SeatsOf, Reachable
<1>8. RoomsIdle'
  BY <1>1, <1>5, <1>7, QuietRooms
<1> QED
  BY <1>6, <1>8

\* A seat of the Gateway is given in a room that was reachable.
LEMMA GateSocketRooms ==
    ASSUME Typed, RoomsIdle, NEW seat \in SeatKinds \X (1..rooms),
           GateOpen(seat) \/ GateClose(seat)
    PROVE  Typed' /\ RoomsIdle'
<1>1. /\ UNCHANGED <<now, minted, rooms, offers, devices, issued, abandoned, mode,
                     relayUrl, campaigns>>
      /\ \/ gates' = Put(gates, seat, NoClaimant) /\ Authorized(seat[2])
         \/ gates' = Drop(gates, {seat})
      /\ admitted' = admitted \/ admitted' = Drop(admitted, {seat[2]})
  BY DEF GateOpen, GateClose, credentials, counters, endpoint
<1>2. /\ IsFunctionOn(campaigns, 1..rooms, Campaign)
      /\ IsFunctionOn(admitted, 1..rooms, (-1)..Forever)
      /\ IsFunctionOn(gates, SeatKinds \X (1..rooms), Claimants \cup {NoClaimant})
      /\ relayUrl \in RelayUrls /\ mode \in {"relay", "custom"}
      /\ mode = "custom" => DOMAIN campaigns = {}
  BY DEF Typed, TypeOK
<1>3. NoClaimant \in Claimants \cup {NoClaimant}
  OBVIOUS
<1>4. /\ IsFunctionOn(admitted', 1..rooms, (-1)..Forever)
      /\ IsFunctionOn(gates', SeatKinds \X (1..rooms), Claimants \cup {NoClaimant})
  <2>1. IsFunctionOn(admitted', 1..rooms, (-1)..Forever)
    BY <1>1, <1>2, DropOn
  <2>2. IsFunctionOn(Drop(gates, {seat}), SeatKinds \X (1..rooms), Claimants \cup {NoClaimant})
    BY <1>2, DropOn
  <2>3. IsFunctionOn(Put(gates, seat, NoClaimant), SeatKinds \X (1..rooms),
                     Claimants \cup {NoClaimant})
    BY <1>2, <1>3, PutOn
  <2> QED
    BY <1>1, <2>1, <2>2, <2>3
<1>5. Typed'
  BY <1>1, <1>2, <1>4, QuietTyped
<1>6. ASSUME NEW room \in 1..rooms, ~HasLiveForRoom(devices, room)
      PROVE  /\ room \in DOMAIN admitted' =>
                   room \in DOMAIN admitted /\ admitted'[room] = admitted[room]
             /\ \A s \in SeatsOf(room)' :
                   \/ gates'[s] = NoClaimant
                   \/ s \in SeatsOf(room) /\ gates'[s] = gates[s]
             /\ SeatsOf(room)' # {} => Reachable(room)
  BY <1>1 DEF SeatsOf, Reachable, Put, Drop
<1>7. RoomsIdle'
  BY <1>1, <1>6, QuietRooms
<1> QED
  BY <1>5, <1>7

\* The rows, offers and abandoned rooms a handshake leaves are typed.
CredentialsTyped ==
    /\ issued \in Nat
    /\ IsFunctionOn(offers, 1..minted, Offer)
    /\ \A c \in DOMAIN offers : offers[c].room \in 1..rooms
    /\ Rows(devices, issued, rooms)
    /\ abandoned \subseteq 1..rooms

\* A code that comes in on a carrier of the room: the room then has a live
\* device or was abandoned, since a retry of a claimed code reaches the Host
\* in no other room; and other idle rooms keep their offers.
LEMMA CodeAdmits ==
    ASSUME Typed, RoomsIdle, NEW claimant \in Claimants, NEW code \in 1..minted,
           NEW room \in 1..rooms, Reachable(room),
           ClaimCode(claimant, code, room) \/ RetryCode(claimant, code, room),
           UNCHANGED <<minted, rooms>>
    PROVE  /\ CredentialsTyped'
           /\ \A r \in (1..rooms) \ abandoned' : ~HasLiveForRoom(devices', r) =>
                 /\ r # room /\ r \notin abandoned /\ ~HasLiveForRoom(devices, r)
                 /\ DOMAIN offers' = DOMAIN offers
                 /\ \A c \in DOMAIN offers : offers[c].room = r \/ offers'[c].room = r
                                                => offers'[c] = offers[c]
<1>1. /\ code \in DOMAIN offers /\ offers[code].room = room /\ offers[code] \in Offer
      /\ IsFunctionOn(offers, 1..minted, Offer)
      /\ Rows(devices, issued, rooms) /\ issued \in Nat /\ rooms \in Nat
      /\ abandoned \subseteq 1..rooms
  BY DEF ClaimCode, RetryCode, Claimable, Retryable, Presentable, Typed, TypeOK,
         Rows, IsFunctionOn
<1>2. CASE ClaimCode(claimant, code, room)
  <2>1. PICK n : n = issued + 1
    OBVIOUS
  <2>2. /\ n \in Nat /\ issued' = n
        /\ devices' = IssueOrUpdate(devices, issued + 1, claimant, room, 0)
        /\ offers' = Claim(offers, code, claimant, n)
        /\ abandoned' = abandoned \cup
              {r \in {devices[d].room : d \in LiveOf(devices, claimant)} :
                  ~HasLiveForRoom(devices', r)}
    BY <1>1, <1>2, <2>1 DEF ClaimCode
  <2>3. /\ Rows(devices', issued', rooms)
        /\ HasLiveForRoom(devices', room)
        /\ \A r : HasLiveForRoom(devices, r) =>
              \/ HasLiveForRoom(devices', r)
              \/ r \in {devices[d].room : d \in LiveOf(devices, claimant)}
    BY <1>1, <2>1, <2>2, IssueOrUpdateMoves
  <2>4. PICK offer : offer = [offers[code] EXCEPT !.claimant = claimant, !.token = n]
    OBVIOUS
  <2>5. offer \in Offer /\ offer.room = room
    BY <1>1, <2>2, <2>4 DEF Offer
  <2>6. /\ DOMAIN offers' = DOMAIN offers
        /\ \A c \in DOMAIN offers : c # code => offers'[c] = offers[c]
        /\ offers'[code] = offer
    BY <1>1, <2>2, <2>4 DEF Claim
  <2>7. abandoned' \subseteq 1..rooms
    BY <1>1, <2>2 DEF Rows, LiveOf, Live
  <2>8. /\ IsFunctionOn(offers', 1..minted, Offer)
        /\ \A c \in DOMAIN offers' : offers'[c].room \in 1..rooms
    BY <1>1, <2>5, <2>6 DEF IsFunctionOn, Typed
  <2>9. CredentialsTyped'
    BY <2>2, <2>3, <2>7, <2>8 DEF CredentialsTyped
  <2>10. ASSUME NEW r \in (1..rooms) \ abandoned', ~HasLiveForRoom(devices', r)
         PROVE  /\ r # room /\ r \notin abandoned /\ ~HasLiveForRoom(devices, r)
                /\ \A c \in DOMAIN offers : offers[c].room = r \/ offers'[c].room = r
                                               => offers'[c] = offers[c]
    <3>1. r # room /\ r \notin abandoned /\ ~HasLiveForRoom(devices, r)
      BY <2>2, <2>3, <2>10
    <3> QED
      BY <1>1, <2>5, <2>6, <3>1
  <2> QED
    BY <2>6, <2>9, <2>10
<1>3. CASE RetryCode(claimant, code, room)
  <2>1. UNCHANGED <<offers, devices, issued, abandoned>>
    BY <1>3 DEF RetryCode, credentials
  <2>2. offers[code].claimant # NoClaimant
    BY <1>3, NoClaimantAssumption DEF RetryCode, Retryable
  <2>3. room \in abandoned \/ HasLiveForRoom(devices, room)
    BY <1>1, <2>2 DEF RoomsIdle, Idle, Unclaimed
  <2>4. CredentialsTyped'
    BY <1>1, <2>1 DEF CredentialsTyped, Typed
  <2> QED
    BY <2>1, <2>3, <2>4
<1> QED
  BY <1>2, <1>3

\* Idle rooms stay idle when another room's code opens a session in it.
LEMMA CodeElsewhere ==
    ASSUME NEW r, Idle(r), ~HasLiveForRoom(devices', r), UNCHANGED <<now, admitted>>,
           DOMAIN offers' = DOMAIN offers,
           \A c \in DOMAIN offers : offers[c].room = r \/ offers'[c].room = r
                                       => offers'[c] = offers[c],
           r \in DOMAIN campaigns' => r \in DOMAIN campaigns /\ campaigns'[r] = campaigns[r],
           \A s \in SeatsOf(r)' : s \in SeatsOf(r) /\ gates'[s] = gates[s]
    PROVE  Idle(r)'
<1>1. EntryIsOffered(r)'
  BY DEF Idle, EntryIsOffered
<1>2. Unserved(r)'
  BY DEF Idle, Unserved
<1>3. Reachable(r)' => Reachable(r)
  BY DEF Reachable, Authorized
<1>4. Unclaimed(r) => Unclaimed(r)'
  BY DEF Unclaimed
<1> QED
  BY <1>1, <1>2, <1>3, <1>4 DEF Idle

LEMMA ByCodeRooms ==
    ASSUME Typed, RoomsIdle, NEW claimant \in Claimants, NEW code \in 1..minted,
           NEW room \in 1..rooms, Reachable(room),
           ClaimCode(claimant, code, room) \/ RetryCode(claimant, code, room),
           UNCHANGED <<now, minted, rooms, mode, relayUrl, admitted>>,
           IsFunctionOn(campaigns', 1..rooms, Campaign),
           DOMAIN campaigns' = DOMAIN campaigns,
           IsFunctionOn(gates', SeatKinds \X (1..rooms), Claimants \cup {NoClaimant}),
           \A r \in DOMAIN campaigns : r # room => campaigns'[r] = campaigns[r],
           \A r : r # room =>
              \A s \in SeatsOf(r)' : s \in SeatsOf(r) /\ gates'[s] = gates[s]
    PROVE  Typed' /\ RoomsIdle'
<1>1. /\ CredentialsTyped'
      /\ \A r \in (1..rooms) \ abandoned' : ~HasLiveForRoom(devices', r) =>
            /\ r # room /\ r \notin abandoned /\ ~HasLiveForRoom(devices, r)
            /\ DOMAIN offers' = DOMAIN offers
            /\ \A c \in DOMAIN offers : offers[c].room = r \/ offers'[c].room = r
                                           => offers'[c] = offers[c]
  BY CodeAdmits
<1>2. Typed'
  BY <1>1 DEF Typed, TypeOK, CredentialsTyped, Rows
<1>3. ASSUME NEW r \in (1..rooms) \ abandoned', ~HasLiveForRoom(devices', r)
      PROVE  Idle(r)'
  <2>1. Idle(r)
    BY <1>1, <1>3 DEF RoomsIdle
  <2> QED
    BY <1>1, <1>3, <2>1, CodeElsewhere
<1> QED
  BY <1>2, <1>3 DEF RoomsIdle

LEMMA RelayByCodeRooms ==
    ASSUME Typed, RoomsIdle, NEW claimant \in Claimants, NEW code \in 1..minted,
           NEW room \in 1..rooms, RelayByCode(claimant, code, room)
    PROVE  Typed' /\ RoomsIdle'
<1>1. /\ room \in DOMAIN campaigns
      /\ ClaimCode(claimant, code, room) \/ RetryCode(claimant, code, room)
      /\ campaigns' = [campaigns EXCEPT ![room].session = claimant]
      /\ UNCHANGED <<now, minted, rooms, mode, relayUrl, admitted, gates>>
  BY DEF RelayByCode, RelayCarrier, counters, endpoint
<1>2. IsFunctionOn(campaigns, 1..rooms, Campaign) /\ campaigns[room] \in Campaign
  BY <1>1 DEF Typed, TypeOK, IsFunctionOn
<1>3. PICK campaign : campaign = [campaigns[room] EXCEPT !.session = claimant]
  OBVIOUS
<1>4. campaign \in Campaign
  BY <1>2, <1>3 DEF Campaign
<1>5. campaigns' = [campaigns EXCEPT ![room] = campaign]
  BY <1>1, <1>3
<1>6. /\ IsFunctionOn(campaigns', 1..rooms, Campaign)
      /\ DOMAIN campaigns' = DOMAIN campaigns
      /\ \A r \in DOMAIN campaigns : r # room => campaigns'[r] = campaigns[r]
  BY <1>2, <1>4, <1>5, ExceptOn
<1>7. /\ IsFunctionOn(gates', SeatKinds \X (1..rooms), Claimants \cup {NoClaimant})
      /\ \A r : r # room =>
              \A s \in SeatsOf(r)' : s \in SeatsOf(r) /\ gates'[s] = gates[s]
  BY <1>1 DEF Typed, TypeOK, SeatsOf
<1>8. Reachable(room)
  BY <1>1 DEF Reachable
<1> QED
  BY <1>1, <1>6, <1>7, <1>8, ByCodeRooms

LEMMA GateByCodeRooms ==
    ASSUME Typed, RoomsIdle, NEW claimant \in Claimants, NEW code \in 1..minted,
           NEW seat \in SeatKinds \X (1..rooms), GateByCode(claimant, code, seat)
    PROVE  Typed' /\ RoomsIdle'
<1>1. PICK room \in 1..rooms : room = seat[2]
  OBVIOUS
<1>2. /\ seat \in DOMAIN gates
      /\ ClaimCode(claimant, code, room) \/ RetryCode(claimant, code, room)
      /\ gates' = [gates EXCEPT ![seat] = claimant]
      /\ UNCHANGED <<now, minted, rooms, mode, relayUrl, admitted, campaigns>>
  BY <1>1 DEF GateByCode, counters, endpoint
<1>3. /\ IsFunctionOn(campaigns, 1..rooms, Campaign)
      /\ IsFunctionOn(gates, SeatKinds \X (1..rooms), Claimants \cup {NoClaimant})
      /\ claimant \in Claimants \cup {NoClaimant}
  BY DEF Typed, TypeOK
<1>4. IsFunctionOn(gates', SeatKinds \X (1..rooms), Claimants \cup {NoClaimant})
  BY <1>2, <1>3, ExceptOn
<1>5. \A r : r # room =>
              \A s \in SeatsOf(r)' : s \in SeatsOf(r) /\ gates'[s] = gates[s]
  BY <1>1, <1>2 DEF SeatsOf
<1>6. Reachable(room)
  BY <1>1, <1>2 DEF Reachable, SeatsOf
<1> QED
  BY <1>2, <1>3, <1>4, <1>5, <1>6, ByCodeRooms

\* followDeviceRoom() closes the campaign of a room that is left, and touches
\* no other but that of the carrier.
LEMMA FollowedOn ==
    ASSUME Typed, NEW d \in DOMAIN devices, NEW room \in 1..rooms
    PROVE  LET new == Followed(campaigns, d, room)
           IN  /\ IsFunctionOn(new, 1..rooms, Campaign)
               /\ mode = "custom" => DOMAIN new = {}
               /\ room \in DOMAIN campaigns => room \in DOMAIN new
               /\ \A r \in DOMAIN new : r # room =>
                     r \in DOMAIN campaigns \ Left(d, room) /\ new[r] = campaigns[r]
<1>1. /\ IsFunctionOn(campaigns, 1..rooms, Campaign) /\ relayUrl \in RelayUrls
      /\ mode = "custom" => DOMAIN campaigns = {}
  BY DEF Typed, TypeOK
<1>2. PICK cs : cs = CloseCampaigns(campaigns, Left(d, room))
  OBVIOUS
<1>3. room \notin Left(d, room)
  BY DEF Left
<1>4. /\ DOMAIN cs = DOMAIN campaigns \ Left(d, room)
      /\ \A r \in DOMAIN cs : cs[r] = campaigns[r]
  BY <1>2 DEF CloseCampaigns, Drop
<1>5. IsFunctionOn(cs, 1..rooms, Campaign)
  BY <1>1, <1>4 DEF IsFunctionOn
<1>6. CASE mode = "relay" /\ devices[d].room # room
  <2>1. Followed(campaigns, d, room) = EnsureRelayRoom(cs, room, 0, relayUrl)
    BY <1>2, <1>6 DEF Followed
  <2>2. PICK new : new = EnsureRelayRoom(cs, room, 0, relayUrl)
    OBVIOUS
  <2>3. PICK D : D = 1..rooms
    OBVIOUS
  <2>4. IsFunctionOn(cs, D, Campaign) /\ room \in D /\ 0 \in Nat /\ relayUrl \in RelayUrls
    BY <1>1, <1>5, <2>3
  <2>5. /\ IsFunctionOn(new, D, Campaign)
        /\ DOMAIN new = DOMAIN cs \cup {room}
        /\ \A r \in DOMAIN cs : r # room => new[r] = cs[r]
    BY <2>2, <2>4, EnsureOn
  <2> QED
    BY <1>4, <1>6, <2>1, <2>2, <2>3, <2>5
<1>7. CASE ~(mode = "relay" /\ devices[d].room # room)
  <2>1. Followed(campaigns, d, room) = cs
    BY <1>2, <1>7 DEF Followed
  <2> QED
    BY <1>1, <1>3, <1>4, <1>5, <2>1
<1> QED
  BY <1>6, <1>7

\* It expires the authorization of a room that is left, and extends no other
\* but that of the carrier.
LEMMA SecuredOn ==
    ASSUME Typed, NEW d \in DOMAIN devices, NEW room \in 1..rooms
    PROVE  LET new == Secured(d, room)
           IN  /\ IsFunctionOn(new, 1..rooms, (-1)..Forever)
               /\ \A r \in DOMAIN new : r # room =>
                     IF r \in Left(d, room) THEN new[r] = now - 1
                     ELSE r \in DOMAIN admitted /\ new[r] = admitted[r]
<1>1. IsFunctionOn(admitted, 1..rooms, (-1)..Forever)
  BY DEF Typed, TypeOK
<1>2. Left(d, room) \subseteq 1..rooms
  BY DEF Left, Typed
<1>3. now - 1 \in (-1)..Forever /\ Forever \in (-1)..Forever
  BY BoundsAreNat DEF Typed
<1>4. PICK expired : expired = [r \in DOMAIN admitted \cup Left(d, room) |->
                                  IF r \in Left(d, room) THEN now - 1 ELSE admitted[r]]
  OBVIOUS
<1>5. /\ DOMAIN expired = DOMAIN admitted \cup Left(d, room)
      /\ \A r \in DOMAIN expired :
            IF r \in Left(d, room) THEN expired[r] = now - 1
            ELSE r \in DOMAIN admitted /\ expired[r] = admitted[r]
  BY <1>4
<1>6. IsFunctionOn(expired, 1..rooms, (-1)..Forever)
  BY <1>1, <1>2, <1>3, <1>5 DEF IsFunctionOn
<1>7. IsFunctionOn(Put(expired, room, Forever), 1..rooms, (-1)..Forever)
  BY <1>3, <1>6, PutOn
<1>8. Secured(d, room) \in {expired, Put(expired, room, Forever)}
  BY <1>4 DEF Secured
<1>9. \A r \in DOMAIN Put(expired, room, Forever) : r # room =>
         r \in DOMAIN expired /\ Put(expired, room, Forever)[r] = expired[r]
  BY DEF Put
<1> QED
  BY <1>5, <1>6, <1>7, <1>8, <1>9

\* A known device that comes in by another room: the one it came from is
\* closed if it was the last, in either mode.
LEMMA ByTokenRooms ==
    ASSUME Typed, RoomsIdle, NEW claimant \in Claimants, NEW d \in DOMAIN devices,
           NEW room \in 1..rooms, AdmitToken(claimant, d, room),
           UNCHANGED <<now, minted, rooms, mode, relayUrl>>,
           admitted' = Secured(d, room),
           IsFunctionOn(campaigns', 1..rooms, Campaign),
           mode = "custom" => DOMAIN campaigns' = {},
           \A r \in DOMAIN campaigns' : r # room =>
              r \in DOMAIN campaigns \ Left(d, room) /\ campaigns'[r] = campaigns[r],
           IsFunctionOn(gates', SeatKinds \X (1..rooms), Claimants \cup {NoClaimant}),
           \A s \in DOMAIN gates' : s[2] # room =>
              s \in DOMAIN gates \ GatesLeft(d, room) /\ gates'[s] = gates[s]
    PROVE  Typed' /\ RoomsIdle'
<1>1. /\ d \in Live(devices) /\ devices' = Authenticate(devices, d, claimant, room, 0)
      /\ UNCHANGED <<offers, issued, abandoned>>
  BY DEF AdmitToken, MayAuthenticate
<1>2. /\ Rows(devices', issued, rooms) /\ HasLiveForRoom(devices', room)
      /\ \A r : HasLiveForRoom(devices, r) =>
                   HasLiveForRoom(devices', r) \/ r = devices[d].room
  BY <1>1, AuthenticateMoves DEF Typed, TypeOK, Rows
<1>3. /\ IsFunctionOn(admitted', 1..rooms, (-1)..Forever)
      /\ \A r \in DOMAIN admitted' : r # room =>
            IF r \in Left(d, room) THEN admitted'[r] = now - 1
            ELSE r \in DOMAIN admitted /\ admitted'[r] = admitted[r]
  BY SecuredOn
<1>4. Typed'
  BY <1>1, <1>2, <1>3 DEF Typed, TypeOK, Rows
<1>5. ASSUME NEW r \in (1..rooms) \ abandoned, ~HasLiveForRoom(devices', r)
      PROVE  Idle(r)'
  <2>1. r # room
    BY <1>2, <1>5
  <2>2. CASE r \in Left(d, room)
    <3>1. r \notin DOMAIN campaigns'
      BY <2>1, <2>2
    <3>2. SeatsOf(r)' = {}
      BY <2>1, <2>2 DEF GatesLeft, SeatsOf
    <3>3. now \in Int /\ ~(now - 1 >= now)
      BY DEF Typed
    <3>4. r \in DOMAIN admitted' => ~(admitted'[r] >= now')
      BY <1>3, <2>1, <2>2, <3>3
    <3> QED
      BY <1>5, <3>1, <3>2, <3>4, ClosedRoom
  <2>3. CASE r \notin Left(d, room)
    <3>1. ~HasLiveForRoom(devices, r)
      BY <1>2, <1>5, <2>1, <2>3 DEF Left
    <3>2. Idle(r)
      BY <1>5, <3>1 DEF RoomsIdle
    <3>3. /\ r \in DOMAIN admitted' =>
                r \in DOMAIN admitted /\ admitted'[r] = admitted[r]
          /\ r \in DOMAIN campaigns' =>
                r \in DOMAIN campaigns /\ campaigns'[r] = campaigns[r]
          /\ \A seat \in SeatsOf(r)' : seat \in SeatsOf(r) /\ gates'[seat] = gates[seat]
      BY <1>3, <2>1, <2>3 DEF SeatsOf
    <3>4. \A seat \in SeatsOf(r)' : gates'[seat] = NoClaimant
      BY <3>2, <3>3 DEF Idle, Unserved
    <3>5. SeatsOf(r)' # {} => Reachable(r)
      BY <3>3 DEF Reachable
    <3> QED
      BY <1>1, <1>5, <3>2, <3>3, <3>4, <3>5, QuietRoom
  <2> QED
    BY <2>2, <2>3
<1> QED
  BY <1>1, <1>4, <1>5 DEF RoomsIdle

LEMMA RelayByTokenRooms ==
    ASSUME Typed, RoomsIdle, NEW claimant \in Claimants, NEW d \in DOMAIN devices,
           NEW room \in 1..rooms, RelayByToken(claimant, d, room)
    PROVE  Typed' /\ RoomsIdle'
<1>1. PICK cs : cs = Followed(campaigns, d, room)
  OBVIOUS
<1>2. /\ room \in DOMAIN campaigns /\ AdmitToken(claimant, d, room)
      /\ campaigns' = cs \/ campaigns' = [cs EXCEPT ![room].session = claimant]
      /\ admitted' = Secured(d, room)
      /\ gates' = Drop(gates, GatesLeft(d, room))
      /\ UNCHANGED <<now, minted, rooms, mode, relayUrl>>
  BY <1>1 DEF RelayByToken, RelayCarrier, counters, endpoint
<1>3. /\ IsFunctionOn(cs, 1..rooms, Campaign)
      /\ mode = "custom" => DOMAIN cs = {}
      /\ room \in DOMAIN cs
      /\ \A r \in DOMAIN cs : r # room =>
            r \in DOMAIN campaigns \ Left(d, room) /\ cs[r] = campaigns[r]
  BY <1>1, <1>2, FollowedOn
<1>4. PICK campaign : campaign = [cs[room] EXCEPT !.session = claimant]
  OBVIOUS
<1>5. campaign \in Campaign
  <2>1. cs[room] \in Campaign
    BY <1>3 DEF IsFunctionOn
  <2> QED
    BY <1>4, <2>1 DEF Campaign
<1>6. campaigns' = cs \/ campaigns' = [cs EXCEPT ![room] = campaign]
  BY <1>2, <1>4
<1>7. /\ IsFunctionOn(campaigns', 1..rooms, Campaign)
      /\ DOMAIN campaigns' = DOMAIN cs
      /\ \A r \in DOMAIN campaigns' : r # room => campaigns'[r] = cs[r]
  BY <1>3, <1>5, <1>6, ExceptOn
<1>8. /\ IsFunctionOn(gates', SeatKinds \X (1..rooms), Claimants \cup {NoClaimant})
      /\ \A s \in DOMAIN gates' :
            s \in DOMAIN gates \ GatesLeft(d, room) /\ gates'[s] = gates[s]
  BY <1>2, DropOn DEF Typed, TypeOK, Drop
<1>9. /\ mode = "custom" => DOMAIN campaigns' = {}
      /\ \A r \in DOMAIN campaigns' : r # room =>
            r \in DOMAIN campaigns \ Left(d, room) /\ campaigns'[r] = campaigns[r]
      /\ \A s \in DOMAIN gates' : s[2] # room =>
            s \in DOMAIN gates \ GatesLeft(d, room) /\ gates'[s] = gates[s]
  BY <1>3, <1>7, <1>8
<1> QED
  BY <1>2, <1>7, <1>8, <1>9, ByTokenRooms

LEMMA GateByTokenRooms ==
    ASSUME Typed, RoomsIdle, NEW claimant \in Claimants, NEW d \in DOMAIN devices,
           NEW seat \in SeatKinds \X (1..rooms), GateByToken(claimant, d, seat)
    PROVE  Typed' /\ RoomsIdle'
<1>1. PICK room \in 1..rooms : room = seat[2]
  OBVIOUS
<1>2. PICK left : left = Drop(gates, GatesLeft(d, room))
  OBVIOUS
<1>3. /\ AdmitToken(claimant, d, room)
      /\ campaigns' = Followed(campaigns, d, room)
      /\ admitted' = Secured(d, room)
      /\ gates' = [left EXCEPT ![seat] = claimant]
      /\ UNCHANGED <<now, minted, rooms, mode, relayUrl>>
  BY <1>1, <1>2 DEF GateByToken, counters, endpoint
<1>4. /\ IsFunctionOn(campaigns', 1..rooms, Campaign)
      /\ mode = "custom" => DOMAIN campaigns' = {}
      /\ \A r \in DOMAIN campaigns' : r # room =>
            r \in DOMAIN campaigns \ Left(d, room) /\ campaigns'[r] = campaigns[r]
  BY <1>3, FollowedOn
<1>5. /\ IsFunctionOn(left, SeatKinds \X (1..rooms), Claimants \cup {NoClaimant})
      /\ claimant \in Claimants \cup {NoClaimant}
  BY <1>2, DropOn DEF Typed, TypeOK
<1>6. IsFunctionOn(gates', SeatKinds \X (1..rooms), Claimants \cup {NoClaimant})
  BY <1>3, <1>5, ExceptOn
<1>7. \A s \in DOMAIN gates' : s[2] # room =>
            s \in DOMAIN gates \ GatesLeft(d, room) /\ gates'[s] = gates[s]
  BY <1>1, <1>2, <1>3 DEF Drop
<1>8. /\ AdmitToken(claimant, d, room) /\ admitted' = Secured(d, room)
      /\ UNCHANGED <<now, minted, rooms, mode, relayUrl>>
  BY <1>3
<1> QED
  BY <1>4, <1>6, <1>7, <1>8, ByTokenRooms, ZenonT(40)

-----------------------------------------------------------------------------
LEMMA NextRooms == ASSUME Typed, RoomsIdle, [Next]_vars PROVE Typed' /\ RoomsIdle'
<1>1. CASE Requests
  BY <1>1, PairRooms, RevokeRooms, SaveEndpointRooms, ReloadRooms DEF Requests
<1>2. CASE Sockets
  BY <1>2, RelaySocketRooms, GateSocketRooms DEF Sockets
<1>3. CASE Handshakes
  BY <1>3, RelayByCodeRooms, GateByCodeRooms, RelayByTokenRooms, GateByTokenRooms
  DEF Handshakes
<1>4. CASE UNCHANGED vars
  BY <1>4 DEF vars, Typed, TypeOK, RoomsIdle, Idle, EntryIsOffered, Unserved,
              Unclaimed, Reachable, Authorized, SeatsOf
<1> QED
  BY <1>1, <1>2, <1>3, <1>4, TickRooms, ReseatRooms DEF Next

LEMMA RoomsInvariant == Spec => [](Typed /\ RoomsIdle)
BY InitRooms, NextRooms, PTL DEF Spec

\* The type invariant, for any bounds: what is kept of rooms, offers, rows and
\* seats is of rooms that were drawn, and there are campaigns in relay mode
\* only (index.ts:153-205).
THEOREM HostRoomsTypeOK == Spec => []TypeOK
<1>1. Typed => TypeOK
  BY DEF Typed
<1> QED
  BY <1>1, RoomsInvariant, PTL

\* Whichever way the devices of a room went, no session is served and nobody is
\* admitted in it but for an offer still in its window, unless its device left
\* by a new pairing (index.ts:129-147, 337-350).
THEOREM HostRoomsAccounted == Spec => []RoomsAccounted
<1>1. ASSUME Typed, RoomsIdle, NEW room \in (1..rooms) \ abandoned,
             ~HasLiveForRoom(devices, room)
      PROVE  /\ Authorized(room) => Offered(room)
             /\ Unserved(room)
  <2>1. Idle(room)
    BY <1>1 DEF RoomsIdle
  <2>2. ASSUME Authorized(room) PROVE Offered(room)
    <3>1. room \in DOMAIN admitted /\ admitted[room] >= now
      BY <1>1, <2>2 DEF Authorized
    <3>2. PICK c \in DOMAIN offers :
              offers[c].room = room /\ admitted[room] <= offers[c].expMs
      BY <2>1, <3>1 DEF Idle, EntryIsOffered
    <3>3. admitted[room] \in Int /\ offers[c].expMs \in Int /\ now \in Int
      BY <1>1, <3>1, BoundsAreNat DEF Typed, TypeOK, IsFunctionOn, Offer
    <3>4. now <= offers[c].expMs
      BY <3>1, <3>2, <3>3
    <3> QED
      BY <3>2, <3>4 DEF Offered
  <2> QED
    BY <2>1, <2>2 DEF Idle
<1>2. Typed /\ RoomsIdle => RoomsAccounted
  BY <1>1 DEF RoomsAccounted, Unserved
<1> QED
  BY <1>2, RoomsInvariant, PTL

-----------------------------------------------------------------------------
\* What PendingQrKeepsSeat says of a campaign the timer must leave alone.
Awaited(room) ==
    /\ room \in DOMAIN campaigns
    /\ PendingSeat(campaigns, room) /\ Active(campaigns[room])
    /\ HasLiveForRoom(devices, room) => campaigns[room].url = relayUrl

Kept(room) ==
    /\ room \in DOMAIN campaigns'
    /\ campaigns'[room].code = campaigns[room].code
    /\ Active(campaigns'[room])

LEMMA ReseatKeeps == ASSUME Typed, Reseat, NEW room, Awaited(room) PROVE Kept(room)
<1>1. mode = "relay"
  BY DEF Awaited, Typed, TypeOK
<1>2. PICK new : new = RestartRelayRooms(campaigns, relayUrl)
  OBVIOUS
<1>3. campaigns' = new
  BY <1>1, <1>2 DEF Reseat
<1>4. room \notin LiveRooms(devices) \/ Reusable(campaigns, room, relayUrl)
  BY DEF Awaited, LiveRooms, HasLiveForRoom, Reusable
<1>5. room \in DOMAIN new /\ new[room] = campaigns[room]
  BY <1>2, <1>4 DEF RestartRelayRooms, Awaited
<1> QED
  BY <1>3, <1>5 DEF Kept, Awaited

LEMMA SocketKeeps ==
    ASSUME Typed, NEW q \in 1..rooms, RelayOpen(q) \/ RelayClose(q) \/ RelayRetry(q),
           NEW room, Awaited(room)
    PROVE  Kept(room)
<1>1. room \in DOMAIN campaigns /\ campaigns[room] \in Campaign
  BY DEF Awaited, Typed, TypeOK, IsFunctionOn
<1>2. CASE q # room
  <2>1. DOMAIN campaigns' = DOMAIN campaigns /\ campaigns'[room] = campaigns[room]
    BY <1>1, <1>2 DEF RelayOpen, RelayClose, RelayRetry
  <2> QED
    BY <2>1 DEF Awaited, Kept
<1>3. CASE q = room
  <2>1. CASE RelayClose(room)
    <3>1. campaigns' = [campaigns EXCEPT ![room] =
                          [@ EXCEPT !.session = NoClaimant, !.link = "backoff"]]
      BY <2>1 DEF RelayClose, Awaited
    <3> QED
      BY <1>1, <3>1 DEF Kept, Active, Campaign
  <2>2. CASE RelayOpen(room) \/ RelayRetry(room)
    <3>1. PICK link \in {"open", "connecting"} :
              campaigns' = [campaigns EXCEPT ![room].link = link]
      BY <2>2 DEF RelayOpen, RelayRetry
    <3> QED
      BY <1>1, <3>1 DEF Kept, Active, Campaign
  <2> QED
    BY <1>3, <2>1, <2>2
<1> QED
  BY <1>2, <1>3

\* Neither the reseat timer nor a socket event takes the Host out of a room
\* whose QR is unclaimed and in its window, unless a device of the room awaits
\* it at another relay (relay-campaign.ts:10-20, index.ts:188-204).
THEOREM HostRoomsPendingQrKeepsSeat == Spec => PendingQrKeepsSeat
<1> DEFINE Keeps == Reseat \/ Sockets \/ Tick =>
                       \A room : Awaited(room) => Kept(room)
<1>1. Typed => Keeps
  <2> SUFFICES ASSUME Typed, Reseat \/ Sockets \/ Tick, NEW room, Awaited(room)
               PROVE  Kept(room)
    OBVIOUS
  <2>1. CASE Reseat
    BY <2>1, ReseatKeeps
  <2>2. CASE UNCHANGED campaigns
    BY <2>2 DEF Awaited, Kept
  <2>3. CASE Tick
    BY <2>2, <2>3 DEF Tick
  <2>4. ASSUME NEW q \in 1..rooms, RelayOpen(q) \/ RelayClose(q) \/ RelayRetry(q)
        PROVE  Kept(room)
    BY <2>4, SocketKeeps
  <2>5. ASSUME NEW seat \in SeatKinds \X (1..rooms), GateOpen(seat) \/ GateClose(seat)
        PROVE  Kept(room)
    BY <2>2, <2>5 DEF GateOpen, GateClose
  <2> QED
    BY <2>1, <2>3, <2>4, <2>5 DEF Sockets
<1>2. Keeps =>
        (Reseat \/ Sockets \/ Tick =>
         \A room \in DOMAIN campaigns :
            /\ PendingSeat(campaigns, room) /\ Active(campaigns[room])
            /\ now' <= offers[campaigns[room].code].expMs
            /\ HasLiveForRoom(devices, room) => campaigns[room].url = relayUrl
            => /\ room \in DOMAIN campaigns'
               /\ campaigns'[room].code = campaigns[room].code
               /\ Active(campaigns'[room]))
  BY DEF Awaited, Kept
<1> HIDE DEF Keeps
<1> QED
  BY <1>1, <1>2, RoomsInvariant, PTL DEF PendingQrKeepsSeat

=============================================================================
