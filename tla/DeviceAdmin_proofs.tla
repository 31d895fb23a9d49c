-------------------------- MODULE DeviceAdmin_proofs ------------------------
(***************************************************************************)
(* CodeUsedOnce and RevokedShutOut of DeviceAdmin, for any number of        *)
(* phones, connections, tokens, failed saves and overlapping loads.  A      *)
(* restart reads the file into memory, so what the invariant says of the    *)
(* rows it says of both: no live row has a token whose revocation the page  *)
(* was told of, and no other row has that token.  A code is good for one,   *)
(* because the table says who has used it for as long as it holds the code. *)
(* A last section is about the settings card, the other page that the owner *)
(* has, which shares no state with this one.                               *)
(***************************************************************************)
EXTENDS DeviceAdmin, SettingsCard, FiniteSetTheorems, TLAPS

\* What the invariant says of one store, if n tokens have been generated and
\* the page was told of the revocation of those in T.
Good(ds, n, T) ==
    /\ DOMAIN ds \subseteq 1..n
    /\ \A d \in DOMAIN ds : ds[d] \in Row /\ ds[d].token \in 1..n
    /\ \A d, e \in DOMAIN ds : ds[d].token = ds[e].token => d = e
    /\ IsFiniteSet(Live(ds)) /\ Cardinality(Live(ds)) <= MaxLiveDevices
    /\ \A d \in Live(ds) : ds[d].token \notin T

Stores ==
    /\ issued \in 0..MaxTokens /\ told \subseteq 1..issued
    /\ Good(store, issued, told) /\ Good(disk, issued, told)

\* While the table has the code it says who was told that it is good.
Uses ==
    /\ uses = {} \/ \E u \in {"lan"} \cup Claimants : uses = {u}
    /\ Code \in DOMAIN offers =>
          /\ offers[Code] \in Offer
          /\ \/ offers[Code].claimant = NoClaimant /\ uses = {}
             \/ offers[Code].claimant \in Claimants /\ uses = {offers[Code].claimant}

Page ==
    /\ list \subseteq Tokens
    /\ DOMAIN loads = Loads
    /\ \A l \in Loads : loads[l].list \subseteq Tokens

\* A connection; only an upgrade has its upstream socket destroyed.
Conn == [kind : {"none", "http", "ws"}, token : Tokens \cup {NoToken},
         client : {"open", "destroyed", "closed"},
         up : {"none", "open", "destroyed", "closed"},
         res : {"none", "waiting", "partial", "done"}]

Sound(x) == x \in Conn /\ (x.up = "destroyed" => x.kind = "ws")

Lan ==
    /\ proxy \in {"new", "listening", "closing", "closed"}
    /\ DOMAIN conns = Conns /\ \A c \in Conns : Sound(conns[c])

Invariant == Stores /\ Uses /\ Page /\ Lan

LEMMA BoundsAreNat == MaxTokens \in Nat /\ MaxLiveDevices \in Nat
BY AdminAssumption, LimitAssumption

-----------------------------------------------------------------------------
(***************************************************************************)
(* The operators of the store.                                             *)
(***************************************************************************)

\* A fresh token makes no store worse that does not have it.
LEMMA GoodIsMonotone ==
    ASSUME NEW ds, NEW n \in Nat, NEW T, Good(ds, n, T)
    PROVE  Good(ds, n + 1, T)
BY DEF Good

\* One row f is written, with the live rows at most those before: the token in
\* it is its old one or fresh, and not one that was revoked while it is live.
LEMMA WriteIsGood ==
    ASSUME NEW ds, NEW n \in Nat, NEW T, NEW U, Good(ds, n, T), NEW m \in {n, n + 1},
           NEW f \in DOMAIN ds, NEW row \in Row,
           NEW new, new = [ds EXCEPT ![f] = row],
           row.live => ds[f].live, row.token \in 1..m,
           row.token = ds[f].token \/ row.token = n + 1,
           row.live => row.token \notin U,
           \A d \in Live(ds) : d # f => ds[d].token \notin U
    PROVE  Good(new, m, U)
<1>1. /\ DOMAIN new = DOMAIN ds /\ new[f] = row
      /\ \A d \in DOMAIN ds : d # f => new[d] = ds[d]
  OBVIOUS
<1>2. Live(new) \in SUBSET Live(ds)
  BY <1>1 DEF Live
<1>3. IsFiniteSet(Live(new)) /\ Cardinality(Live(new)) <= MaxLiveDevices
  <2>1. /\ IsFiniteSet(Live(new)) /\ Cardinality(Live(new)) \in Nat
        /\ Cardinality(Live(ds)) \in Nat
        /\ Cardinality(Live(new)) <= Cardinality(Live(ds))
    BY <1>2, FS_Subset, FS_CardinalityType DEF Good
  <2> QED
    BY <2>1, BoundsAreNat DEF Good
<1>4. /\ DOMAIN new \subseteq 1..m
      /\ \A d \in DOMAIN new : new[d] \in Row /\ new[d].token \in 1..m
  BY <1>1 DEF Good
<1>5. \A d, e \in DOMAIN new : new[d].token = new[e].token => d = e
  <2>1. \A d \in DOMAIN ds : d # f => ds[d].token # row.token
    BY DEF Good
  <2> QED
    BY <1>1, <2>1 DEF Good
<1>6. \A d \in Live(new) : new[d].token \notin U
  BY <1>1 DEF Live
<1> QED
  BY <1>3, <1>4, <1>5, <1>6 DEF Good

\* issue() below the ceiling.
LEMMA IssueIsGood ==
    ASSUME NEW ds, NEW n \in Nat, NEW T \in SUBSET (1..n), Good(ds, n, T),
           BelowLimit(ds), NEW c \in Claimants \cup {NoClaimant}, NEW room \in Nat
    PROVE  Good(Issue(ds, n + 1, c, room, 0), n + 1, T)
<1>1. PICK new : new = Issue(ds, n + 1, c, room, 0)
  OBVIOUS
<1>2. /\ DOMAIN new = DOMAIN ds \cup {n + 1} /\ n + 1 \notin DOMAIN ds
      /\ \A d \in DOMAIN ds : new[d] = ds[d]
      /\ new[n + 1] = [token |-> n + 1, claimant |-> c, room |-> room,
                       live |-> TRUE, lastSeenAt |-> 0, pos |-> n + 1]
  BY <1>1 DEF Issue, Good
<1>3. new[n + 1] \in Row /\ new[n + 1].token = n + 1 /\ new[n + 1].live
  BY <1>2 DEF Row
<1>4. Live(new) = Live(ds) \cup {n + 1} /\ n + 1 \notin Live(ds)
  BY <1>2, <1>3 DEF Live
<1>5. IsFiniteSet(Live(new)) /\ Cardinality(Live(new)) <= MaxLiveDevices
  <2>1. /\ IsFiniteSet(Live(new)) /\ Cardinality(Live(ds)) \in Nat
        /\ Cardinality(Live(new)) = Cardinality(Live(ds)) + 1
    BY <1>4, FS_AddElement, FS_CardinalityType DEF Good
  <2> QED
    BY <2>1, BoundsAreNat DEF BelowLimit
<1>6. /\ DOMAIN new \subseteq 1..(n + 1)
      /\ \A d \in DOMAIN new : new[d] \in Row /\ new[d].token \in 1..(n + 1)
  BY <1>2, <1>3 DEF Good
<1>7. \A d, e \in DOMAIN new : new[d].token = new[e].token => d = e
  BY <1>2, <1>3 DEF Good
<1>8. \A d \in Live(new) : new[d].token \notin T
  BY <1>2, <1>3, <1>4 DEF Good, Live
<1> QED
  BY <1>1, <1>5, <1>6, <1>7, <1>8 DEF Good

\* issueOrUpdate(): whichever row is first, it is one of the live ones.
LEMMA IssueOrUpdateIsGood ==
    ASSUME NEW ds, NEW n \in Nat, NEW T \in SUBSET (1..n), Good(ds, n, T),
           NEW c \in Claimants, NEW room \in Nat, MayIssueOrUpdate(ds, c)
    PROVE  Good(IssueOrUpdate(ds, n + 1, c, room, 0), n + 1, T)
<1>1. CASE LiveOf(ds, c) = {}
  BY <1>1, IssueIsGood DEF IssueOrUpdate, MayIssueOrUpdate
<1>2. CASE LiveOf(ds, c) # {}
  <2>1. PICK f : f = First(ds, LiveOf(ds, c))
    OBVIOUS
  <2>2. PICK row : row = [ds[f] EXCEPT !.token = n + 1, !.room = room, !.lastSeenAt = 0]
    OBVIOUS
  <2>3. PICK new : new = IssueOrUpdate(ds, n + 1, c, room, 0)
    OBVIOUS
  <2>4. new = [ds EXCEPT ![f] = row]
    BY <1>2, <2>1, <2>2, <2>3 DEF IssueOrUpdate
  <2>5. CASE f \notin DOMAIN ds
    <3>1. \A d \in DOMAIN ds : new[d] = ds[d]
      BY <2>4, <2>5
    <3>2. DOMAIN new = DOMAIN ds /\ Live(new) = Live(ds)
      BY <2>4, <3>1 DEF Live
    <3>3. Good(new, n, T)
      BY <3>1, <3>2 DEF Good, Live
    <3> QED
      BY <2>3, <3>3, GoodIsMonotone
  <2>6. CASE f \in DOMAIN ds
    <3>1. ds[f] \in Row /\ n + 1 \in Nat
      BY <2>6 DEF Good
    <3>2. row \in Row /\ row.token = n + 1 /\ row.live = ds[f].live
      BY <2>2, <3>1 DEF Row
    <3>3. n + 1 \notin T /\ n + 1 \in {n, n + 1} /\ row.token \in 1..(n + 1)
      BY <3>2
    <3>4. \A d \in Live(ds) : d # f => ds[d].token \notin T
      BY DEF Good
    <3>5. Good(new, n + 1, T)
      BY <2>4, <2>6, <3>2, <3>3, <3>4, WriteIsGood
    <3> QED
      BY <2>3, <3>5
  <2> QED
    BY <2>5, <2>6
<1> QED
  BY <1>1, <1>2

\* revoke(): the token opens nothing any more.
LEMMA RevokeIsGood ==
    ASSUME NEW ds, NEW n \in Nat, NEW T, Good(ds, n, T), NEW d \in DOMAIN ds
    PROVE  /\ Good(RevokeRow(ds, d), n, T)
           /\ Good(RevokeRow(ds, d), n, T \cup {ds[d].token})
<1>1. PICK row : row = [ds[d] EXCEPT !.live = FALSE]
  OBVIOUS
<1>2. PICK new : new = RevokeRow(ds, d)
  OBVIOUS
<1>3. /\ row \in Row /\ row.token = ds[d].token /\ ~row.live /\ row.token \in 1..n
      /\ new = [ds EXCEPT ![d] = row]
  BY <1>1, <1>2 DEF Good, Row, RevokeRow
<1>4. \A e \in Live(ds) : e # d => ds[e].token \notin T \cup {ds[d].token}
  BY DEF Good, Live
<1>5. Good(new, n, T)
  BY <1>3, <1>4, WriteIsGood
<1>6. Good(new, n, T \cup {ds[d].token})
  BY <1>3, <1>4, WriteIsGood
<1> QED
  BY <1>2, <1>5, <1>6

-----------------------------------------------------------------------------
(***************************************************************************)
(* The store and the file.                                                 *)
(***************************************************************************)

\* A save leaves two good stores, whether it fails or not; it may only be
\* told of a revocation if it did not.
LEMMA SaveStep ==
    ASSUME Stores, NEW s, NEW saved \in BOOLEAN, Save(s, saved),
           issued' \in 0..MaxTokens, told' \subseteq 1..issued',
           Good(s, issued', told'), saved \/ Good(disk, issued', told')
    PROVE  Stores'
<1>1. store' = s /\ (disk' = s \/ (~saved /\ disk' = disk))
  BY DEF Save
<1> QED
  BY <1>1 DEF Stores

LEMMA IssueStep ==
    ASSUME Stores, NEW saved \in BOOLEAN, IssueOnLan(saved)
    PROVE  Stores'
<1>1. PICK s : s = Issue(store, issued + 1, NoClaimant, NoRoom, 0)
  OBVIOUS
<1>2. /\ issued \in Nat /\ issued < MaxTokens /\ BelowLimit(store)
      /\ issued' = issued + 1 /\ Save(s, saved) /\ told' = told
      /\ NoRoom \in Nat /\ told \in SUBSET (1..issued)
  BY <1>1, BoundsAreNat DEF IssueOnLan, Stores, NoRoom
<1>3. Good(s, issued + 1, told)
  BY <1>1, <1>2, IssueIsGood DEF Stores
<1>4. Good(disk, issued + 1, told)
  BY <1>2, GoodIsMonotone DEF Stores
<1>5. issued' \in 0..MaxTokens /\ told' \subseteq 1..issued'
  BY <1>2, BoundsAreNat
<1> QED
  BY <1>2, <1>3, <1>4, <1>5, SaveStep

LEMMA ClaimStep ==
    ASSUME Stores, NEW p \in Claimants, NEW saved \in BOOLEAN, NEW t \in Times,
           ClaimCode(p, saved, t)
    PROVE  Stores'
<1>1. CASE UNCHANGED <<store, disk, issued, told>>
  BY <1>1 DEF Stores
<1>2. CASE ~UNCHANGED <<store, disk, issued, told>>
  <2>1. PICK s : s = IssueOrUpdate(store, issued + 1, p, Room, 0)
    OBVIOUS
  <2>2. /\ issued \in Nat /\ issued < MaxTokens /\ MayIssueOrUpdate(store, p)
        /\ issued' = issued + 1 /\ Save(s, saved) /\ told' = told
        /\ Room \in Nat /\ told \in SUBSET (1..issued)
    BY <1>2, <2>1, BoundsAreNat DEF ClaimCode, Stores, Room
  <2>3. Good(s, issued + 1, told)
    BY <2>1, <2>2, IssueOrUpdateIsGood DEF Stores
  <2>4. Good(disk, issued + 1, told)
    BY <2>2, GoodIsMonotone DEF Stores
  <2>5. issued' \in 0..MaxTokens /\ told' \subseteq 1..issued'
    BY <2>2, BoundsAreNat
  <2> QED
    BY <2>2, <2>3, <2>4, <2>5, SaveStep
<1> QED
  BY <1>1, <1>2

\* The page is told of a revocation that is in the file.
LEMMA RevokeStep ==
    ASSUME Stores, NEW d \in Tokens, NEW body \in Bodies, NEW saved \in BOOLEAN,
           RevokeDevice(d, body, saved)
    PROVE  Stores'
<1>1. CASE ReadJsonBody(body) = 200 /\ d \in Live(store)
  <2>1. PICK s : s = RevokeRow(store, d)
    OBVIOUS
  <2>2. /\ Save(s, saved) /\ issued' = issued
        /\ told' = told \/ (saved /\ told' = told \cup {store[d].token})
    BY <1>1, <2>1 DEF RevokeDevice, Answered, SafeFetch
  <2>3. d \in DOMAIN store /\ store[d].token \in 1..issued /\ issued \in Nat
    BY <1>1, BoundsAreNat DEF Live, Stores, Good
  <2>4. Good(s, issued, told) /\ Good(s, issued, told \cup {store[d].token})
    BY <2>1, <2>3, RevokeIsGood DEF Stores
  <2>5. issued' \in 0..MaxTokens /\ told' \subseteq 1..issued'
    BY <2>2, <2>3 DEF Stores
  <2>6. saved \/ Good(disk, issued', told')
    BY <2>2 DEF Stores
  <2> QED
    BY <2>2, <2>4, <2>5, <2>6, SaveStep
<1>2. CASE ~(ReadJsonBody(body) = 200 /\ d \in Live(store))
  <2>1. UNCHANGED <<store, disk, issued>>
    BY <1>2 DEF RevokeDevice
  <2>2. told' = told
    BY <1>2 DEF RevokeDevice, Answered, SafeFetch
  <2> QED
    BY <2>1, <2>2 DEF Stores
<1> QED
  BY <1>1, <1>2

\* What saves the store as it is, or reads the file.
LEMMA QuietStore ==
    ASSUME Stores, UNCHANGED <<issued, told>>,
           \/ UNCHANGED <<store, disk>>
           \/ \E saved \in BOOLEAN : Save(store, saved)
           \/ Reborn
    PROVE  Stores'
<1>1. store' \in {store, disk} /\ disk' \in {store, disk}
  BY DEF Save, Reborn
<1> QED
  BY <1>1 DEF Stores

LEMMA NextStores == ASSUME Stores, [Next]_vars PROVE Stores'
<1>1. ASSUME NEW c \in Conns, NEW token \in Tokens \cup {NoToken}, Request(c, token)
      PROVE  Stores'
  BY <1>1, QuietStore DEF Request, tables
<1>2. ASSUME NEW c \in Conns, NEW token \in Tokens \cup {NoToken}, Upgrade(c, token)
      PROVE  Stores'
  BY <1>2, QuietStore DEF Upgrade, Reborn, tables
<1>3. ASSUME NEW d \in Tokens, NEW body \in Bodies, NEW saved \in BOOLEAN,
             RenameDevice(d, body, saved)
      PROVE  Stores'
  BY <1>3, QuietStore DEF RenameDevice
<1>4. CASE Restart
  BY <1>4, QuietStore DEF Restart, Reborn
<1>5. CASE UNCHANGED <<store, disk, issued, told>>
  BY <1>5, QuietStore
<1>6. CASE Mint \/ \E t \in Times : Redeem(t)
  BY <1>5, <1>6 DEF Mint, Redeem
<1>7. CASE PageStep
  BY <1>5, <1>7 DEF PageStep, Load, Loaded, LoadFails, LoadRefused, tables
<1>8. CASE Outside
  BY <1>3, <1>4, <1>6, <1>8, IssueStep, ClaimStep, RevokeStep DEF Outside
<1>9. CASE LanStep
  BY <1>1, <1>2, <1>5, <1>9 DEF LanStep, tables
<1>10. CASE UNCHANGED vars
  BY <1>5, <1>10 DEF vars, tables
<1> QED
  BY <1>7, <1>8, <1>9, <1>10 DEF Next

-----------------------------------------------------------------------------
(***************************************************************************)
(* The code.                                                               *)
(***************************************************************************)
LEMMA MintUses == ASSUME Uses, Mint PROVE Uses'
<1>1. PICK offer : offer = [expMs |-> TtlMs, room |-> Room,
                            claimant |-> NoClaimant, token |-> 0]
  OBVIOUS
<1>2. offer \in Offer /\ offer.claimant = NoClaimant
  BY <1>1, TtlAssumption DEF Offer, Room
<1>3. offers'[Code] = offer
  BY <1>1, TtlAssumption DEF Mint, Store, Prune
<1>4. uses = {} /\ uses' = {}
  BY DEF Mint
<1> QED
  BY <1>2, <1>3, <1>4 DEF Uses

LEMMA RedeemUses == ASSUME Uses, NEW t \in Times, Redeem(t) PROVE Uses'
<1>1. uses = {} /\ (uses' = {} \/ uses' = {"lan"}) /\ DOMAIN offers' = {}
  BY NoClaimantAssumption DEF Redeem, Uses, EmptyOffers
<1> QED
  BY <1>1 DEF Uses

LEMMA ClaimUses ==
    ASSUME Stores, Uses, NEW p \in Claimants, NEW saved \in BOOLEAN, NEW t \in Times,
           ClaimCode(p, saved, t)
    PROVE  Uses'
<1>1. /\ Code \in DOMAIN offers /\ offers[Code] \in Offer /\ p # NoClaimant
      /\ \/ offers[Code].claimant = NoClaimant /\ uses = {}
         \/ offers[Code].claimant \in Claimants /\ uses = {offers[Code].claimant}
  BY NoClaimantAssumption
  DEF ClaimCode, Claimable, Retryable, Presentable, Uses
<1>2. CASE ~saved
  <2>1. offers' = offers /\ uses' = uses
    BY <1>2 DEF ClaimCode
  <2> QED
    BY <2>1 DEF Uses
<1>3. CASE saved /\ offers[Code].claimant = NoClaimant
  <2>1. PICK offer : offer = [offers[Code] EXCEPT !.claimant = p, !.token = issued']
    OBVIOUS
  <2>2. ~Retryable(offers, Code, p, Room, t)
    BY <1>1, <1>3 DEF Retryable
  <2>3. /\ issued' = issued + 1 /\ uses' = uses \cup {p}
        /\ offers' = Claim(offers, Code, p, issued')
    BY <1>3, <2>2 DEF ClaimCode
  <2>4. offers' = [offers EXCEPT ![Code] = offer]
    BY <2>1, <2>3 DEF Claim
  <2>5. issued' \in Nat
    BY <2>3, BoundsAreNat DEF Stores
  <2>6. offer \in Offer /\ offer.claimant = p
    BY <1>1, <2>1, <2>5 DEF Offer
  <2>7. uses = {}
    BY <1>1, <1>3, NoClaimantAssumption
  <2> QED
    BY <1>1, <2>3, <2>4, <2>6, <2>7 DEF Uses
<1>4. CASE saved /\ offers[Code].claimant # NoClaimant
  <2>1. offers' = offers /\ offers[Code].claimant = p /\ uses' = uses \cup {p}
    BY <1>4 DEF ClaimCode, Claimable, Retryable
  <2> QED
    BY <1>1, <1>4, <2>1 DEF Uses
<1> QED
  BY <1>2, <1>3, <1>4

LEMMA NextUses == ASSUME Stores, Uses, [Next]_vars PROVE Uses'
<1>1. CASE UNCHANGED <<offers, uses>>
  BY <1>1 DEF Uses
<1>2. CASE Reborn
  BY <1>2 DEF Reborn, Uses, EmptyOffers
<1>3. CASE Outside
  <2>1. ASSUME NEW saved \in BOOLEAN, IssueOnLan(saved) PROVE Uses'
    BY <1>1, <2>1 DEF IssueOnLan
  <2>2. ASSUME NEW saved \in BOOLEAN, NEW d \in Tokens, NEW body \in Bodies,
               RevokeDevice(d, body, saved) \/ RenameDevice(d, body, saved)
        PROVE  Uses'
    BY <1>1, <2>2 DEF RevokeDevice, RenameDevice
  <2> QED
    BY <1>2, <1>3, <2>1, <2>2, ClaimUses, MintUses, RedeemUses DEF Outside, Restart
<1>4. CASE LanStep
  <2>1. ASSUME NEW c \in Conns, NEW token \in Tokens \cup {NoToken},
               Request(c, token) \/ Upgrade(c, token)
        PROVE  Uses'
    BY <1>1, <1>2, <2>1 DEF Request, Upgrade, tables
  <2> QED
    BY <1>1, <1>4, <2>1 DEF LanStep, tables
<1>5. CASE PageStep
  BY <1>1, <1>5 DEF PageStep, Load, Loaded, LoadFails, LoadRefused, tables
<1>6. CASE UNCHANGED vars
  BY <1>1, <1>6 DEF vars, tables
<1> QED
  BY <1>3, <1>4, <1>5, <1>6 DEF Next

-----------------------------------------------------------------------------
(***************************************************************************)
(* The page.                                                               *)
(***************************************************************************)

\* An answer is read off the store, so it names no device that was not paired.
LEMMA ListedAreTokens == ASSUME Stores PROVE Listed \subseteq Tokens
BY BoundsAreNat DEF Stores, Good, Listed, Live, Tokens

LEMMA NextPage == ASSUME Stores, Page, [Next]_vars PROVE Page'
<1>1. CASE UNCHANGED <<list, loads>>
  BY <1>1 DEF Page
<1>2. ASSUME NEW l \in Loads, Load(l) \/ Loaded(l) \/ LoadFails(l) \/ LoadRefused(l)
      PROVE  Page'
  <2>1. /\ list' \in {list, loads[l].list, {}}
        /\ \E a \in {DevicesResponse, NoAnswer} : loads' = [loads EXCEPT ![l] = a]
    BY <1>2 DEF Load, Loaded, LoadFails, LoadRefused
  <2>2. DevicesResponse.list \subseteq Tokens /\ NoAnswer.list \subseteq Tokens
    BY ListedAreTokens DEF DevicesResponse, NoAnswer
  <2> QED
    BY <2>1, <2>2 DEF Page
<1>3. CASE Outside
  BY <1>1, <1>3 DEF Outside, IssueOnLan, ClaimCode, RevokeDevice, RenameDevice,
                    Restart, Reborn, Mint, Redeem, page
<1>4. CASE LanStep
  BY <1>1, <1>4 DEF LanStep, Request, Upgrade, Reborn, page
<1>5. CASE UNCHANGED vars
  BY <1>1, <1>5 DEF vars, page
<1> QED
  BY <1>2, <1>3, <1>4, <1>5 DEF Next, PageStep

-----------------------------------------------------------------------------
(***************************************************************************)
(* The connections.                                                        *)
(***************************************************************************)

\* What becomes of the end of a connection: it does not open by itself.
Follows(x, y) == Sound(y) /\ (y.up = "open" => x.up = "open")

LEMMA ShutFollows == ASSUME NEW x, Sound(x) PROVE Follows(x, Shut(x))
<1>1. CASE x.kind = "ws"
  <2>1. PICK y : y = [x EXCEPT !.client = Destroyed(@), !.up = Destroyed(@), !.res = "done"]
    OBVIOUS
  <2>2. /\ y.kind = "ws" /\ y.token = x.token /\ y.res = "done"
        /\ y.client = Destroyed(x.client) /\ y.up = Destroyed(x.up)
        /\ y = [kind |-> y.kind, token |-> y.token, client |-> y.client,
                up |-> y.up, res |-> y.res]
    BY <1>1, <2>1 DEF Sound, Conn
  <2>3. /\ Destroyed(x.client) \in {"open", "destroyed", "closed"}
        /\ Destroyed(x.up) \in {"none", "destroyed", "closed"}
    BY DEF Sound, Conn, Destroyed
  <2>4. y \in Conn
    BY <2>2, <2>3 DEF Sound, Conn
  <2>5. Shut(x) = y
    BY <1>1, <2>1 DEF Shut
  <2> QED
    BY <2>2, <2>3, <2>4, <2>5 DEF Sound, Follows
<1>2. CASE x.kind # "ws"
  BY <1>2 DEF Shut, Follows
<1> QED
  BY <1>1, <1>2

LEMMA NowFollows == ASSUME NEW x, Sound(x) PROVE Follows(x, Now(x))
<1>1. Sound(Unused) /\ Unused.up = "none"
  BY DEF Unused, Sound, Conn
<1> QED
  BY <1>1, ShutFollows DEF Now, Follows

\* A step on one connection.
LEMMA OneConnection ==
    ASSUME Lan, NEW c \in Conns, NEW y, Sound(y), conns' = [conns EXCEPT ![c] = y],
           proxy' = proxy
    PROVE  Lan' /\ \A b \in Conns : b # c => conns'[b] = conns[b]
BY DEF Lan

\* The ends of a connection change while the proxy runs, and none opens.
Settles ==
    Lan' /\ \A c \in Conns : conns'[c].up = "open" => conns[c].up = "open"

LEMMA ProxyStepSettles == ASSUME Lan, NEW c \in Conns, ProxyStep(c) PROVE Settles
<1>1. PICK x : x = conns[c]
  OBVIOUS
<1>2. Sound(x)
  BY <1>1 DEF Lan
<1>3. \E y : /\ y = Shut(x) \/ \E z : /\ Sound(z) /\ (z.up = "open" => x.up = "open")
                                      /\ y \in {z, Now(z)}
             /\ conns' = [conns EXCEPT ![c] = y]
  <2>1. CASE UpstreamAnswers(c)
    <3>1. PICK z : z = [x EXCEPT !.res = "partial"]
      OBVIOUS
    <3>2. Sound(z) /\ z.up = x.up
      BY <1>2, <3>1 DEF Sound, Conn
    <3> QED
      BY <1>1, <2>1, <3>1, <3>2 DEF UpstreamAnswers
  <2>2. CASE UpstreamEnds(c)
    <3>1. PICK z : z = [x EXCEPT !.res = "done", !.up = "closed"]
      OBVIOUS
    <3>2. Sound(z) /\ z.up = "closed"
      BY <1>2, <3>1 DEF Sound, Conn
    <3> QED
      BY <1>1, <2>2, <3>1, <3>2 DEF UpstreamEnds
  <2>3. CASE UpstreamFails(c)
    <3>1. PICK z : z = [x EXCEPT !.up = "closed", !.res = "done"]
      OBVIOUS
    <3>2. Sound(z) /\ z.up = "closed"
      BY <1>2, <3>1 DEF Sound, Conn
    <3> QED
      BY <1>1, <2>3, <3>1, <3>2 DEF UpstreamFails
  <2>4. CASE UpstreamVanishes(c) \/ UpstreamCloses(c)
    <3>1. PICK z : z = [x EXCEPT !.up = "closed"]
      OBVIOUS
    <3>2. Sound(z) /\ z.up = "closed"
      BY <1>2, <3>1 DEF Sound, Conn
    <3> QED
      BY <1>1, <2>4, <3>1, <3>2 DEF UpstreamVanishes, UpstreamCloses
  <2>5. CASE ClientCloses(c)
    <3>1. PICK z : z = [x EXCEPT !.client = "closed"]
      OBVIOUS
    <3>2. Sound(z) /\ z.up = x.up
      BY <1>2, <3>1 DEF Sound, Conn
    <3> QED
      BY <1>1, <2>5, <3>1, <3>2 DEF ClientCloses
  <2> QED
    BY <2>1, <2>2, <2>3, <2>4, <2>5 DEF ProxyStep
<1>4. PICK y : conns' = [conns EXCEPT ![c] = y] /\ Follows(x, y)
  <2>1. PICK y : /\ y = Shut(x) \/ \E z : /\ Sound(z) /\ (z.up = "open" => x.up = "open")
                                          /\ y \in {z, Now(z)}
                 /\ conns' = [conns EXCEPT ![c] = y]
    BY <1>3
  <2>2. CASE y = Shut(x)
    BY <1>2, <2>1, <2>2, ShutFollows
  <2>3. CASE \E z : /\ Sound(z) /\ (z.up = "open" => x.up = "open")
                    /\ y \in {z, Now(z)}
    <3>1. PICK z : /\ Sound(z) /\ (z.up = "open" => x.up = "open")
                   /\ y \in {z, Now(z)}
      BY <2>3
    <3>2. Follows(z, Now(z))
      BY <3>1, NowFollows
    <3> QED
      BY <2>1, <3>1, <3>2 DEF Follows
  <2> QED
    BY <2>1, <2>2, <2>3
<1>5. proxy' = proxy
  BY DEF ProxyStep, UpstreamAnswers, UpstreamEnds, UpstreamFails, UpstreamVanishes,
         UpstreamCloses, ClientCloses
<1>6. Lan' /\ \A b \in Conns : b # c => conns'[b] = conns[b]
  BY <1>4, <1>5, OneConnection DEF Follows
<1>7. conns'[c] = y
  BY <1>4 DEF Lan
<1> QED
  BY <1>1, <1>4, <1>6, <1>7 DEF Settles, Follows

LEMMA CloseSettles == ASSUME Lan, Close PROVE Settles
<1>1. ASSUME NEW c \in Conns PROVE Follows(conns[c], conns'[c])
  <2>1. PICK x : x = conns[c]
    OBVIOUS
  <2>2. PICK z : z = [x EXCEPT !.client = Destroyed(@)]
    OBVIOUS
  <2>3. Sound(x) /\ Destroyed(x.client) \in {"open", "destroyed", "closed"}
    BY <2>1 DEF Lan, Sound, Conn, Destroyed
  <2>4. Sound(z) /\ z.up = x.up
    BY <2>2, <2>3 DEF Sound, Conn
  <2>5. conns'[c] = Shut(z)
    BY <2>1, <2>2 DEF Close
  <2> QED
    BY <2>1, <2>4, <2>5, ShutFollows DEF Follows
<1>2. DOMAIN conns' = Conns /\ proxy' = "closing"
  BY DEF Close
<1> QED
  BY <1>1, <1>2 DEF Settles, Lan, Follows

LEMMA RebornSettles == ASSUME Reborn PROVE Settles
<1>1. Sound(Unused) /\ Unused.up = "none"
  BY DEF Unused, Sound, Conn
<1>2. proxy' = "new" /\ DOMAIN conns' = Conns /\ \A c \in Conns : conns'[c] = Unused
  BY DEF Reborn
<1> QED
  BY <1>1, <1>2 DEF Settles, Lan

\* A connection is answered at once or opened for a token that the store
\* admits, whose revocation the page was not told of.
Admits ==
    Lan' /\ \A c \in Conns : conns'[c].up = "open" =>
                conns[c].up = "open" \/ conns'[c].token \notin told

LEMMA ArrivalAdmits ==
    ASSUME Stores, Lan, NEW c \in Conns, NEW token \in Tokens \cup {NoToken},
           proxy' = proxy,
           \/ AnswerAtOnce(c) \/ RefuseUpgrade(c)
           \/ Matching(token) # {} /\ (Forward(c, token) \/ ConnectUpgrade(c, token))
    PROVE  Admits
<1>1. CASE AnswerAtOnce(c) \/ RefuseUpgrade(c)
  <2>1. \E y : Sound(y) /\ y.up = "none" /\ conns' = [conns EXCEPT ![c] = y]
    BY <1>1 DEF AnswerAtOnce, RefuseUpgrade, Accepted, Sound, Conn
  <2> QED
    BY <2>1, OneConnection DEF Admits, Lan
<1>2. CASE Matching(token) # {} /\ (Forward(c, token) \/ ConnectUpgrade(c, token))
  <2>1. \E y : Sound(y) /\ y.token = token /\ conns' = [conns EXCEPT ![c] = y]
    BY <1>2 DEF Forward, ConnectUpgrade, Accepted, Sound, Conn
  <2>2. token \notin told
    BY <1>2 DEF Matching, MayAuthenticate, Stores, Good
  <2> QED
    BY <2>1, <2>2, OneConnection DEF Admits, Lan
<1> QED
  BY <1>1, <1>2

LEMMA NextLan == ASSUME Stores, Lan, [Next]_vars PROVE Admits
<1>1. CASE Settles
  BY <1>1 DEF Settles, Admits
<1>2. CASE UNCHANGED <<proxy, conns>>
  BY <1>1, <1>2 DEF Settles, Lan
<1>3. CASE Reborn
  BY <1>1, <1>3, RebornSettles
<1>4. CASE Outside
  BY <1>2, <1>3, <1>4 DEF Outside, IssueOnLan, ClaimCode, RevokeDevice, RenameDevice,
                          Restart, Mint, Redeem
<1>5. CASE LanStep
  <2>1. ASSUME NEW c \in Conns, NEW token \in Tokens \cup {NoToken}, Request(c, token)
        PROVE  Admits
    BY <2>1, ArrivalAdmits DEF Request
  <2>2. ASSUME NEW c \in Conns, NEW token \in Tokens \cup {NoToken}, Upgrade(c, token)
        PROVE  Admits
    BY <1>3, <2>2, ArrivalAdmits DEF Upgrade
  <2>3. CASE Listen \/ Closed
    BY <1>1, <2>3 DEF Listen, Closed, Settles, Lan
  <2> QED
    BY <1>1, <1>5, <2>1, <2>2, <2>3, ProxyStepSettles, CloseSettles DEF LanStep
<1>6. CASE PageStep
  BY <1>2, <1>6 DEF PageStep, Load, Loaded, LoadFails, LoadRefused
<1>7. CASE UNCHANGED vars
  BY <1>2, <1>7 DEF vars
<1> QED
  BY <1>4, <1>5, <1>6, <1>7 DEF Next

-----------------------------------------------------------------------------
LEMMA InitInvariant == Init => Invariant
<1> SUFFICES ASSUME Init PROVE Invariant
  OBVIOUS
<1>1. Stores
  <2>1. DOMAIN store = {} /\ disk = store /\ issued = 0 /\ told = {}
    BY DEF Init
  <2>2. Live(store) = {}
    BY <2>1 DEF Live
  <2>3. IsFiniteSet(Live(store)) /\ Cardinality(Live(store)) = 0
    BY <2>2, FS_EmptySet
  <2> QED
    BY <2>1, <2>2, <2>3, BoundsAreNat DEF Stores, Good
<1>2. Uses
  BY DEF Init, Uses, EmptyOffers
<1>3. Page
  BY DEF Init, Page, NoAnswer
<1>4. Lan
  BY DEF Init, ProxyInit, Unused, Lan, Sound, Conn
<1> QED
  BY <1>1, <1>2, <1>3, <1>4 DEF Invariant

LEMMA NextInvariant == Invariant /\ [Next]_vars => Invariant' /\ Admits
BY NextStores, NextUses, NextPage, NextLan DEF Invariant, Admits

LEMMA AdminInvariant == Spec => []Invariant
BY InitInvariant, NextInvariant, PTL DEF Spec

\* The code that the owner shows is good for one: whoever redeems it on the
\* LAN or claims it through the tunnel takes it from all others, also when the
\* save of the claim fails, and is the only one ever told that it was good;
\* and at no time are more devices live than the ceiling allows
\* (pairing.ts:155-160, pairing.ts:174-188, tokens.ts:79).
THEOREM AdminCodeUsedOnce == Spec => []CodeUsedOnce
<1>1. Stores => Cardinality(Live(store)) <= MaxLiveDevices /\ told \subseteq Tokens
  BY BoundsAreNat DEF Stores, Good, Tokens
<1>2. Stores /\ Uses /\ Page /\ Lan => TypeOK
  BY <1>1 DEF TypeOK, Stores, Good, Uses, Page, Lan, Sound, Conn
<1>3. Uses => Cardinality(uses) <= 1
  <2>1. Cardinality({}) = 0 /\ \A u : Cardinality({u}) = 1
    BY FS_EmptySet, FS_Singleton
  <2>2. ASSUME Uses PROVE Cardinality(uses) \in {0, 1}
    BY <2>1, <2>2 DEF Uses
  <2> QED
    BY <2>2
<1>4. Invariant => CodeUsedOnce
  BY <1>2, <1>3 DEF Invariant, CodeUsedOnce
<1> QED
  BY <1>4, AdminInvariant, PTL

\* Nothing is forwarded for a token once the page was told that its device is
\* revoked, whatever saves fail and whenever the process is started again
\* (settings-page.ts:89, proxy.ts:84, proxy.ts:122, tokens.ts:173).
THEOREM AdminRevokedShutOut == Spec => RevokedShutOut
<1>1. Invariant /\ [Next]_vars =>
         \A c \in Conns : conns[c].up = "none" /\ conns'[c].up = "open" =>
                             conns'[c].token \notin told
  BY NextInvariant DEF Admits
<1> QED
  BY <1>1, AdminInvariant, PTL DEF Spec, RevokedShutOut
-----------------------------------------------------------------------------
(***************************************************************************)
(* The settings card, which shows the endpoint and its QR, for any          *)
(* addresses, polls and saves.  The card has a mode of its own, the one     *)
(* that is selected.  That a QR is of the selection rests on whose it may   *)
(* be: the Host's, but while a save that has changed that is still to be    *)
(* answered.                                                               *)
(***************************************************************************)
QrShaped ==
    qr \in [at : {"none", "asked", "answered", "shown", "error"}, of : Status \cup {Nothing}]

\* A QR that was answered is of the Host's selection, unless a save has changed
\* that and its answer, which makes a new QR due, is on its way.
QrFollows ==
    ~disturbed /\ qr.at \in {"answered", "shown"} =>
        \/ SameSelection(qr.of)
        \/ \E i \in 1..MaxSaves : saves[i].at = "saved"

QrInv == CardTypeOK /\ QrShaped /\ QrFollows

LEMMA StatusParts ==
    \A s \in Status :
        /\ s.mode \in {"quick", "relay"} /\ s.url \in Relays \cup Tunnels \cup {NoUrl}
        /\ s.mode = "relay" => s.url \in Relays
BY DEF Status, Quick, Relay

LEMMA SaveParts ==
    \A v \in EndpointSave :
        v.want \in Relays \cup {NoUrl} /\ v.at \in {"none", "sent", "saved", "loading"}
BY DEF EndpointSave

\* A QR is on the screen as long as it is offered, and only a new one is
\* answered.
LEMMA Rendered ==
    ASSUME CardTypeOK, QrShaped, NEW bump \in BOOLEAN, Render(bump)
    PROVE  /\ QrShaped' /\ ((qr'.at = "none") <=> ~Offered')
           /\ (qr' = qr /\ ~bump) \/ qr'.at \notin {"answered", "shown"}
BY DEF CardTypeOK, QrShaped, Render, NoQr, FreshQr

\* The form and the status are filled.
LEMMA Received ==
    ASSUME CardTypeOK, NEW got \in Status \cup {Lost}, Receive(got)
    PROVE  /\ status' \in Status \cup {Nothing, Lost} /\ mode' \in {"quick", "relay"}
           /\ relayUrl' \in Relays \cup {NoUrl} /\ hydrated' \in BOOLEAN
           /\ liveEndpoint' \in Relays \cup Tunnels \cup {NoUrl}
BY StatusParts DEF CardTypeOK, Receive, Failed, Adopt, draft, refs

LEMMA IdleSave == Idle \in EndpointSave
BY DEF Idle, EndpointSave

\* One of the saves goes on.
LEMMA SaveGoes ==
    ASSUME CardTypeOK, NEW i \in 1..MaxSaves, NEW v \in EndpointSave,
           saves' = [saves EXCEPT ![i] = v]
    PROVE  /\ saves' \in [1..MaxSaves -> EndpointSave] /\ saves'[i] = v
           /\ \A k \in 1..MaxSaves : k # i => saves'[k] = saves[k]
BY DEF CardTypeOK

\* The Host's selection and the saves are those of before, but that a save has
\* been sent, is loading or is over.
LEMMA CardFollows ==
    ASSUME QrFollows, UNCHANGED <<host, saves>> \/
              (UNCHANGED host /\ \E i \in 1..MaxSaves :
                 /\ saves[i].at # "saved" \/ disturbed'
                 /\ \A k \in 1..MaxSaves : k # i => saves'[k] = saves[k]),
           disturbed => disturbed',
           qr' = qr \/ qr'.at \notin {"answered", "shown"}
    PROVE  QrFollows'
BY DEF QrFollows, SameSelection

LEMMA QrInvStep == QrInv /\ [CardNext]_cardVars => QrInv'
<1> SUFFICES ASSUME QrInv, [CardNext]_cardVars PROVE QrInv'
    OBVIOUS
<1> USE DEF QrInv
<1>1. CASE UNCHANGED cardVars
    BY <1>1 DEF cardVars, draft, refs, CardTypeOK, QrShaped, QrFollows, Offered, StatusLoaded,
                Dirty, AddressLoading, AddressFailed, SameSelection
<1>2. CASE TunnelMoves \/ OtherPage
    <2>1. /\ UNCHANGED <<status, mode, relayUrl, hydrated, liveEndpoint, saving, saves, polls, qr>>
          /\ host' \in Status /\ disturbed' \in BOOLEAN /\ (disturbed => disturbed')
          /\ ~disturbed' => host.mode = "quick" /\ host'.mode = "quick"
        <3>1. CASE TunnelMoves
            <4>1. disturbed' = disturbed /\ disturbed \in BOOLEAN
                BY <3>1 DEF TunnelMoves, CardTypeOK
            <4>2. /\ UNCHANGED <<status, mode, relayUrl, hydrated, liveEndpoint, saving, saves,
                                 polls, qr>>
                  /\ host' \in Status /\ host.mode = "quick" /\ host'.mode = "quick"
                BY <3>1 DEF TunnelMoves, draft, refs
            <4> QED BY <4>1, <4>2
        <3>2. CASE OtherPage
            BY <3>2 DEF OtherPage, draft, refs
        <3> QED BY <1>2, <3>1, <3>2
    <2>2. Offered' <=> Offered
        BY <2>1 DEF Offered, StatusLoaded, Dirty, AddressLoading, AddressFailed
    <2>3. CardTypeOK' /\ QrShaped'
        BY <2>1, <2>2 DEF CardTypeOK, QrShaped
    <2>4. QrFollows'
        BY <2>1 DEF QrFollows, SameSelection
    <2> QED BY <2>3, <2>4
<1>3. CASE Poll
    <2>1. /\ UNCHANGED <<host, disturbed, status, mode, relayUrl, hydrated, liveEndpoint, saving,
                         saves, qr>>
          /\ polls' \subseteq Status
        BY <1>3 DEF Poll, draft, refs, CardTypeOK
    <2>2. Offered' <=> Offered
        BY <2>1 DEF Offered, StatusLoaded, Dirty, AddressLoading, AddressFailed
    <2>3. CardTypeOK' /\ QrShaped'
        BY <2>1, <2>2 DEF CardTypeOK, QrShaped
    <2> QED BY <2>1, <2>3, CardFollows
<1>4. ASSUME NEW got \in polls, PollArrives(got) PROVE QrInv'
    <2>1. /\ UNCHANGED <<host, saving, saves>> /\ polls' \subseteq Status
          /\ disturbed' \in BOOLEAN /\ (disturbed => disturbed')
          /\ got \in Status \cup {Lost} /\ Receive(got)
        BY <1>4 DEF PollArrives, CardTypeOK
    <2>2. PICK bump \in BOOLEAN : Render(bump)
        BY <1>4 DEF PollArrives, Moved
    <2>3. CardTypeOK' /\ QrShaped'
        BY <2>1, <2>2, Rendered, Received DEF CardTypeOK
    <2> QED BY <2>1, <2>2, <2>3, Rendered, CardFollows
<1>5. CASE PollFails
    <2>1. UNCHANGED <<host, disturbed, saving, saves, polls>> /\ Receive(Lost)
        BY <1>5 DEF PollFails
    <2>2. PICK bump \in BOOLEAN : Render(bump)
        BY <1>5 DEF PollFails
    <2>3. CardTypeOK' /\ QrShaped'
        BY <2>1, <2>2, Rendered, Received DEF CardTypeOK
    <2> QED BY <2>1, <2>2, <2>3, Rendered, CardFollows
<1>6. CASE QrAnswered \/ QrShown \/ QrFails
    <2>1. UNCHANGED <<host, disturbed, status, mode, relayUrl, hydrated, liveEndpoint, saving,
                      saves, polls>>
        BY <1>6 DEF QrAnswered, QrShown, QrFails, draft, refs
    <2>2. QrShaped' /\ qr.at # "none" /\ qr'.at # "none"
        BY <1>6 DEF QrAnswered, QrShown, QrFails, QrShaped, CardTypeOK
    <2>3. Offered' <=> Offered
        BY <2>1 DEF Offered, StatusLoaded, Dirty, AddressLoading, AddressFailed
    <2>4. CardTypeOK'
        BY <2>1, <2>2, <2>3 DEF CardTypeOK
    <2>5. \/ qr'.of = host \/ qr'.at \notin {"answered", "shown"}
          \/ qr'.of = qr.of /\ qr.at \in {"answered", "shown"}
        BY <1>6 DEF QrAnswered, QrShown, QrFails, QrShaped
    <2>6. QrFollows'
        BY <2>1, <2>5 DEF QrFollows, SameSelection
    <2> QED BY <2>2, <2>4, <2>6
<1>7. CASE Rotate
    <2>1. UNCHANGED <<host, disturbed, status, mode, relayUrl, hydrated, liveEndpoint, saving,
                      saves, polls>>
        BY <1>7 DEF Rotate, draft, refs
    <2>2. Render(TRUE)
        BY <1>7 DEF Rotate
    <2>3. CardTypeOK' /\ QrShaped'
        BY <2>1, <2>2, Rendered DEF CardTypeOK
    <2> QED BY <2>1, <2>2, <2>3, Rendered, CardFollows
<1>8. ASSUME NEW want \in Relays \cup {NoUrl},
             Send(want) \/ UNCHANGED <<saving, saves>>,
             UNCHANGED <<host, disturbed, status, hydrated, liveEndpoint, polls>>,
             mode' \in {"quick", "relay"}, relayUrl' \in Relays \cup {NoUrl}, Render(FALSE)
      PROVE  QrInv'
    <2>1. QrShaped' /\ ((qr'.at = "none") <=> ~Offered')
          /\ (qr' = qr \/ qr'.at \notin {"answered", "shown"})
        BY <1>8, Rendered
    <2>2. CASE UNCHANGED <<saving, saves>>
        <3>1. CardTypeOK'
            BY <1>8, <2>1, <2>2 DEF CardTypeOK
        <3> QED BY <1>8, <2>1, <2>2, <3>1, CardFollows
    <2>3. CASE Send(want)
        <3>1. PICK i \in 1..MaxSaves :
                 /\ saves[i].at = "none"
                 /\ saves' = [saves EXCEPT ![i] = [want |-> want, at |-> "sent"]]
                 /\ saving' = TRUE
            BY <2>3 DEF Send
        <3>2. PICK v \in EndpointSave : v = [want |-> want, at |-> "sent"]
            BY DEF EndpointSave
        <3>3. /\ saves' \in [1..MaxSaves -> EndpointSave]
              /\ \A k \in 1..MaxSaves : k # i => saves'[k] = saves[k]
            BY <3>1, <3>2, SaveGoes
        <3>4. CardTypeOK'
            BY <1>8, <2>1, <3>1, <3>3 DEF CardTypeOK
        <3> QED BY <1>8, <2>1, <3>1, <3>3, <3>4, CardFollows
    <2> QED BY <1>8, <2>2, <2>3
<1>9. CASE SelectQuick \/ SelectRelay \/ Submit \/ Retry
    <2>1. /\ UNCHANGED <<host, disturbed, status, hydrated, liveEndpoint, polls>>
          /\ mode' \in {"quick", "relay"} /\ relayUrl' \in Relays \cup {NoUrl} /\ Render(FALSE)
        BY <1>9 DEF SelectQuick, SelectRelay, Submit, Retry, draft, refs, CardTypeOK
    <2>2. \/ Send(NoUrl) \/ Send(relayUrl) \/ UNCHANGED <<saving, saves>>
        BY <1>9 DEF SelectQuick, SelectRelay, Submit, Retry
    <2>3. NoUrl \in Relays \cup {NoUrl} /\ relayUrl \in Relays \cup {NoUrl}
        BY DEF CardTypeOK
    <2> QED BY <1>8, <2>1, <2>2, <2>3
<1>10. ASSUME NEW url \in Relays, Type(url) PROVE QrInv'
    <2>1. /\ UNCHANGED <<host, disturbed, status, mode, hydrated, liveEndpoint, saving, saves,
                         polls>>
          /\ relayUrl' \in Relays \cup {NoUrl} /\ Render(FALSE)
        BY <1>10 DEF Type, refs
    <2> QED BY <1>8, <2>1 DEF CardTypeOK
<1>11. ASSUME NEW i \in 1..MaxSaves, HostSaves(i) PROVE QrInv'
    <2>1. /\ UNCHANGED <<disturbed, status, mode, relayUrl, hydrated, liveEndpoint, saving,
                         polls, qr>>
          /\ saves[i] \in EndpointSave
        BY <1>11 DEF HostSaves, draft, refs, CardTypeOK
    <2>2. host' \in Status
        BY <1>11, <2>1, SaveParts DEF HostSaves, Status
    <2>3. PICK v \in EndpointSave : v = [saves[i] EXCEPT !.at = "saved"]
        BY <2>1 DEF EndpointSave
    <2>4. saves' = [saves EXCEPT ![i] = v]
        BY <1>11, <2>3 DEF HostSaves
    <2>5. saves' \in [1..MaxSaves -> EndpointSave] /\ saves'[i] = v
        BY <2>4, SaveGoes
    <2>6. Offered' <=> Offered
        BY <2>1 DEF Offered, StatusLoaded, Dirty, AddressLoading, AddressFailed
    <2>7. CardTypeOK' /\ QrShaped'
        BY <2>1, <2>2, <2>5, <2>6 DEF CardTypeOK, QrShaped
    <2>8. v.at = "saved"
        BY <2>1, <2>3 DEF EndpointSave
    <2>9. QrFollows'
        BY <2>5, <2>8 DEF QrFollows
    <2> QED BY <2>7, <2>9
<1>12. ASSUME NEW i \in 1..MaxSaves, SaveFails(i) PROVE QrInv'
    <2>1. /\ UNCHANGED <<host, status, mode, relayUrl, hydrated, liveEndpoint, polls>>
          /\ saving' = FALSE /\ disturbed' = (disturbed \/ saves[i].at = "saved")
          /\ Render(FALSE)
        BY <1>12 DEF SaveFails, draft, refs
    <2>2. /\ saves' \in [1..MaxSaves -> EndpointSave]
          /\ \A k \in 1..MaxSaves : k # i => saves'[k] = saves[k]
        BY <1>12, IdleSave, SaveGoes DEF SaveFails
    <2>3. /\ QrShaped' /\ ((qr'.at = "none") <=> ~Offered')
          /\ qr' = qr \/ qr'.at \notin {"answered", "shown"}
        BY <2>1, Rendered
    <2>4. disturbed' \in BOOLEAN /\ (disturbed => disturbed')
        BY <2>1 DEF CardTypeOK
    <2>5. CardTypeOK'
        BY <2>1, <2>2, <2>3, <2>4 DEF CardTypeOK
    <2>6. saves[i].at # "saved" \/ disturbed'
        BY <2>1
    <2>7. QrFollows'
        BY <2>1, <2>2, <2>3, <2>4, <2>6, CardFollows
    <2> QED BY <2>3, <2>5, <2>7
<1>13. ASSUME NEW i \in 1..MaxSaves, SaveSucceeds(i) PROVE QrInv'
    <2>1. /\ UNCHANGED <<host, disturbed, status, relayUrl, hydrated, liveEndpoint, saving, polls>>
          /\ mode' \in {"quick", "relay"} /\ saves[i] \in EndpointSave /\ Render(TRUE)
        BY <1>13 DEF SaveSucceeds, refs, CardTypeOK
    <2>2. PICK v \in EndpointSave : v = [saves[i] EXCEPT !.at = "loading"]
        BY <2>1 DEF EndpointSave
    <2>3. saves' = [saves EXCEPT ![i] = v]
        BY <1>13, <2>2 DEF SaveSucceeds
    <2>4. saves' \in [1..MaxSaves -> EndpointSave]
        BY <2>3, SaveGoes
    <2>5. /\ QrShaped' /\ ((qr'.at = "none") <=> ~Offered')
          /\ qr'.at \notin {"answered", "shown"}
        BY <2>1, Rendered
    <2>6. CardTypeOK'
        BY <2>1, <2>4, <2>5 DEF CardTypeOK
    <2>7. QrFollows'
        BY <2>5 DEF QrFollows
    <2> QED BY <2>5, <2>6, <2>7
<1>14. ASSUME NEW i \in 1..MaxSaves, NEW got \in {host, Lost}, SaveEnds(i, got) PROVE QrInv'
    <2>1. /\ UNCHANGED <<host, disturbed, polls>> /\ saving' = FALSE
          /\ got \in Status \cup {Lost} /\ Receive(got) /\ saves[i].at = "loading"
        BY <1>14 DEF SaveEnds, CardTypeOK
    <2>2. PICK bump \in BOOLEAN : Render(bump)
        BY <1>14 DEF SaveEnds, Moved
    <2>3. /\ saves' \in [1..MaxSaves -> EndpointSave]
          /\ \A k \in 1..MaxSaves : k # i => saves'[k] = saves[k]
        BY <1>14, IdleSave, SaveGoes DEF SaveEnds
    <2>4. /\ QrShaped' /\ ((qr'.at = "none") <=> ~Offered')
          /\ qr' = qr \/ qr'.at \notin {"answered", "shown"}
        BY <2>2, Rendered
    <2>5. CardTypeOK'
        BY <2>1, <2>3, <2>4, Received DEF CardTypeOK
    <2>6. QrFollows'
        BY <2>1, <2>3, <2>4, CardFollows
    <2> QED BY <2>4, <2>5, <2>6
<1> QED BY <1>1, <1>2, <1>3, <1>4, <1>5, <1>6, <1>7, <1>9, <1>10, <1>11, <1>12, <1>13, <1>14
        DEF CardNext

\* While the form is as the Host last told it, no save is under way and nothing
\* has come in behind the card's back (another page's save, a late or a lost
\* answer), a QR on the screen is of the mode and the relay the form shows:
\* setQrReload after a save (client/index.tsx) asks for a new one.
THEOREM CardQrOfSelection == CardSpec => []QrOfSelection
<1>1. CardInit => QrInv
    <2> SUFFICES ASSUME CardInit PROVE QrInv
        OBVIOUS
    <2>1. ~Offered
        BY DEF CardInit, Offered, StatusLoaded
    <2>2. QrShaped /\ QrFollows /\ qr.at = "none"
        BY DEF CardInit, NoQr, QrShaped, QrFollows
    <2>3. saves \in [1..MaxSaves -> EndpointSave]
        BY DEF CardInit, Idle, EndpointSave
    <2>4. CardTypeOK
        BY <2>1, <2>2, <2>3 DEF CardInit, CardTypeOK
    <2> QED BY <2>2, <2>4 DEF QrInv
<1>2. QrInv /\ [CardNext]_cardVars => QrInv'
    BY QrInvStep
<1>3. QrInv => QrOfSelection
    <2> SUFFICES ASSUME QrInv, ~disturbed, NoSave, SameSelection(status), qr.at = "shown"
                 PROVE  qr.of.mode = mode /\ (mode = "relay" => qr.of.url = relayUrl)
        BY DEF QrOfSelection, QrInv
    <2>1. SameSelection(qr.of)
        BY DEF QrInv, QrFollows, NoSave
    <2>2. ~Dirty /\ StatusLoaded
        BY DEF QrInv, CardTypeOK, Offered
    <2> QED BY <2>1, <2>2 DEF Dirty, SameSelection
<1> QED BY <1>1, <1>2, <1>3, PTL DEF CardSpec
=============================================================================
