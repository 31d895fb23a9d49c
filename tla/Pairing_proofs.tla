--------------------------- MODULE Pairing_proofs ---------------------------
(***************************************************************************)
(* Credentials is an inductive invariant of Pairing, for any number of     *)
(* clients, codes, tokens, rooms and clock ticks.  The store operators are *)
(* treated first, one lemma each: they keep a store Sound with respect to  *)
(* what was acknowledged and revoked.  The step theorem then only has to   *)
(* follow which of the two stores, memory or file, an action replaces.     *)
(***************************************************************************)
EXTENDS Pairing, WellFoundedInduction, FiniteSetTheorems, TLAPS

\* What the invariant says of one store, when n tokens have been generated,
\* A was acknowledged and R was revoked.
Sound(ds, n, A, R) ==
    /\ DOMAIN ds \subseteq 1..n
    /\ \A d \in DOMAIN ds : ds[d] \in Row /\ ds[d].token \in 1..n
    /\ \A d, e \in DOMAIN ds : ds[d].token = ds[e].token => d = e
    /\ \A d \in DOMAIN ds, a \in A :
          ds[d].token = a.token => ds[d].claimant = a.claimant
    /\ \A d \in DOMAIN ds : ds[d].live => ds[d].token \notin R

\* Every non-empty set of natural numbers has a least element.
LEMMA LeastExists ==
    ASSUME NEW S, S \subseteq Nat, S # {}
    PROVE  \E m \in S : \A k \in S : m <= k
<1> DEFINE R == OpToRel(<, Nat)
<1>1. IsWellFoundedOn(R, Nat)
  BY NatLessThanWellFounded
<1>2. \A x, y \in Nat : x < y => <<x, y>> \in R
  BY DEF OpToRel
<1> HIDE DEF R
<1>3. PICK m \in S : \A k \in S : ~(<<k, m>> \in R)
  BY <1>1, WFMin
<1>4. \A k \in S : ~(k < m)
  BY <1>2, <1>3
<1> QED
  BY <1>4

\* First picks a member of a non-empty set of rows.
LEMMA FirstIsMember ==
    ASSUME NEW ds, NEW S, S # {}, \A d \in S : ds[d].pos \in Nat
    PROVE  First(ds, S) \in S
<1> DEFINE P == {ds[d].pos : d \in S}
<1>1. PICK m \in P : \A k \in P : m <= k
  <2>1. P \subseteq Nat /\ P # {}
    OBVIOUS
  <2> QED
    BY <2>1, LeastExists
<1>2. \E d \in S : \A e \in S : ds[d].pos <= ds[e].pos
  BY <1>1
<1> QED
  BY <1>2 DEF First

\* A store stays sound when one row f is written or added, if the row is
\* well-formed and its token is not in use, belongs to the key it was
\* acknowledged to and is not revoked while the row is live.
LEMMA WriteIsSound ==
    ASSUME NEW ds, NEW n \in Nat, NEW m \in Nat, n <= m, NEW A, NEW R,
           Sound(ds, n, A, R),
           NEW new, NEW f, DOMAIN new = DOMAIN ds \cup {f}, f \in 1..m,
           \A d \in DOMAIN ds : d # f => new[d] = ds[d],
           new[f] \in Row, new[f].token \in 1..m,
           \A d \in DOMAIN ds : d # f => ds[d].token # new[f].token,
           \A a \in A : a.token = new[f].token => a.claimant = new[f].claimant,
           new[f].live => new[f].token \notin R
    PROVE  Sound(new, m, A, R)
<1>1. /\ DOMAIN ds \subseteq 1..m
      /\ \A d \in DOMAIN ds : ds[d] \in Row /\ ds[d].token \in 1..m
  BY DEF Sound
<1>2. DOMAIN new \subseteq 1..m
  BY <1>1
<1>3. \A d \in DOMAIN new : new[d] \in Row /\ new[d].token \in 1..m
  BY <1>1
<1>4. ASSUME NEW d \in DOMAIN new, NEW e \in DOMAIN new,
             new[d].token = new[e].token
      PROVE  d = e
  <2>1. CASE d = f \/ e = f
    BY <1>4, <2>1
  <2>2. CASE d # f /\ e # f
    BY <1>4, <2>2 DEF Sound
  <2> QED
    BY <2>1, <2>2
<1>5. \A d \in DOMAIN new, a \in A :
         new[d].token = a.token => new[d].claimant = a.claimant
  BY DEF Sound
<1>6. \A d \in DOMAIN new : new[d].live => new[d].token \notin R
  BY DEF Sound
<1> QED
  BY <1>2, <1>3, <1>4, <1>5, <1>6 DEF Sound

\* A store stays sound when an acknowledgement agrees with its rows.
LEMMA AckIsSound ==
    ASSUME NEW ds, NEW n, NEW A, NEW R, Sound(ds, n, A, R), NEW a,
           \A d \in DOMAIN ds :
              ds[d].token = a.token => ds[d].claimant = a.claimant
    PROVE  Sound(ds, n, A \cup {a}, R)
BY DEF Sound

\* Nothing said of a store is lost when a fresh token is generated and
\* acknowledged elsewhere.
LEMMA SoundIsMonotone ==
    ASSUME NEW ds, NEW n \in Nat, NEW A, NEW R, Sound(ds, n, A, R),
           NEW a, a.token = n + 1
    PROVE  Sound(ds, n + 1, A, R) /\ Sound(ds, n + 1, A \cup {a}, R)
<1>1. Sound(ds, n + 1, A, R)
  BY DEF Sound
<1>2. \A d \in DOMAIN ds : ds[d].token # a.token
  BY DEF Sound
<1> QED
  BY <1>1, <1>2, AckIsSound

\* issueOrUpdate() leaves a sound store in which the fresh token sits in one
\* row, bound to the key that asked for it.
LEMMA IssueOrUpdateIsSound ==
    ASSUME NEW ds, NEW n \in Nat, NEW A, NEW R, Sound(ds, n, A, R),
           \A a \in A : a.token \in 1..n, R \subseteq 1..n,
           NEW c \in Claimants, NEW room \in Nat, NEW t \in Nat,
           NEW a, a.token = n + 1, a.claimant = c
    PROVE  /\ Sound(IssueOrUpdate(ds, n + 1, c, room, t), n + 1, A, R)
           /\ Sound(IssueOrUpdate(ds, n + 1, c, room, t), n + 1, A \cup {a}, R)
<1> DEFINE new == IssueOrUpdate(ds, n + 1, c, room, t)
<1>1. \E f \in 1..(n + 1) :
         /\ DOMAIN new = DOMAIN ds \cup {f}
         /\ \A d \in DOMAIN ds : d # f => new[d] = ds[d]
         /\ new[f] \in Row /\ new[f].token = n + 1 /\ new[f].claimant = c
  <2>1. CASE LiveOf(ds, c) = {}
    <3>1. new = Issue(ds, n + 1, c, room, t)
      BY <2>1 DEF IssueOrUpdate
    <3> HIDE DEF new
    <3>2. /\ DOMAIN new = DOMAIN ds \cup {n + 1}
          /\ \A d \in DOMAIN ds : d # n + 1 => new[d] = ds[d]
          /\ new[n + 1] = [token |-> n + 1, claimant |-> c, room |-> room,
                           live |-> TRUE, lastSeenAt |-> t, pos |-> n + 1]
      BY <3>1 DEF Issue
    <3>3. new[n + 1] \in Row
      BY <3>2 DEF Row
    <3> QED
      BY <3>2, <3>3
  <2>2. CASE LiveOf(ds, c) # {}
    <3> DEFINE f == First(ds, LiveOf(ds, c))
               row == [ds[f] EXCEPT !.token = n + 1, !.room = room,
                                    !.lastSeenAt = t]
    <3>1. f \in LiveOf(ds, c)
      <4>1. \A d \in LiveOf(ds, c) : ds[d].pos \in Nat
        BY DEF LiveOf, Live, Sound, Row
      <4> QED
        BY <2>2, <4>1, FirstIsMember
    <3>2. new = [ds EXCEPT ![f] = row]
      BY <2>2 DEF IssueOrUpdate
    <3> HIDE DEF f, new
    <3>3. f \in DOMAIN ds /\ f \in 1..n /\ ds[f].claimant = c /\ ds[f] \in Row
      BY <3>1 DEF LiveOf, Live, Sound
    <3>4. row \in Row /\ row.token = n + 1 /\ row.claimant = c
      <4>1. n + 1 \in Nat
        OBVIOUS
      <4> QED
        BY <3>3, <4>1 DEF Row
    <3> HIDE DEF row
    <3>5. /\ DOMAIN new = DOMAIN ds \cup {f}
          /\ \A d \in DOMAIN ds : d # f => new[d] = ds[d]
          /\ new[f] = row
      BY <3>2, <3>3
    <3> QED
      BY <3>3, <3>4, <3>5
  <2> QED
    BY <2>1, <2>2
<1> HIDE DEF new
<1>2. PICK f \in 1..(n + 1) :
         /\ DOMAIN new = DOMAIN ds \cup {f}
         /\ \A d \in DOMAIN ds : d # f => new[d] = ds[d]
         /\ new[f] \in Row /\ new[f].token = n + 1 /\ new[f].claimant = c
  BY <1>1
<1>3. \A d \in DOMAIN ds : ds[d].token # n + 1
  BY DEF Sound
<1>4. Sound(new, n + 1, A, R)
  BY <1>2, <1>3, WriteIsSound
<1>5. \A d \in DOMAIN new :
         new[d].token = a.token => new[d].claimant = a.claimant
  BY <1>2, <1>3
<1>6. Sound(new, n + 1, A \cup {a}, R)
  BY <1>4, <1>5, AckIsSound
<1> QED
  BY <1>4, <1>6 DEF new

\* authenticate() leaves a sound store, also when what it admits is
\* acknowledged.
LEMMA AuthenticateIsSound ==
    ASSUME NEW ds, NEW n \in Nat, NEW A, NEW R, Sound(ds, n, A, R),
           \A a \in A : a.claimant \in Claimants,
           NEW c \in Claimants, NEW room \in Nat, NEW t \in Nat,
           NEW d \in DOMAIN ds, NEW token,
           MayAuthenticate(ds, d, token, c),
           NEW a, a.token = token, a.claimant = c
    PROVE  /\ Sound(Authenticate(ds, d, c, room, t), n, A, R)
           /\ Sound(Authenticate(ds, d, c, room, t), n, A \cup {a}, R)
           /\ \A b \in A : b.token = token => b.claimant = c
<1> DEFINE new == Authenticate(ds, d, c, room, t)
           row == [ds[d] EXCEPT !.claimant = c, !.room = room,
                                !.lastSeenAt = t]
<1>1. /\ ds[d] \in Row /\ ds[d].live /\ d \in 1..n
      /\ ds[d].token = token /\ token \in 1..n /\ token \notin R
      /\ ds[d].claimant \in {NoClaimant, c}
      /\ \A e \in DOMAIN ds : e # d => ds[e].token # token
  BY DEF MayAuthenticate, Live, Sound
<1>2. \A b \in A : b.token = token => b.claimant = c
  BY <1>1, NoClaimantAssumption DEF Sound
<1>3. row \in Row /\ row.live /\ row.token = token /\ row.claimant = c
  BY <1>1 DEF Row
<1>4. new = [ds EXCEPT ![d] = row]
  BY DEF Authenticate
<1> HIDE DEF new, row
<1>5. /\ DOMAIN new = DOMAIN ds \cup {d}
      /\ \A e \in DOMAIN ds : e # d => new[e] = ds[e]
      /\ new[d] = row
  BY <1>4
<1>6. Sound(new, n, A, R)
  BY <1>1, <1>2, <1>3, <1>5, WriteIsSound
<1>7. \A e \in DOMAIN new :
         new[e].token = a.token => new[e].claimant = a.claimant
  BY <1>1, <1>3, <1>5
<1>8. Sound(new, n, A \cup {a}, R)
  BY <1>6, <1>7, AckIsSound
<1> QED
  BY <1>2, <1>6, <1>8 DEF new

\* revoke() leaves a sound store, also when the revocation is answered.
LEMMA RevokeIsSound ==
    ASSUME NEW ds, NEW n \in Nat, NEW A, NEW R, Sound(ds, n, A, R),
           NEW d \in DOMAIN ds
    PROVE  /\ Sound(RevokeRow(ds, d), n, A, R)
           /\ Sound(RevokeRow(ds, d), n, A, R \cup {ds[d].token})
<1> DEFINE new == RevokeRow(ds, d)
           row == [ds[d] EXCEPT !.live = FALSE]
<1>1. /\ ds[d] \in Row /\ d \in 1..n /\ ds[d].token \in 1..n
      /\ \A e \in DOMAIN ds : e # d => ds[e].token # ds[d].token
      /\ \A a \in A : a.token = ds[d].token => a.claimant = ds[d].claimant
  BY DEF Sound
<1>2. /\ row \in Row /\ ~row.live
      /\ row.token = ds[d].token /\ row.claimant = ds[d].claimant
  BY <1>1 DEF Row
<1>3. new = [ds EXCEPT ![d] = row]
  BY DEF RevokeRow
<1> HIDE DEF new, row
<1>4. /\ DOMAIN new = DOMAIN ds \cup {d}
      /\ \A e \in DOMAIN ds : e # d => new[e] = ds[e]
      /\ new[d] = row
  BY <1>3
<1>5. Sound(new, n, A, R)
  BY <1>1, <1>2, <1>4, WriteIsSound
<1>6. \A e \in DOMAIN new : new[e].live => new[e].token # ds[d].token
  BY <1>1, <1>2, <1>4
<1>7. Sound(new, n, A, R \cup {ds[d].token})
  BY <1>5, <1>6 DEF Sound
<1> QED
  BY <1>5, <1>7 DEF new

\* The merge keeps the rows that are no losers, but for their place.
LEMMA MergeKeeps ==
    ASSUME NEW ds, \A d \in DOMAIN ds : ds[d] \in Row
    PROVE  /\ DOMAIN Merge(ds) = DOMAIN ds \ Losers(ds)
           /\ \A d \in DOMAIN Merge(ds) :
                 /\ Merge(ds)[d].live = ds[d].live
                 /\ Merge(ds)[d].token = ds[d].token
                 /\ Merge(ds)[d].claimant = ds[d].claimant
                 /\ Merge(ds)[d].lastSeenAt = ds[d].lastSeenAt
<1>1. DOMAIN Merge(ds) = DOMAIN ds \ Losers(ds)
  BY DEF Merge
<1>2. ASSUME NEW d \in DOMAIN Merge(ds)
      PROVE  /\ Merge(ds)[d].live = ds[d].live
             /\ Merge(ds)[d].token = ds[d].token
             /\ Merge(ds)[d].claimant = ds[d].claimant
             /\ Merge(ds)[d].lastSeenAt = ds[d].lastSeenAt
  <2>1. ds[d] \in Row
    BY <1>1
  <2>2. \E p : Merge(ds)[d] = ds[d] \/ Merge(ds)[d] = [ds[d] EXCEPT !.pos = p]
    BY DEF Merge
  <2> QED
    BY <2>1, <2>2 DEF Row
<1> QED
  BY <1>1, <1>2

\* The merge at boot leaves a sound store: it only drops rows and moves one.
LEMMA MergeIsSound ==
    ASSUME NEW ds, NEW n, NEW A, NEW R, Sound(ds, n, A, R)
    PROVE  Sound(Merge(ds), n, A, R)
<1> DEFINE new == Merge(ds)
<1>1. DOMAIN new = DOMAIN ds \ Losers(ds)
  BY DEF Merge
<1>2. ASSUME NEW d \in DOMAIN new
      PROVE  /\ d \in DOMAIN ds
             /\ new[d] \in Row
             /\ new[d].token = ds[d].token
             /\ new[d].claimant = ds[d].claimant
             /\ new[d].live = ds[d].live
  <2>1. d \in DOMAIN ds /\ ds[d] \in Row
    BY <1>1 DEF Sound
  <2>2. CASE d \in Bound(ds)
    <3> DEFINE S == LiveOf(ds, ds[d].claimant)
    <3>1. d \in S /\ \A e \in S : e \in DOMAIN ds /\ ds[e] \in Row
      BY <2>2 DEF Bound, LiveOf, Live, Sound
    <3>2. First(ds, S) \in S
      BY <3>1, FirstIsMember DEF Row
    <3>3. ds[First(ds, S)].pos \in Nat
      BY <3>1, <3>2 DEF Row
    <3>4. new[d] = [ds[d] EXCEPT !.pos = ds[First(ds, S)].pos]
      BY <1>1, <2>2 DEF Merge
    <3> QED
      BY <2>1, <3>3, <3>4 DEF Row
  <2>3. CASE d \notin Bound(ds)
    BY <1>1, <2>1, <2>3 DEF Merge
  <2> QED
    BY <2>2, <2>3
<1> HIDE DEF new
<1>3. /\ DOMAIN new \subseteq 1..n
      /\ \A d \in DOMAIN new : new[d] \in Row /\ new[d].token \in 1..n
      /\ \A d \in DOMAIN new : new[d].live => new[d].token \notin R
  BY <1>2 DEF Sound
<1>4. \A d, e \in DOMAIN new : new[d].token = new[e].token => d = e
  BY <1>2 DEF Sound
<1>5. \A d \in DOMAIN new, a \in A :
         new[d].token = a.token => new[d].claimant = a.claimant
  BY <1>2 DEF Sound
<1>6. Sound(new, n, A, R)
  BY <1>3, <1>4, <1>5 DEF Sound
<1> QED
  BY <1>6 DEF new

-----------------------------------------------------------------------------
\* Credentials, with what it says of the two stores put as Sound and the rest
\* of it named.
Books ==
    /\ now \in 0..MaxClock
    /\ minted \in 0..MaxCodes /\ rooms \in 0..minted
    /\ issued \in 0..(MaxTokens + MaxLegacy)
    /\ legacy \in 0..MaxLegacy /\ legacy <= issued
    /\ DOMAIN offers \subseteq 1..minted
    /\ \A c \in DOMAIN offers : offers[c] \in Offer
    /\ acks \subseteq Ack
    /\ retired \subseteq 1..issued /\ revoked \subseteq 1..issued
    /\ OffersMatchAcks
    /\ CodeSingleUse
    /\ TokenHasOneHolder

BothSound ==
    Sound(devices, issued, acks, revoked) /\ Sound(disk, issued, acks, revoked)

LEMMA CredentialsSplit == Credentials <=> Books /\ BothSound
BY DEF Credentials, Books, BothSound, Sound, TypeOK, IsStore, TokensUnique,
       RowsMatchAcks, RevokedForGood, Live

\* The bounds are natural numbers, and so is every counter.
LEMMA BoundsAreNat ==
    /\ MaxClock \in Nat /\ MaxCodes \in Nat /\ MaxTokens \in Nat
    /\ MaxLegacy \in Nat
BY BoundsAssumption

LEMMA CountersAreNat ==
    ASSUME Books
    PROVE  /\ now \in Nat /\ minted \in Nat /\ rooms \in Nat
           /\ issued \in Nat /\ legacy \in Nat /\ rooms <= minted
BY BoundsAreNat DEF Books

\* There is a number left for the token that is generated.
LEMMA NextTokenFits ==
    ASSUME Books, issued < MaxTokens \/ issued = legacy
    PROVE  issued + 1 \in 1..(MaxTokens + MaxLegacy)
<1>1. issued \in Nat /\ legacy \in Nat /\ legacy <= MaxLegacy
  BY CountersAreNat, BoundsAreNat DEF Books
<1>2. MaxTokens \in Nat \ {0} /\ MaxLegacy \in Nat
  BY BoundsAssumption
<1> QED
  BY <1>1, <1>2

\* The first boot.
LEMMA InitCredentials == Init => Credentials
<1> SUFFICES ASSUME Init PROVE Books /\ BothSound
  BY CredentialsSplit
<1> USE DEF Init
<1>1. /\ legacy \in 0..MaxLegacy /\ legacy \in Nat /\ issued = legacy
      /\ issued \in 0..(MaxTokens + MaxLegacy)
  BY BoundsAreNat
<1>2. DOMAIN offers = {}
  BY DEF EmptyOffers
<1>3. Books
  BY <1>1, <1>2, BoundsAreNat
     DEF Books, OffersMatchAcks, CodeSingleUse, TokenHasOneHolder
<1>4. \A d \in DOMAIN devices :
         devices[d] \in Row /\ devices[d].token = d /\ d \in 1..issued
  BY <1>1 DEF LegacyRow, Row, NoRoom
<1>5. BothSound
  BY <1>1, <1>4 DEF BothSound, Sound
<1> QED
  BY <1>3, <1>5

\* A mint touches the offer table only, and stores an unclaimed offer.
LEMMA MintStep ==
    ASSUME Books, BothSound, NEW room \in 1..(rooms + 1), Mint(room)
    PROVE  Books' /\ BothSound'
<1>1. /\ minted' = minted + 1 /\ minted' \in 0..MaxCodes
      /\ rooms' \in 0..minted'
      /\ offers' = Store(offers, minted + 1, room, now)
      /\ UNCHANGED <<now, devices, disk, issued, legacy, acks, retired,
                     revoked>>
  BY BoundsAreNat, CountersAreNat DEF Mint, Books
<1>2. BothSound'
  BY <1>1 DEF BothSound
<1> DEFINE kept == {c \in DOMAIN offers : now <= offers[c].expMs}
<1>3. /\ DOMAIN offers' = kept \cup {minted + 1}
      /\ \A c \in kept : c # minted + 1 => offers'[c] = offers[c]
      /\ offers'[minted + 1] = [expMs |-> now + TtlMs, room |-> room,
                                claimant |-> NoClaimant, token |-> 0]
  BY <1>1 DEF Store, Prune
<1>4. minted \in Nat /\ DOMAIN offers \subseteq 1..minted
  BY CountersAreNat DEF Books
<1>5. offers'[minted + 1] \in Offer
  BY <1>3, TtlAssumption, CountersAreNat DEF Offer
<1>6. /\ DOMAIN offers' \subseteq 1..minted'
      /\ \A c \in DOMAIN offers' : offers'[c] \in Offer
  BY <1>1, <1>3, <1>4, <1>5 DEF Books
<1>7. OffersMatchAcks'
  <2>1. \A a \in acks : a.code \in 0..minted /\ a.token \in 1..issued
    BY DEF Books, OffersMatchAcks
  <2>2. \A a \in acks : a.code # minted + 1
    BY <1>4, <2>1
  <2>3. \A a \in acks : a.code \in DOMAIN offers' =>
           /\ offers'[a.code].claimant = a.claimant
           /\ offers'[a.code].token = a.token
           /\ offers'[a.code].room = a.room
    BY <1>3, <2>2 DEF Books, OffersMatchAcks
  <2>4. \A c \in DOMAIN offers' : offers'[c].claimant # NoClaimant =>
           [code |-> c, claimant |-> offers'[c].claimant,
            token |-> offers'[c].token, room |-> offers'[c].room] \in acks
    BY <1>3 DEF Books, OffersMatchAcks
  <2>5. \A a \in acks : a.code \in 0..(minted + 1)
    BY <1>4, <2>1
  <2> QED
    BY <1>1, <2>1, <2>3, <2>4, <2>5 DEF OffersMatchAcks
<1>8. CodeSingleUse' /\ TokenHasOneHolder'
  BY <1>1 DEF Books, CodeSingleUse, TokenHasOneHolder
<1> QED
  BY <1>1, <1>2, <1>4, <1>6, <1>7, <1>8 DEF Books

\* A first claim: a fresh token for an offer that was never acknowledged.
LEMMA ClaimStep ==
    ASSUME Books, BothSound, NEW claimant \in Claimants,
           NEW code \in 1..minted, NEW room \in 1..rooms,
           NEW outcome \in SaveOutcome,
           ClaimOffer(claimant, code, room, outcome)
    PROVE  Books' /\ BothSound'
<1> DEFINE a == [code |-> code, claimant |-> claimant, token |-> issued + 1,
                 room |-> room]
<1>1. /\ issued' = issued + 1
      /\ devices' = IssueOrUpdate(devices, issued + 1, claimant, room, now)
      /\ disk' = disk \/ disk' = devices'
      /\ retired' = retired \cup Overwritten(devices, claimant)
      /\ UNCHANGED <<now, minted, rooms, legacy, revoked>>
      /\ (issued < MaxTokens \/ issued = legacy)
  BY DEF ClaimOffer, Save
<1>2. /\ code \in DOMAIN offers /\ offers[code].claimant = NoClaimant
      /\ offers[code].room = room
  BY DEF ClaimOffer, Claimable, Presentable
<1>3. /\ issued \in Nat /\ minted \in Nat /\ now \in Nat /\ rooms \in Nat
      /\ room \in Nat /\ legacy \in 0..issued
      /\ revoked \subseteq 1..issued /\ retired \subseteq 1..issued
      /\ \A b \in acks : b \in Ack /\ b.code \in 0..minted
                         /\ b.token \in 1..issued
  BY CountersAreNat DEF Books, OffersMatchAcks
<1>4. a \in Ack /\ a.token = issued + 1 /\ a.claimant = claimant
      /\ a.code = code /\ a.room = room
      /\ issued' \in 0..(MaxTokens + MaxLegacy) /\ legacy \in 0..issued'
  <2>1. /\ code \in 0..MaxCodes /\ room \in 0..MaxCodes
        /\ issued + 1 \in 1..(MaxTokens + MaxLegacy)
    BY <1>1, <1>3, NextTokenFits, BoundsAreNat DEF Books
  <2> QED
    BY <1>1, <1>3, <2>1 DEF Ack, Tokens
<1> HIDE DEF a
<1>5. /\ Sound(devices', issued + 1, acks, revoked)
      /\ Sound(devices', issued + 1, acks \cup {a}, revoked)
  BY <1>1, <1>3, <1>4, IssueOrUpdateIsSound DEF BothSound
<1>6. /\ Sound(disk, issued + 1, acks, revoked)
      /\ Sound(disk, issued + 1, acks \cup {a}, revoked)
  BY <1>3, <1>4, SoundIsMonotone DEF BothSound
<1>7. retired' \subseteq 1..issued'
  <2>1. Overwritten(devices, claimant) \subseteq 1..issued
    <3>1. CASE LiveOf(devices, claimant) = {}
      BY <3>1 DEF Overwritten
    <3>2. CASE LiveOf(devices, claimant) # {}
      <4>1. \A d \in LiveOf(devices, claimant) :
               d \in DOMAIN devices /\ devices[d].pos \in Nat
        BY DEF LiveOf, Live, BothSound, Sound, Row
      <4>2. First(devices, LiveOf(devices, claimant)) \in DOMAIN devices
        BY <3>2, <4>1, FirstIsMember
      <4> QED
        BY <3>2, <4>2 DEF Overwritten, BothSound, Sound
    <3> QED
      BY <3>1, <3>2
  <2>2. 1..issued \subseteq 1..(issued + 1)
    BY <1>3
  <2> QED
    BY <1>1, <1>3, <2>1, <2>2
<1>8. CASE outcome = "ok"
  <2>1. /\ acks' = acks \cup {a} /\ disk' = devices'
        /\ offers' = Claim(offers, code, claimant, issued + 1)
    BY <1>8 DEF ClaimOffer, Save, a
  <2>2. /\ DOMAIN offers' = DOMAIN offers
        /\ \A c \in DOMAIN offers : c # code => offers'[c] = offers[c]
        /\ offers'[code] \in Offer
        /\ offers'[code].claimant = claimant
        /\ offers'[code].token = issued + 1
        /\ offers'[code].room = room
    <3>1. offers[code] \in Offer
      BY <1>2 DEF Books
    <3>2. [offers[code] EXCEPT !.claimant = claimant, !.token = issued + 1]
            \in Offer
      <4>1. issued + 1 \in Nat
        BY <1>3
      <4> QED
        BY <3>1, <4>1 DEF Offer
    <3>3. offers' = [offers EXCEPT ![code] =
             [offers[code] EXCEPT !.claimant = claimant,
                                  !.token = issued + 1]]
      BY <2>1 DEF Claim
    <3>4. /\ DOMAIN offers' = DOMAIN offers
          /\ \A c \in DOMAIN offers : c # code => offers'[c] = offers[c]
          /\ offers'[code] = [offers[code] EXCEPT !.claimant = claimant,
                                                  !.token = issued + 1]
      BY <1>2, <3>3
    <3> QED
      BY <1>2, <3>1, <3>2, <3>4 DEF Offer
  <2>3. \A b \in acks : b.code # code
    BY <1>2, NoClaimantAssumption DEF Books, OffersMatchAcks, Ack
  <2>4. OffersMatchAcks'
    <3>1. \A b \in acks' : b.code \in 0..minted' /\ b.token \in 1..issued'
      BY <1>1, <1>3, <1>4, <2>1
    <3>2. \A b \in acks' : b.code \in DOMAIN offers' =>
             /\ offers'[b.code].claimant = b.claimant
             /\ offers'[b.code].token = b.token
             /\ offers'[b.code].room = b.room
      BY <1>4, <2>1, <2>2, <2>3 DEF Books, OffersMatchAcks
    <3>3. \A c \in DOMAIN offers' : offers'[c].claimant # NoClaimant =>
             [code |-> c, claimant |-> offers'[c].claimant,
              token |-> offers'[c].token, room |-> offers'[c].room] \in acks'
      <4>1. ASSUME NEW c \in DOMAIN offers', c # code,
                   offers'[c].claimant # NoClaimant
            PROVE  [code |-> c, claimant |-> offers'[c].claimant,
                    token |-> offers'[c].token, room |-> offers'[c].room]
                      \in acks'
        BY <2>1, <2>2, <4>1 DEF Books, OffersMatchAcks
      <4>2. a = [code |-> code, claimant |-> offers'[code].claimant,
                 token |-> offers'[code].token, room |-> offers'[code].room]
        BY <2>2 DEF a
      <4> QED
        BY <2>1, <4>1, <4>2
    <3> QED
      BY <3>1, <3>2, <3>3 DEF OffersMatchAcks
  <2>5. CodeSingleUse'
    BY <1>4, <2>1, <2>3 DEF Books, CodeSingleUse
  <2>6. TokenHasOneHolder'
    BY <1>3, <1>4, <2>1 DEF Books, TokenHasOneHolder
  <2>7. Books'
    BY <1>1, <1>3, <1>4, <1>7, <2>1, <2>2, <2>4, <2>5, <2>6 DEF Books
  <2> QED
    BY <1>1, <1>5, <2>1, <2>7 DEF BothSound
<1>9. CASE outcome # "ok"
  <2>1. UNCHANGED <<offers, acks>>
    BY <1>9 DEF ClaimOffer
  <2>2. OffersMatchAcks' /\ CodeSingleUse' /\ TokenHasOneHolder'
    BY <1>1, <1>3, <2>1
       DEF Books, OffersMatchAcks, CodeSingleUse, TokenHasOneHolder
  <2>3. Books'
    BY <1>1, <1>3, <1>4, <1>7, <2>1, <2>2 DEF Books
  <2> QED
    BY <1>1, <1>5, <1>6, <2>1, <2>3 DEF BothSound
<1> QED
  BY <1>8, <1>9

\* A retried claim repeats an acknowledgement: nothing changes.
LEMMA RetryStep ==
    ASSUME Books, BothSound, NEW claimant \in Claimants,
           NEW code \in 1..minted, NEW room \in 1..rooms,
           RetryClaim(claimant, code, room)
    PROVE  UNCHANGED vars
<1>1. /\ code \in DOMAIN offers /\ offers[code].claimant = claimant
      /\ offers[code].room = room
  BY DEF RetryClaim, Retryable, Presentable
<1>2. [code |-> code, claimant |-> claimant, token |-> offers[code].token,
       room |-> room] \in acks
  BY <1>1, NoClaimantAssumption DEF Books, OffersMatchAcks
<1>3. acks' = acks
  BY <1>2 DEF RetryClaim
<1> QED
  BY <1>3 DEF RetryClaim, vars

\* A reconnect writes one row, whose token is acknowledged to its holder.
LEMMA ReconnectStep ==
    ASSUME Books, BothSound, NEW claimant \in Claimants,
           NEW token \in Disclosed, NEW room \in 1..rooms,
           NEW outcome \in SaveOutcome,
           Reconnect(claimant, token, room, outcome)
    PROVE  /\ Books' /\ BothSound'
           /\ \A b \in acks : b.token = token => b.claimant = claimant
           /\ token \in Tokens /\ token \notin revoked
<1> DEFINE a == [code |-> 0, claimant |-> claimant, token |-> token,
                 room |-> NoRoom]
<1>1. PICK d \in DOMAIN devices :
         /\ MayAuthenticate(devices, d, token, claimant)
         /\ devices' = Authenticate(devices, d, claimant, room, now)
         /\ disk' = disk \/ disk' = devices'
         /\ outcome = "ok" => disk' = devices'
         /\ acks' = IF outcome = "ok" THEN acks \cup {a} ELSE acks
         /\ UNCHANGED <<now, offers, minted, issued, rooms, legacy, retired,
                        revoked>>
  BY DEF Reconnect, Save
<1>2. /\ issued \in Nat /\ now \in Nat /\ rooms \in Nat /\ room \in Nat
      /\ issued <= MaxTokens + MaxLegacy
      /\ \A b \in acks : b.claimant \in Claimants
  BY CountersAreNat, BoundsAreNat DEF Books, Ack
<1>3. /\ token \in 1..issued /\ token \notin revoked
      /\ token \in Tokens
  BY <1>1, <1>2, BoundsAreNat
     DEF MayAuthenticate, Live, BothSound, Sound, Tokens
<1>4. a \in Ack /\ a.code = 0 /\ a.token = token /\ a.claimant = claimant
  BY <1>3, BoundsAreNat DEF Ack, Tokens, NoRoom
<1> HIDE DEF a
<1>5. /\ Sound(devices', issued, acks, revoked)
      /\ Sound(devices', issued, acks \cup {a}, revoked)
      /\ \A b \in acks : b.token = token => b.claimant = claimant
  <2> DEFINE new == Authenticate(devices, d, claimant, room, now)
  <2>1. /\ Sound(devices, issued, acks, revoked)
        /\ MayAuthenticate(devices, d, token, claimant)
        /\ devices' = new
    BY <1>1 DEF BothSound
  <2>2. /\ Sound(new, issued, acks, revoked)
        /\ Sound(new, issued, acks \cup {a}, revoked)
        /\ \A b \in acks : b.token = token => b.claimant = claimant
    BY <1>2, <1>4, <2>1, AuthenticateIsSound, SMTT(20)
  <2> QED
    BY <2>1, <2>2
<1>6. BothSound'
  BY <1>1, <1>5 DEF BothSound
<1>7. OffersMatchAcks'
  <2>1. 0 \notin DOMAIN offers
    BY CountersAreNat DEF Books
  <2>2. \A b \in acks' : b.code \in 0..minted /\ b.token \in 1..issued
    BY <1>1, <1>3, <1>4, CountersAreNat DEF Books, OffersMatchAcks
  <2> QED
    BY <1>1, <1>4, <2>1, <2>2 DEF Books, OffersMatchAcks
<1>8. CodeSingleUse'
  BY <1>1, <1>4 DEF Books, CodeSingleUse
<1>9. TokenHasOneHolder'
  BY <1>1, <1>4, <1>5 DEF Books, TokenHasOneHolder
<1>10. Books'
  BY <1>1, <1>4, <1>7, <1>8, <1>9 DEF Books
<1> QED
  BY <1>3, <1>5, <1>6, <1>10

\* A revocation: the file may keep the row live, but then nothing was
\* answered; if something was, the file is the store in memory.
LEMMA RevokeStep ==
    ASSUME Books, BothSound, NEW d \in DOMAIN devices,
           NEW outcome \in SaveOutcome, Revoke(d, outcome)
    PROVE  /\ Books' /\ BothSound'
           /\ devices[d].token \in Tokens
<1>1. /\ devices' = RevokeRow(devices, d)
      /\ disk' = disk \/ disk' = devices'
      /\ outcome = "ok" => disk' = devices'
      /\ retired' = retired \cup {devices[d].token}
      /\ revoked' = IF outcome = "ok" THEN revoked \cup {devices[d].token}
                    ELSE revoked
      /\ UNCHANGED <<now, offers, minted, issued, rooms, legacy, acks>>
  BY DEF Revoke, Save
<1>2. /\ issued \in Nat /\ devices[d].token \in 1..issued
      /\ devices[d].token \in Tokens
  BY CountersAreNat, BoundsAreNat DEF BothSound, Sound, Books, Tokens
<1>3. /\ Sound(devices', issued, acks, revoked)
      /\ Sound(devices', issued, acks, revoked \cup {devices[d].token})
  BY <1>1, <1>2, RevokeIsSound DEF BothSound
<1>4. BothSound'
  BY <1>1, <1>3 DEF BothSound
<1>5. OffersMatchAcks' /\ CodeSingleUse' /\ TokenHasOneHolder'
  BY <1>1 DEF Books, OffersMatchAcks, CodeSingleUse, TokenHasOneHolder
<1>6. Books'
  BY <1>1, <1>2, <1>5 DEF Books
<1> QED
  BY <1>2, <1>4, <1>6

\* A restart forgets the offers and reads the file.
LEMMA RestartStep ==
    ASSUME Books, BothSound, Restart
    PROVE  Books' /\ BothSound'
<1>1. /\ DOMAIN offers' = {}
      /\ devices' = Merge(disk) /\ disk' = devices'
      /\ retired' \subseteq retired \cup {disk[d].token : d \in Losers(disk)}
      /\ UNCHANGED <<now, minted, issued, rooms, legacy, acks, revoked>>
  BY DEF Restart, EmptyOffers
<1>2. BothSound'
  BY <1>1, MergeIsSound DEF BothSound
<1>3. \A d \in Losers(disk) : disk[d].token \in 1..issued
  BY DEF Losers, Bound, Live, BothSound, Sound
<1>4. retired' \subseteq 1..issued
  BY <1>1, <1>3 DEF Books
<1>5. OffersMatchAcks' /\ CodeSingleUse' /\ TokenHasOneHolder'
  BY <1>1 DEF Books, OffersMatchAcks, CodeSingleUse, TokenHasOneHolder
<1>6. Books'
  BY <1>1, <1>4, <1>5 DEF Books
<1> QED
  BY <1>2, <1>6

\* Ticks, renames and stutters leave the books and both stores as they are,
\* or copy the store in memory to the file.
LEMMA QuietStep ==
    ASSUME Books, BothSound, disk' \in {disk, devices},
           now' \in 0..MaxClock,
           UNCHANGED <<offers, minted, devices, issued, rooms, legacy, acks,
                       retired, revoked>>
    PROVE  Books' /\ BothSound'
<1>1. BothSound'
  BY DEF BothSound
<1>2. OffersMatchAcks' /\ CodeSingleUse' /\ TokenHasOneHolder'
  BY DEF Books, OffersMatchAcks, CodeSingleUse, TokenHasOneHolder
<1>3. Books'
  BY <1>2 DEF Books
<1> QED
  BY <1>1, <1>3

\* Every step keeps the credentials in order.
LEMMA NextCredentials ==
    ASSUME Books, BothSound, [Next]_vars
    PROVE  Books' /\ BothSound'
<1>1. CASE Tick
  BY <1>1, QuietStep, CountersAreNat, BoundsAreNat DEF Tick
<1>2. ASSUME NEW room \in 1..(rooms + 1), Mint(room)
      PROVE  Books' /\ BothSound'
  BY <1>2, MintStep
<1>3. ASSUME NEW claimant \in Claimants, NEW code \in 1..minted,
             NEW room \in 1..rooms, NEW outcome \in SaveOutcome,
             ClaimOffer(claimant, code, room, outcome)
      PROVE  Books' /\ BothSound'
  BY <1>3, ClaimStep
<1>4. CASE UNCHANGED vars
  BY <1>4, QuietStep DEF vars, Books
<1>5. ASSUME NEW claimant \in Claimants, NEW code \in 1..minted,
             NEW room \in 1..rooms, RetryClaim(claimant, code, room)
      PROVE  Books' /\ BothSound'
  BY <1>4, <1>5, RetryStep
<1>6. ASSUME NEW claimant \in Claimants, NEW token \in Disclosed,
             NEW room \in 1..rooms, NEW outcome \in SaveOutcome,
             Reconnect(claimant, token, room, outcome)
      PROVE  Books' /\ BothSound'
  BY <1>6, ReconnectStep
<1>7. ASSUME NEW d \in DOMAIN devices, NEW outcome \in SaveOutcome,
             Revoke(d, outcome)
      PROVE  Books' /\ BothSound'
  BY <1>7, RevokeStep
<1>8. ASSUME NEW d \in DOMAIN devices, NEW outcome \in SaveOutcome,
             Rename(d, outcome)
      PROVE  Books' /\ BothSound'
  BY <1>8, QuietStep DEF Rename, Save, Books
<1>9. CASE Restart
  BY <1>9, RestartStep
<1> QED
  BY <1>1, <1>2, <1>3, <1>4, <1>5, <1>6, <1>7, <1>8, <1>9 DEF Next

-----------------------------------------------------------------------------
\* The credentials are in order in every reachable state: types, one token
\* per row, rows and offers that agree with what was acknowledged, and the
\* three safety properties below.
THEOREM PairingCredentials == Spec => []Credentials
<1>1. Init => Books /\ BothSound
  BY InitCredentials, CredentialsSplit
<1>2. Books /\ BothSound /\ [Next]_vars => (Books /\ BothSound)'
  BY NextCredentials
<1>3. Books /\ BothSound => Credentials
  BY CredentialsSplit
<1> QED
  BY <1>1, <1>2, <1>3, PTL DEF Spec

\* The type invariant, for any bounds.
THEOREM PairingTypeOK == Spec => []TypeOK
<1>1. Credentials => TypeOK
  BY DEF Credentials
<1> QED
  BY <1>1, PairingCredentials, PTL

\* A pairing code is single-use although lost acknowledgements are retried
\* and any save may fail.
THEOREM PairingCodeSingleUse == Spec => []CodeSingleUse
<1>1. Credentials => CodeSingleUse
  BY DEF Credentials
<1> QED
  BY <1>1, PairingCredentials, PTL

\* A token is acknowledged to one Client Instance only, across crashes that
\* lose the binding of a legacy record.
THEOREM PairingTokenHasOneHolder == Spec => []TokenHasOneHolder
<1>1. Credentials => TokenHasOneHolder
  BY DEF Credentials
<1> QED
  BY <1>1, PairingCredentials, PTL

\* An answered revocation survives every later save, failed save and crash.
THEOREM PairingRevokedForGood == Spec => []RevokedForGood
<1>1. Credentials => RevokedForGood
  BY DEF Credentials
<1> QED
  BY <1>1, PairingCredentials, PTL

-----------------------------------------------------------------------------
\* Every step of the credentials is a step of the contract or invisible to it.
LEMMA ContractStep ==
    ASSUME Books, BothSound, [Next]_vars
    PROVE  [Contract!Next]_<<acks, revoked>>
<1> USE DEF Contract!Next
<1>1. ASSUME NEW claimant \in Claimants, NEW code \in 1..minted,
             NEW room \in 1..rooms, NEW outcome \in SaveOutcome,
             ClaimOffer(claimant, code, room, outcome)
      PROVE  [Contract!Next]_<<acks, revoked>>
  <2> DEFINE a == [code |-> code, claimant |-> claimant,
                   token |-> issued + 1, room |-> room]
  <2>1. CASE outcome # "ok"
    BY <1>1, <2>1 DEF ClaimOffer
  <2>2. CASE outcome = "ok"
    <3>1. acks' = acks \cup {a} /\ UNCHANGED revoked /\ (issued < MaxTokens \/ issued = legacy)
      BY <1>1, <2>2 DEF ClaimOffer
    <3>2. /\ code \in DOMAIN offers /\ offers[code].claimant = NoClaimant
      BY <1>1 DEF ClaimOffer, Claimable, Presentable
    <3>3. \A b \in acks : b.code # code
      BY <3>2, NoClaimantAssumption DEF Books, OffersMatchAcks, Ack
    <3>4. /\ \A b \in acks : b.token # issued + 1
          /\ issued + 1 \notin revoked
      BY CountersAreNat DEF Books, OffersMatchAcks
    <3>5. a \in Ack /\ a.code = code /\ a.token = issued + 1
      <4>1. /\ code \in 0..MaxCodes /\ code # 0 /\ room \in 0..MaxCodes
            /\ issued + 1 \in 1..(MaxTokens + MaxLegacy)
        BY <3>1, NextTokenFits, CountersAreNat, BoundsAreNat DEF Books
      <4> QED
        BY <4>1 DEF Ack, Tokens
    <3>6. code # 0
      BY CountersAreNat
    <3> HIDE DEF a
    <3>7. Contract!Pair(a)
      BY <3>1, <3>3, <3>4, <3>5, <3>6 DEF Contract!Pair
    <3> QED
      BY <3>5, <3>7
  <2> QED
    BY <2>1, <2>2 DEF SaveOutcome
<1>2. ASSUME NEW claimant \in Claimants, NEW token \in Disclosed,
             NEW room \in 1..rooms, NEW outcome \in SaveOutcome,
             Reconnect(claimant, token, room, outcome)
      PROVE  [Contract!Next]_<<acks, revoked>>
  <2> DEFINE a == [code |-> 0, claimant |-> claimant, token |-> token,
                   room |-> NoRoom]
  <2>1. /\ UNCHANGED revoked
        /\ acks' = IF outcome = "ok" THEN acks \cup {a} ELSE acks
    BY <1>2 DEF Reconnect
  <2>2. /\ \A b \in acks : b.token = token => b.claimant = claimant
        /\ token \in Tokens /\ token \notin revoked
    BY <1>2, ReconnectStep
  <2>3. /\ a \in Ack /\ a.code = 0 /\ a.token = token
        /\ a.claimant = claimant
    BY <2>2, BoundsAreNat DEF Ack, Tokens, NoRoom
  <2> HIDE DEF a
  <2>4. CASE outcome = "ok"
    <3>1. Contract!Admit(a)
      BY <2>1, <2>2, <2>3, <2>4 DEF Contract!Admit
    <3> QED
      BY <2>3, <3>1
  <2>5. CASE outcome # "ok"
    BY <2>1, <2>5
  <2> QED
    BY <2>4, <2>5
<1>3. ASSUME NEW d \in DOMAIN devices, NEW outcome \in SaveOutcome,
             Revoke(d, outcome)
      PROVE  [Contract!Next]_<<acks, revoked>>
  <2>1. CASE outcome # "ok"
    BY <1>3, <2>1 DEF Revoke
  <2>2. CASE outcome = "ok"
    <3>1. Contract!Revoke(devices[d].token)
      BY <1>3, <2>2 DEF Revoke, Contract!Revoke
    <3>2. devices[d].token \in Tokens
      BY <1>3, RevokeStep
    <3> QED
      BY <3>1, <3>2
  <2> QED
    BY <2>1, <2>2
<1>4. CASE UNCHANGED <<acks, revoked>>
  BY <1>4
<1>5. CASE UNCHANGED vars
  BY <1>4, <1>5 DEF vars
<1>6. CASE Tick
  BY <1>4, <1>6 DEF Tick
<1>7. ASSUME NEW room \in 1..(rooms + 1), Mint(room)
      PROVE  [Contract!Next]_<<acks, revoked>>
  BY <1>4, <1>7 DEF Mint
<1>8. ASSUME NEW claimant \in Claimants, NEW code \in 1..minted,
             NEW room \in 1..rooms, RetryClaim(claimant, code, room)
      PROVE  [Contract!Next]_<<acks, revoked>>
  BY <1>4, <1>8, RetryStep DEF vars
<1>9. ASSUME NEW d \in DOMAIN devices, NEW outcome \in SaveOutcome,
             Rename(d, outcome)
      PROVE  [Contract!Next]_<<acks, revoked>>
  BY <1>4, <1>9 DEF Rename
<1>10. CASE Restart
  BY <1>4, <1>10 DEF Restart
<1> QED
  BY <1>1, <1>2, <1>3, <1>5, <1>6, <1>7, <1>8, <1>9, <1>10 DEF Next

\* The pairing credentials implement their contract.
THEOREM PairingImplementsContract == Spec => ImplementsContract
<1>1. Init => Contract!Init
  BY DEF Init, Contract!Init
<1>2. Books /\ BothSound /\ [Next]_vars => [Contract!Next]_<<acks, revoked>>
  BY ContractStep
<1>3. Init => Books /\ BothSound
  BY InitCredentials, CredentialsSplit
<1>4. Books /\ BothSound /\ [Next]_vars => (Books /\ BothSound)'
  BY NextCredentials
<1> QED
  BY <1>1, <1>2, <1>3, <1>4, PTL
  DEF Spec, ImplementsContract, Contract!Spec
-----------------------------------------------------------------------------
(***************************************************************************)
(* RowsLimited of Pairing, for any ceiling and any number of phones, codes  *)
(* and tokens.  The invariant says the same of the file as of memory, since *)
(* a restart reads the one into the other, and adds that a row that is not  *)
(* bound is one of the first file: only such a row can change its key.     *)
(***************************************************************************)

\* What the invariant says of one store, if the first file had l rows.
Limited(ds, l) ==
    /\ IsFiniteSet(Live(ds)) /\ Cardinality(Live(ds)) <= MaxLiveDevices
    /\ \A d \in DOMAIN ds : ds[d].claimant = NoClaimant => d <= l
    /\ \A d, e \in Bound(ds) :
          ds[d].claimant = ds[e].claimant /\ d > l /\ e > l => d = e

\* The rows of a store are typed.
Typed(ds) == \A d \in DOMAIN ds : d \in Nat /\ ds[d] \in Row

Limits == Limited(devices, legacy) /\ Limited(disk, legacy)

\* A store stays limited while no row is added or revived and only a row of
\* the first file changes its key.
LEMMA FewerIsLimited ==
    ASSUME NEW ds, NEW l, NEW new, Limited(ds, l), DOMAIN new \subseteq DOMAIN ds,
           \A d \in DOMAIN new : /\ new[d].live => ds[d].live
                                 /\ new[d].claimant = ds[d].claimant \/ d <= l,
           DOMAIN ds \subseteq Nat, l \in Nat
    PROVE  Limited(new, l)
<1>1. Live(new) \in SUBSET Live(ds)
  BY DEF Live
<1>2. IsFiniteSet(Live(new)) /\ Cardinality(Live(new)) <= MaxLiveDevices
  <2>1. /\ IsFiniteSet(Live(new)) /\ Cardinality(Live(new)) \in Nat
        /\ Cardinality(Live(ds)) \in Nat
        /\ Cardinality(Live(new)) <= Cardinality(Live(ds))
    BY <1>1, FS_Subset, FS_CardinalityType DEF Limited
  <2> QED
    BY <2>1, LimitAssumption DEF Limited
<1>3. \A d \in DOMAIN new : new[d].claimant = NoClaimant => d <= l
  BY DEF Limited
<1>4. ASSUME NEW d \in Bound(new), NEW e \in Bound(new), d > l, e > l,
             new[d].claimant = new[e].claimant
      PROVE  d = e
  <2>1. d \in Bound(ds) /\ e \in Bound(ds) /\ ds[d].claimant = ds[e].claimant
    BY <1>4 DEF Bound, Live
  <2> QED
    BY <2>1, <1>4 DEF Limited
<1> QED
  BY <1>2, <1>3, <1>4 DEF Limited

\* Below the ceiling a Client Instance without a live row gets one.
LEMMA IssueIsLimited ==
    ASSUME NEW ds, NEW l \in Nat, NEW n \in Nat, NEW claimant \in Claimants,
           NEW room, NEW t, Limited(ds, l), Typed(ds), DOMAIN ds \subseteq 1..n,
           LiveOf(ds, claimant) = {}, BelowLimit(ds)
    PROVE  Limited(Issue(ds, n + 1, claimant, room, t), l)
<1> DEFINE new == Issue(ds, n + 1, claimant, room, t)
<1>1. /\ DOMAIN new = DOMAIN ds \cup {n + 1} /\ n + 1 \notin DOMAIN ds
      /\ new[n + 1].live = TRUE /\ new[n + 1].claimant = claimant
      /\ \A d \in DOMAIN ds : new[d] = ds[d]
  BY DEF Issue
<1> HIDE DEF new
<1>2. claimant # NoClaimant
  BY NoClaimantAssumption
<1>3. Live(new) = Live(ds) \cup {n + 1} /\ n + 1 \notin Live(ds)
  BY <1>1 DEF Live
<1>4. IsFiniteSet(Live(new)) /\ Cardinality(Live(new)) <= MaxLiveDevices
  <2>1. /\ IsFiniteSet(Live(new)) /\ Cardinality(Live(ds)) \in Nat
        /\ Cardinality(Live(new)) = Cardinality(Live(ds)) + 1
    BY <1>3, FS_AddElement, FS_CardinalityType DEF Limited
  <2> QED
    BY <2>1, LimitAssumption DEF BelowLimit
<1>5. \A d \in DOMAIN new : new[d].claimant = NoClaimant => d <= l
  BY <1>1, <1>2 DEF Limited
<1>6. ASSUME NEW d \in Bound(new), NEW e \in Bound(new), d > l, e > l,
             new[d].claimant = new[e].claimant
      PROVE  d = e
  <2>1. \A f \in Bound(new) : f # n + 1 => f \in Bound(ds) /\ new[f] = ds[f]
    BY <1>1, <1>3 DEF Bound, Live
  <2>2. \A f \in Bound(ds) : ds[f].claimant # claimant
    BY DEF Bound, LiveOf
  <2> QED
    BY <2>1, <2>2, <1>1, <1>6 DEF Limited
<1> QED
  BY <1>4, <1>5, <1>6 DEF Limited, new

\* issueOrUpdate() keeps a store limited.
LEMMA IssueOrUpdateIsLimited ==
    ASSUME NEW ds, NEW l \in Nat, NEW n \in Nat, NEW claimant \in Claimants,
           NEW room, NEW t, Limited(ds, l), Typed(ds), DOMAIN ds \subseteq 1..n,
           MayIssueOrUpdate(ds, claimant)
    PROVE  Limited(IssueOrUpdate(ds, n + 1, claimant, room, t), l)
<1>1. CASE LiveOf(ds, claimant) = {}
  BY <1>1, IssueIsLimited DEF IssueOrUpdate, MayIssueOrUpdate
<1>2. CASE LiveOf(ds, claimant) # {}
  <2> DEFINE f == First(ds, LiveOf(ds, claimant))
             new == IssueOrUpdate(ds, n + 1, claimant, room, t)
  <2>1. f \in DOMAIN ds
    BY <1>2, FirstIsMember DEF LiveOf, Live, Typed, Row
  <2>2. new = [ds EXCEPT ![f] = [@ EXCEPT !.token = n + 1, !.room = room,
                                          !.lastSeenAt = t]]
    BY <1>2 DEF IssueOrUpdate
  <2> HIDE DEF f, new
  <2>3. DOMAIN new = DOMAIN ds
    BY <2>2
  <2>4. \A d \in DOMAIN ds : /\ new[d].live = ds[d].live
                             /\ new[d].claimant = ds[d].claimant
    BY <2>1, <2>2 DEF Typed, Row
  <2> QED
    BY <2>3, <2>4, FewerIsLimited DEF Typed, new
<1> QED
  BY <1>1, <1>2

\* authenticate() binds a row of the first file, or none.
LEMMA AuthenticateIsLimited ==
    ASSUME NEW ds, NEW l \in Nat, NEW d, NEW token, NEW claimant, NEW room, NEW t,
           Limited(ds, l), Typed(ds), MayAuthenticate(ds, d, token, claimant)
    PROVE  Limited(Authenticate(ds, d, claimant, room, t), l)
<1> DEFINE new == Authenticate(ds, d, claimant, room, t)
<1>1. DOMAIN new = DOMAIN ds
  BY DEF Authenticate
<1>2. \A e \in DOMAIN ds : new[e].live = ds[e].live
  BY DEF Authenticate, Typed, Row
<1>3. \A e \in DOMAIN ds : new[e].claimant = ds[e].claimant \/ e <= l
  BY DEF Authenticate, MayAuthenticate, Limited, Live, Typed, Row
<1> QED
  BY <1>1, <1>2, <1>3, FewerIsLimited DEF Typed

\* revoke() takes a row out.
LEMMA RevokeIsLimited ==
    ASSUME NEW ds, NEW l \in Nat, NEW d, Limited(ds, l), Typed(ds)
    PROVE  Limited(RevokeRow(ds, d), l)
<1> DEFINE new == RevokeRow(ds, d)
<1>1. DOMAIN new = DOMAIN ds
  BY DEF RevokeRow
<1>2. \A e \in DOMAIN ds : new[e].live => ds[e].live
  BY DEF RevokeRow, Typed, Row
<1>3. \A e \in DOMAIN ds : new[e].claimant = ds[e].claimant
  BY DEF RevokeRow, Typed, Row
<1> QED
  BY <1>1, <1>2, <1>3, FewerIsLimited DEF Typed

\* The merge at boot only removes rows.
LEMMA MergeIsLimited ==
    ASSUME NEW ds, NEW l \in Nat, Limited(ds, l), Typed(ds)
    PROVE  Limited(Merge(ds), l)
<1> DEFINE new == Merge(ds)
<1>1. DOMAIN new \subseteq DOMAIN ds
  BY DEF Merge
<1>2. \A d \in DOMAIN new : /\ new[d].live = ds[d].live
                            /\ new[d].claimant = ds[d].claimant
  BY MergeKeeps DEF Typed
<1> QED
  BY <1>1, <1>2, FewerIsLimited DEF Typed

-----------------------------------------------------------------------------
LEMMA InitLimits == Init => Limits
<1> SUFFICES ASSUME Init PROVE Limited(devices, legacy)
  BY DEF Init, Limits
<1>1. legacy \in Nat /\ legacy <= MaxLiveDevices /\ DOMAIN devices = 1..legacy
  BY BoundsAreNat DEF Init
<1>2. \A d \in DOMAIN devices : devices[d] = LegacyRow(d)
  BY DEF Init
<1>3. Live(devices) = 1..legacy
  BY <1>1, <1>2 DEF Live, LegacyRow
<1>4. IsFiniteSet(Live(devices)) /\ Cardinality(Live(devices)) <= MaxLiveDevices
  <2>1. /\ IsFiniteSet(1..legacy)
        /\ Cardinality(1..legacy) = IF 1 > legacy THEN 0 ELSE legacy - 1 + 1
    BY <1>1, FS_Interval
  <2> QED
    BY <1>1, <1>3, <2>1, LimitAssumption
<1> QED
  BY <1>1, <1>4 DEF Limited, Bound, Live

LEMMA LimitsStep == Credentials /\ Limits /\ [Next]_vars => Limits'
<1> SUFFICES ASSUME Credentials, Limits, [Next]_vars PROVE Limits'
  OBVIOUS
<1>1. /\ Typed(devices) /\ Typed(disk)
      /\ legacy \in Nat /\ issued \in Nat /\ DOMAIN devices \subseteq 1..issued
  BY BoundsAreNat DEF Credentials, TypeOK, IsStore, Typed
<1>2. ASSUME NEW outcome, Save(outcome, devices'), legacy' = legacy,
             Limited(devices', legacy)
      PROVE  Limits'
  BY <1>2 DEF Save, Limits
<1>3. ASSUME NEW claimant \in Claimants, NEW code \in 1..minted,
             NEW room \in 1..rooms, NEW outcome \in SaveOutcome,
             ClaimOffer(claimant, code, room, outcome)
      PROVE  Limits'
  <2>1. Limited(IssueOrUpdate(devices, issued + 1, claimant, room, now), legacy)
    BY <1>1, <1>3, IssueOrUpdateIsLimited DEF ClaimOffer, Limits
  <2> QED
    BY <1>2, <1>3, <2>1 DEF ClaimOffer
<1>4. ASSUME NEW claimant \in Claimants, NEW token \in Disclosed,
             NEW room \in 1..rooms, NEW outcome \in SaveOutcome,
             Reconnect(claimant, token, room, outcome)
      PROVE  Limits'
  <2>1. PICK d \in DOMAIN devices :
            /\ MayAuthenticate(devices, d, token, claimant)
            /\ devices' = Authenticate(devices, d, claimant, room, now)
            /\ Save(outcome, devices') /\ legacy' = legacy
    BY <1>4 DEF Reconnect
  <2>2. Limited(devices', legacy)
    BY <1>1, <2>1, AuthenticateIsLimited DEF Limits
  <2> QED
    BY <1>2, <2>1, <2>2
<1>5. ASSUME NEW d \in DOMAIN devices, NEW outcome \in SaveOutcome,
             Revoke(d, outcome)
      PROVE  Limits'
  <2>1. Limited(devices', legacy)
    BY <1>1, <1>5, RevokeIsLimited DEF Revoke, Limits
  <2> QED
    BY <1>2, <1>5, <2>1 DEF Revoke
<1>6. ASSUME NEW d \in DOMAIN devices, NEW outcome \in SaveOutcome,
             Rename(d, outcome)
      PROVE  Limits'
  BY <1>6 DEF Rename, Save, Limits
<1>7. CASE Restart
  BY <1>1, <1>7, MergeIsLimited DEF Restart, Limits
<1>8. CASE UNCHANGED <<devices, disk, legacy>>
  BY <1>8 DEF Limits
<1> QED
  BY <1>3, <1>4, <1>5, <1>6, <1>7, <1>8
  DEF Next, vars, Tick, Mint, RetryClaim

\* The ceiling holds for the rows in memory and in the file, whatever saves
\* fail and whenever the process stops, and re-pairing never gives a phone a
\* second live row.
THEOREM PairingRowsLimited == Spec => []RowsLimited
<1>1. Credentials /\ Limits => RowsLimited
  BY DEF Limits, Limited, RowsLimited, OneRowPerClaimant
<1> QED
  BY <1>1, InitLimits, LimitsStep, PairingCredentials, PTL DEF Spec
-----------------------------------------------------------------------------
(***************************************************************************)
(* AckedTokenDurable of Pairing, for any number of phones, codes, tokens    *)
(* and rows.  It is about the file, but what the next save writes is the    *)
(* store in memory: the invariant says the same of both.  That a record     *)
(* keeps the key it was acknowledged to, and a token its record, is what    *)
(* Credentials adds.                                                       *)
(***************************************************************************)

\* The acknowledged token opens a live row, bound to the phone that was told.
Opens(ds, a) ==
    \E d \in Live(ds) : ds[d].token = a.token /\ ds[d].claimant = a.claimant

Durable(ds) == \A a \in acks : a.token \in retired \/ Opens(ds, a)

Rows(ds) == \A d \in DOMAIN ds : ds[d] \in Row

\* issueOrUpdate() takes no token out of use but the one it overwrites, and
\* the new one opens a row.
LEMMA IssueOrUpdateOpens ==
    ASSUME NEW ds, NEW n \in Nat, NEW c, NEW room, NEW t, Rows(ds),
           DOMAIN ds \subseteq 1..n
    PROVE  LET new == IssueOrUpdate(ds, n + 1, c, room, t)
           IN  /\ \A a : Opens(ds, a) =>
                            a.token \in Overwritten(ds, c) \/ Opens(new, a)
               /\ \A a : a.token = n + 1 /\ a.claimant = c => Opens(new, a)
<1> DEFINE new == IssueOrUpdate(ds, n + 1, c, room, t)
<1>1. CASE LiveOf(ds, c) = {}
  <2>1. /\ DOMAIN new = DOMAIN ds \cup {n + 1}
        /\ \A d \in DOMAIN ds : new[d] = ds[d]
        /\ new[n + 1].token = n + 1 /\ new[n + 1].claimant = c /\ new[n + 1].live = TRUE
    BY <1>1 DEF IssueOrUpdate, Issue
  <2> HIDE DEF new
  <2> QED
    BY <2>1 DEF Opens, Live, new
<1>2. CASE LiveOf(ds, c) # {}
  <2>1. PICK f : f = First(ds, LiveOf(ds, c))
    OBVIOUS
  <2>2. f \in DOMAIN ds /\ ds[f].claimant = c /\ ds[f].live
    BY <1>2, <2>1, FirstIsMember DEF LiveOf, Live, Rows, Row
  <2>3. /\ DOMAIN new = DOMAIN ds
        /\ \A d \in DOMAIN ds : d # f => new[d] = ds[d]
        /\ new[f].token = n + 1 /\ new[f].claimant = c /\ new[f].live
    BY <1>2, <2>1, <2>2 DEF IssueOrUpdate, Rows, Row
  <2>4. Overwritten(ds, c) = {ds[f].token}
    BY <1>2, <2>1 DEF Overwritten
  <2> HIDE DEF new
  <2> QED
    BY <2>2, <2>3, <2>4 DEF Opens, Live, new
<1> QED
  BY <1>1, <1>2

\* authenticate() leaves every row its token and its phone.
LEMMA AuthenticateOpens ==
    ASSUME NEW ds, NEW d, NEW token, NEW c, NEW room, NEW t, Rows(ds),
           MayAuthenticate(ds, d, token, c)
    PROVE  LET new == Authenticate(ds, d, c, room, t)
           IN  /\ \A a : a.claimant \in Claimants /\ Opens(ds, a) => Opens(new, a)
               /\ \A a : a.token = token /\ a.claimant = c => Opens(new, a)
<1> DEFINE new == Authenticate(ds, d, c, room, t)
<1>1. /\ d \in DOMAIN ds /\ ds[d].live /\ ds[d].token = token
      /\ ds[d].claimant \in {NoClaimant, c}
  BY DEF MayAuthenticate, Live
<1>2. /\ DOMAIN new = DOMAIN ds
      /\ \A e \in DOMAIN ds : e # d => new[e] = ds[e]
      /\ new[d].token = token /\ new[d].claimant = c /\ new[d].live
  BY <1>1 DEF Authenticate, Rows, Row
<1> HIDE DEF new
<1>3. \A a : a.claimant \in Claimants => a.claimant # NoClaimant
  BY NoClaimantAssumption
<1> QED
  BY <1>1, <1>2, <1>3 DEF Opens, Live, new

\* revoke() takes one token out of use.
LEMMA RevokeOpens ==
    ASSUME NEW ds, NEW d \in DOMAIN ds, Rows(ds)
    PROVE  \A a : Opens(ds, a) => a.token = ds[d].token \/ Opens(RevokeRow(ds, d), a)
<1> DEFINE new == RevokeRow(ds, d)
<1>1. DOMAIN new = DOMAIN ds /\ \A e \in DOMAIN ds : e # d => new[e] = ds[e]
  BY DEF RevokeRow
<1> HIDE DEF new
<1> QED
  BY <1>1 DEF Opens, Live, new

\* The merge takes the tokens of the losers out of use.
LEMMA MergeOpens ==
    ASSUME NEW ds, Rows(ds)
    PROVE  \A a : Opens(ds, a) =>
              \/ a.token \in {ds[d].token : d \in Losers(ds)}
              \/ Opens(Merge(ds), a)
<1> DEFINE new == Merge(ds)
<1>1. DOMAIN new = DOMAIN ds \ Losers(ds)
  BY DEF Merge
<1>2. \A d \in DOMAIN new : /\ new[d].live = ds[d].live
                            /\ new[d].token = ds[d].token
                            /\ new[d].claimant = ds[d].claimant
  BY MergeKeeps DEF Rows
<1> HIDE DEF new
<1> QED
  BY <1>1, <1>2 DEF Opens, Live, new

-----------------------------------------------------------------------------
BothDurable == Durable(devices) /\ Durable(disk)

LEMMA DurableStep ==
    ASSUME Credentials, BothDurable, [Next]_vars
    PROVE  BothDurable'
<1>1. /\ Rows(devices) /\ Rows(disk) /\ issued \in Nat
      /\ DOMAIN devices \subseteq 1..issued
      /\ \A a \in acks : a.claimant \in Claimants
  BY BoundsAreNat DEF Credentials, TypeOK, IsStore, Rows, Ack
<1>2. Books /\ BothSound
  BY CredentialsSplit
<1>3. ASSUME NEW outcome, Save(outcome, devices'), retired \subseteq retired',
             acks' # acks => outcome # "lost", Durable(devices)'
      PROVE  BothDurable'
  <2>1. CASE disk' = disk /\ acks' = acks
    BY <1>3, <2>1 DEF BothDurable, Durable
  <2>2. CASE disk' = devices'
    BY <1>3, <2>2 DEF BothDurable, Durable
  <2> QED
    BY <1>3, <2>1, <2>2 DEF Save
<1>4. ASSUME NEW claimant \in Claimants, NEW code \in 1..minted,
             NEW room \in 1..rooms, NEW outcome \in SaveOutcome,
             ClaimOffer(claimant, code, room, outcome)
      PROVE  BothDurable'
  <2>1. PICK a : a = [code |-> code, claimant |-> claimant,
                      token |-> issued + 1, room |-> room]
    OBVIOUS
  <2>2. /\ devices' = IssueOrUpdate(devices, issued + 1, claimant, room, now)
        /\ Save(outcome, devices')
        /\ retired' = retired \cup Overwritten(devices, claimant)
        /\ (acks' = acks \cup {a} /\ outcome = "ok") \/ acks' = acks
        /\ a.token = issued + 1 /\ a.claimant = claimant
    BY <1>4, <2>1 DEF ClaimOffer
  <2>3. /\ \A b : Opens(devices, b) =>
                     b.token \in Overwritten(devices, claimant) \/ Opens(devices', b)
        /\ Opens(devices', a)
    BY <1>1, <2>2, IssueOrUpdateOpens
  <2>4. Durable(devices)'
    BY <2>2, <2>3 DEF BothDurable, Durable, Opens
  <2> QED
    BY <1>3, <2>2, <2>4
<1>5. ASSUME NEW claimant \in Claimants, NEW token \in Disclosed,
             NEW room \in 1..rooms, NEW outcome \in SaveOutcome,
             Reconnect(claimant, token, room, outcome)
      PROVE  BothDurable'
  <2>1. PICK a : a = [code |-> 0, claimant |-> claimant, token |-> token, room |-> NoRoom]
    OBVIOUS
  <2>2. PICK d \in DOMAIN devices :
            /\ MayAuthenticate(devices, d, token, claimant)
            /\ devices' = Authenticate(devices, d, claimant, room, now)
            /\ Save(outcome, devices')
            /\ retired' = retired
            /\ (acks' = acks \cup {a} /\ outcome = "ok") \/ acks' = acks
    BY <1>5, <2>1 DEF Reconnect
  <2>3. a.token = token /\ a.claimant = claimant
    BY <2>1
  <2>4. /\ \A b : b.claimant \in Claimants /\ Opens(devices, b) => Opens(devices', b)
        /\ Opens(devices', a)
    BY <1>1, <2>2, <2>3, AuthenticateOpens
  <2>5. Durable(devices)'
    BY <1>1, <2>2, <2>4 DEF BothDurable, Durable, Opens
  <2> QED
    BY <1>3, <2>2, <2>5
<1>6. ASSUME NEW d \in DOMAIN devices, NEW outcome \in SaveOutcome, Revoke(d, outcome)
      PROVE  BothDurable'
  <2>1. /\ devices' = RevokeRow(devices, d) /\ Save(outcome, devices')
        /\ retired' = retired \cup {devices[d].token} /\ acks' = acks
    BY <1>6 DEF Revoke
  <2>2. \A b : Opens(devices, b) => b.token = devices[d].token \/ Opens(devices', b)
    BY <1>1, <2>1, RevokeOpens
  <2>3. Durable(devices)'
    BY <2>1, <2>2 DEF BothDurable, Durable, Opens
  <2> QED
    BY <1>3, <2>1, <2>3
<1>7. ASSUME NEW d \in DOMAIN devices, NEW outcome \in SaveOutcome, Rename(d, outcome)
      PROVE  BothDurable'
  BY <1>7 DEF Rename, Save, BothDurable, Durable
<1>8. CASE Restart
  <2>1. /\ devices' = Merge(disk) /\ disk' = devices' /\ acks' = acks
        /\ retired' = (retired \cup {disk[d].token : d \in Losers(disk)})
                      \ {devices'[d].token : d \in Live(devices')}
    BY <1>8 DEF Restart
  <2>2. \A b : Opens(disk, b) => \/ b.token \in {disk[d].token : d \in Losers(disk)}
                                 \/ Opens(devices', b)
    BY <1>1, <2>1, MergeOpens
  <2>3. \A b \in acks : b.token \in {devices'[d].token : d \in Live(devices')} =>
                           Opens(devices', b)
    <3>1. Sound(devices', issued, acks, revoked)
      BY <1>2, <2>1, MergeIsSound DEF BothSound
    <3> QED
      BY <3>1 DEF Sound, Opens, Live
  <2>4. \A b \in acks : b.token \in retired' \/ Opens(devices', b)
    BY <2>1, <2>2, <2>3 DEF BothDurable, Durable
  <2> QED
    BY <2>1, <2>4 DEF BothDurable, Durable, Opens
<1>9. ASSUME NEW claimant \in Claimants, NEW code \in 1..minted, NEW room \in 1..rooms,
             RetryClaim(claimant, code, room)
      PROVE  BothDurable'
  BY <1>2, <1>9, RetryStep DEF vars, BothDurable, Durable
<1>10. CASE UNCHANGED <<devices, disk, acks, retired>>
  BY <1>10 DEF BothDurable, Durable
<1> QED
  BY <1>4, <1>5, <1>6, <1>7, <1>8, <1>9, <1>10 DEF Next, vars, Tick, Mint

\* A token the phone was told opens its record after a crash at any point,
\* unless this process has replaced it, merged it away or started to revoke
\* it: it was in the file before the phone was told (README.md:39).
THEOREM PairingAckedTokenDurable == Spec => []AckedTokenDurable
<1>1. Init => BothDurable
  BY DEF Init, BothDurable, Durable
<1>2. BothDurable => AckedTokenDurable
  BY DEF BothDurable, Durable, Opens, AckedTokenDurable
<1> QED
  BY <1>1, <1>2, DurableStep, PairingCredentials, PTL DEF Spec
-----------------------------------------------------------------------------
(***************************************************************************)
(* RetiredForSuccessor of Pairing.  The file lags behind memory by the      *)
(* saves that failed: a token that both know is in the same record of both  *)
(* and no record that is bound is bound again.  The merge finds a winner    *)
(* because there is a last row to have been seen.                          *)
(***************************************************************************)

Seen(ds, t) == \A d \in DOMAIN ds : ds[d].lastSeenAt <= t

Aligned(ds, es) ==
    \A d \in DOMAIN ds, e \in DOMAIN es :
        ds[d].token = es[e].token =>
            d = e /\ ds[d].claimant \in {NoClaimant, es[e].claimant}

Succession ==
    Aligned(disk, devices) /\ Seen(disk, now) /\ Seen(devices, now)

\* Of rows that were seen before t one was seen last.
LEMMA NewestExists ==
    ASSUME NEW ds, NEW S, S \subseteq DOMAIN ds, S # {}, Typed(ds),
           NEW t \in Nat, Seen(ds, t)
    PROVE  Newest(ds, S) # {}
<1> DEFINE P == {t - ds[d].lastSeenAt : d \in S}
<1>1. \A d \in S : ds[d].lastSeenAt \in Nat /\ ds[d].lastSeenAt <= t
  BY DEF Typed, Row, Seen
<1>2. P \subseteq Nat /\ P # {}
  BY <1>1
<1>3. PICK m \in P : \A k \in P : m <= k
  BY <1>2, LeastExists
<1>4. PICK d \in S : m = t - ds[d].lastSeenAt
  BY <1>3
<1>5. \A e \in S : ds[e].lastSeenAt <= ds[d].lastSeenAt
  <2> SUFFICES ASSUME NEW e \in S PROVE ds[e].lastSeenAt <= ds[d].lastSeenAt
    OBVIOUS
  <2>1. t - ds[d].lastSeenAt <= t - ds[e].lastSeenAt
    BY <1>3, <1>4
  <2> QED
    BY <1>1, <2>1
<1> QED
  BY <1>5 DEF Newest

\* The winner is a row of its Client Instance, and none was seen later.
LEMMA WinnerIsNewest ==
    ASSUME NEW ds, Typed(ds), NEW t \in Nat, Seen(ds, t), NEW c, LiveOf(ds, c) # {}
    PROVE  /\ Winner(ds, c) \in LiveOf(ds, c)
           /\ \A d \in LiveOf(ds, c) :
                 ds[d].lastSeenAt <= ds[Winner(ds, c)].lastSeenAt
<1>1. PICK S : S = LiveOf(ds, c)
  OBVIOUS
<1>2. S \subseteq DOMAIN ds /\ S # {}
  BY <1>1 DEF LiveOf, Live
<1>3. PICK N : N = Newest(ds, S)
  OBVIOUS
<1>4. N # {} /\ N \subseteq S
  BY <1>2, <1>3, NewestExists DEF Newest
<1>5. First(ds, N) \in N
  BY <1>2, <1>4, FirstIsMember DEF Typed, Row
<1>6. Winner(ds, c) = First(ds, N)
  BY <1>1, <1>3 DEF Winner
<1> QED
  BY <1>1, <1>3, <1>4, <1>5, <1>6 DEF Newest

\* What issueOrUpdate() writes is one row, fresh and seen now; what it
\* overwrites is that row of the same Client Instance.
Writes(ds, new, k, c, t) ==
    \E f : /\ DOMAIN new = DOMAIN ds \cup {f}
           /\ \A d \in DOMAIN ds : d # f => new[d] = ds[d]
           /\ new[f].token = k /\ new[f].claimant = c /\ new[f].live
           /\ new[f].lastSeenAt = t
           /\ \A old \in Overwritten(ds, c) :
                 f \in DOMAIN ds /\ old = ds[f].token /\ ds[f].claimant = c

LEMMA IssueOrUpdateWrites ==
    ASSUME NEW ds, NEW n \in Nat, NEW c, NEW room, NEW t, Typed(ds),
           DOMAIN ds \subseteq 1..n
    PROVE  Writes(ds, IssueOrUpdate(ds, n + 1, c, room, t), n + 1, c, t)
<1> DEFINE new == IssueOrUpdate(ds, n + 1, c, room, t)
<1>1. CASE LiveOf(ds, c) = {}
  <2>1. /\ DOMAIN new = DOMAIN ds \cup {n + 1}
        /\ \A d \in DOMAIN ds : new[d] = ds[d]
        /\ new[n + 1].token = n + 1 /\ new[n + 1].claimant = c /\ new[n + 1].live = TRUE
        /\ new[n + 1].lastSeenAt = t
    BY <1>1 DEF IssueOrUpdate, Issue
  <2>2. Overwritten(ds, c) = {}
    BY <1>1 DEF Overwritten
  <2> HIDE DEF new
  <2> QED
    BY <2>1, <2>2 DEF new, Writes
<1>2. CASE LiveOf(ds, c) # {}
  <2>1. PICK f : f = First(ds, LiveOf(ds, c))
    OBVIOUS
  <2>2. f \in DOMAIN ds /\ ds[f].claimant = c /\ ds[f].live
    BY <1>2, <2>1, FirstIsMember DEF LiveOf, Live, Typed, Row
  <2>3. /\ DOMAIN new = DOMAIN ds
        /\ \A d \in DOMAIN ds : d # f => new[d] = ds[d]
        /\ new[f].token = n + 1 /\ new[f].claimant = c /\ new[f].live
        /\ new[f].lastSeenAt = t
    BY <1>2, <2>1, <2>2 DEF IssueOrUpdate, Typed, Row
  <2>4. Overwritten(ds, c) = {ds[f].token}
    BY <1>2, <2>1 DEF Overwritten
  <2> HIDE DEF new
  <2> QED
    BY <2>2, <2>3, <2>4 DEF new, Writes
<1> QED
  BY <1>1, <1>2

-----------------------------------------------------------------------------
\* Both stores are typed, and no token occurs twice in one of them.
LEMMA StoresTyped ==
    ASSUME Books, BothSound
    PROVE  /\ Typed(devices) /\ Typed(disk) /\ issued \in Nat /\ now \in Nat
           /\ DOMAIN devices \subseteq 1..issued
           /\ \A ds \in {devices, disk} : \A d \in DOMAIN ds :
                 ds[d].token \in 1..issued /\ ds[d].lastSeenAt \in Nat
           /\ \A ds \in {devices, disk} : \A d, e \in DOMAIN ds :
                 ds[d].token = ds[e].token => d = e
BY CountersAreNat DEF Books, BothSound, Sound, Typed, Row

LEMMA SuccessionStep ==
    ASSUME Books, BothSound, BothSound', Succession, [Next]_vars
    PROVE  Succession'
<1>1. /\ Typed(devices) /\ Typed(disk) /\ issued \in Nat /\ now \in Nat
      /\ DOMAIN devices \subseteq 1..issued
      /\ \A ds \in {devices, disk} : \A d \in DOMAIN ds :
            ds[d].token \in 1..issued /\ ds[d].lastSeenAt \in Nat
  BY StoresTyped
<1>2. Aligned(devices', devices')
  BY DEF BothSound, Sound, Aligned
<1>3. ASSUME disk' = disk \/ disk' = devices', now' = now,
             Aligned(disk, devices'), Seen(devices', now)
      PROVE  Succession'
  BY <1>2, <1>3 DEF Succession
<1>4. ASSUME NEW claimant \in Claimants, NEW code \in 1..minted,
             NEW room \in 1..rooms, NEW outcome \in SaveOutcome,
             ClaimOffer(claimant, code, room, outcome)
      PROVE  Succession'
  <2>1. /\ devices' = IssueOrUpdate(devices, issued + 1, claimant, room, now)
        /\ disk' = disk \/ disk' = devices'
        /\ now' = now
    BY <1>4 DEF ClaimOffer, Save
  <2>2. PICK f :
          /\ DOMAIN devices' = DOMAIN devices \cup {f}
          /\ \A d \in DOMAIN devices : d # f => devices'[d] = devices[d]
          /\ devices'[f].token = issued + 1 /\ devices'[f].lastSeenAt = now
    <3>1. Writes(devices, devices', issued + 1, claimant, now)
      BY <1>1, <2>1, IssueOrUpdateWrites
    <3> QED
      BY <3>1 DEF Writes
  <2>3. Aligned(disk, devices')
    <3> SUFFICES ASSUME NEW d \in DOMAIN disk, NEW e \in DOMAIN devices',
                        disk[d].token = devices'[e].token
                 PROVE  d = e /\ disk[d].claimant \in {NoClaimant, devices'[e].claimant}
      BY DEF Aligned
    <3>1. e # f
      BY <1>1, <2>2
    <3> QED
      BY <2>2, <3>1 DEF Succession, Aligned
  <2>4. Seen(devices', now)
    BY <1>1, <2>2 DEF Succession, Seen
  <2> QED
    BY <1>3, <2>1, <2>3, <2>4
<1>5. ASSUME NEW claimant \in Claimants, NEW token \in Disclosed,
             NEW room \in 1..rooms, NEW outcome \in SaveOutcome,
             Reconnect(claimant, token, room, outcome)
      PROVE  Succession'
  <2>1. PICK f \in DOMAIN devices :
            /\ MayAuthenticate(devices, f, token, claimant)
            /\ devices' = Authenticate(devices, f, claimant, room, now)
            /\ disk' = disk \/ disk' = devices'
            /\ now' = now
    BY <1>5 DEF Reconnect, Save
  <2>2. /\ DOMAIN devices' = DOMAIN devices
        /\ \A d \in DOMAIN devices : d # f => devices'[d] = devices[d]
        /\ devices'[f].token = devices[f].token
        /\ devices'[f].claimant = claimant /\ devices'[f].lastSeenAt = now
        /\ devices[f].claimant \in {NoClaimant, claimant}
    BY <1>1, <2>1 DEF Authenticate, MayAuthenticate, Typed, Row
  <2>3. Aligned(disk, devices')
    BY <2>2 DEF Succession, Aligned
  <2>4. Seen(devices', now)
    BY <1>1, <2>2 DEF Succession, Seen
  <2> QED
    BY <1>3, <2>1, <2>3, <2>4
<1>6. ASSUME NEW f \in DOMAIN devices, NEW outcome \in SaveOutcome, Revoke(f, outcome)
      PROVE  Succession'
  <2>1. /\ devices' = RevokeRow(devices, f)
        /\ disk' = disk \/ disk' = devices'
        /\ now' = now
    BY <1>6 DEF Revoke, Save
  <2>2. /\ DOMAIN devices' = DOMAIN devices
        /\ \A d \in DOMAIN devices :
              /\ devices'[d].token = devices[d].token
              /\ devices'[d].claimant = devices[d].claimant
              /\ devices'[d].lastSeenAt = devices[d].lastSeenAt
    BY <1>1, <2>1 DEF RevokeRow, Typed, Row
  <2>3. Aligned(disk, devices') /\ Seen(devices', now)
    BY <2>2 DEF Succession, Aligned, Seen
  <2> QED
    BY <1>3, <2>1, <2>3
<1>7. ASSUME NEW f \in DOMAIN devices, NEW outcome \in SaveOutcome, Rename(f, outcome)
      PROVE  Succession'
  BY <1>3, <1>7 DEF Rename, Save, Succession
<1>8. CASE Restart
  <2>1. devices' = Merge(disk) /\ disk' = devices' /\ now' = now
    BY <1>8 DEF Restart
  <2>2. Seen(devices', now)
    BY <1>1, <2>1, MergeKeeps DEF Typed, Succession, Seen
  <2> QED
    BY <1>2, <2>1, <2>2 DEF Succession
<1>9. CASE Tick
  <2>1. now' = now + 1 /\ devices' = devices /\ disk' = disk
    BY <1>9 DEF Tick
  <2>2. Seen(devices, now + 1) /\ Seen(disk, now + 1)
    BY <1>1 DEF Succession, Seen
  <2> QED
    BY <2>1, <2>2 DEF Succession
<1>10. CASE UNCHANGED <<devices, disk, now>>
  BY <1>10 DEF Succession
<1> QED
  BY <1>4, <1>5, <1>6, <1>7, <1>8, <1>9, <1>10 DEF Next, vars, Mint, RetryClaim

-----------------------------------------------------------------------------
\* What RetiredForSuccessor says of one step.
Succeeded(d) ==
    \/ d \in DOMAIN devices' /\ ~devices'[d].live
    \/ \E e \in Live(devices') :
         /\ devices'[e].claimant = disk[d].claimant
         /\ devices'[e].lastSeenAt >= disk[d].lastSeenAt
         /\ devices'[e].token \notin retired'

OneEach ==
    \A d, e \in Live(devices') :
       /\ devices'[d].claimant # NoClaimant
       /\ devices'[d].claimant = devices'[e].claimant
       => d = e

\* A re-pairing overwrites a row with one that was seen now.
LEMMA ClaimSucceeds ==
    ASSUME Books, BothSound, Succession, NEW claimant \in Claimants,
           NEW code \in 1..minted, NEW room \in 1..rooms,
           NEW outcome \in SaveOutcome,
           ClaimOffer(claimant, code, room, outcome),
           NEW d \in Bound(disk), disk[d].token \in retired' \ retired
    PROVE  Succeeded(d)
<1>1. /\ Typed(devices) /\ issued \in Nat /\ DOMAIN devices \subseteq 1..issued
      /\ d \in DOMAIN disk /\ disk[d].claimant # NoClaimant
      /\ disk[d].token \in 1..issued
      /\ \A e \in DOMAIN devices : devices[e].token \in 1..issued
  BY StoresTyped DEF Bound, Live
<1>2. /\ devices' = IssueOrUpdate(devices, issued + 1, claimant, room, now)
      /\ retired' = retired \cup Overwritten(devices, claimant)
  BY DEF ClaimOffer
<1>3. PICK f :
        /\ DOMAIN devices' = DOMAIN devices \cup {f}
        /\ devices'[f].token = issued + 1 /\ devices'[f].claimant = claimant
        /\ devices'[f].live
        /\ devices'[f].lastSeenAt = now
        /\ \A k \in Overwritten(devices, claimant) :
              f \in DOMAIN devices /\ k = devices[f].token
              /\ devices[f].claimant = claimant
  <2>1. Writes(devices, devices', issued + 1, claimant, now)
    BY <1>1, <1>2, IssueOrUpdateWrites
  <2> QED
    BY <2>1 DEF Writes
<1>4. /\ f \in DOMAIN devices /\ disk[d].token = devices[f].token
      /\ devices[f].claimant = claimant
  BY <1>2, <1>3
<1>5. disk[d].claimant = claimant
  BY <1>1, <1>4 DEF Succession, Aligned
<1>6. disk[d].lastSeenAt <= now /\ now \in Nat /\ disk[d].lastSeenAt \in Nat
  BY <1>1, StoresTyped DEF Succession, Seen
<1>7. issued + 1 \notin retired'
  BY <1>1, <1>2, <1>3 DEF Books
<1>8. f \in Live(devices')
  BY <1>3 DEF Live
<1>9. devices'[f].lastSeenAt >= disk[d].lastSeenAt
  BY <1>3, <1>6
<1> QED
  BY <1>3, <1>5, <1>7, <1>8, <1>9 DEF Succeeded

\* A revocation marks the row.
LEMMA RevokeSucceeds ==
    ASSUME Books, BothSound, Succession, NEW f \in DOMAIN devices,
           NEW outcome \in SaveOutcome, Revoke(f, outcome),
           NEW d \in Bound(disk), disk[d].token \in retired' \ retired
    PROVE  Succeeded(d)
<1>1. d \in DOMAIN disk /\ disk[d].token = devices[f].token
      /\ devices' = RevokeRow(devices, f)
  BY DEF Revoke, Bound, Live
<1>2. d = f
  BY <1>1 DEF Succession, Aligned
<1>3. devices[f] \in Row
  BY StoresTyped DEF Typed
<1>4. f \in DOMAIN devices' /\ ~devices'[f].live
  BY <1>1, <1>3 DEF RevokeRow, Row
<1> QED
  BY <1>2, <1>4 DEF Succeeded

\* The merge takes a row out of use for the winner, which stays in use.
LEMMA RestartSucceeds ==
    ASSUME Books, BothSound, Succession, Restart
    PROVE  /\ \A d \in Bound(disk) : disk[d].token \in retired' \ retired => Succeeded(d)
           /\ OneEach
<1>1. /\ Typed(disk) /\ now \in Nat /\ Seen(disk, now)
      /\ \A d, e \in DOMAIN disk : disk[d].token = disk[e].token => d = e
      /\ \A d \in DOMAIN disk : disk[d].lastSeenAt \in Nat
  BY StoresTyped DEF Succession
<1>2. /\ devices' = Merge(disk)
      /\ retired' = (retired \cup {disk[d].token : d \in Losers(disk)})
                    \ {devices'[d].token : d \in Live(devices')}
  BY DEF Restart
<1>3. /\ DOMAIN devices' = DOMAIN disk \ Losers(disk)
      /\ \A d \in DOMAIN devices' :
            /\ devices'[d].live = disk[d].live
            /\ devices'[d].token = disk[d].token
            /\ devices'[d].claimant = disk[d].claimant
            /\ devices'[d].lastSeenAt = disk[d].lastSeenAt
  BY <1>1, <1>2, MergeKeeps DEF Typed
<1>4. ASSUME NEW d \in Bound(disk), disk[d].token \in retired' \ retired
      PROVE  Succeeded(d)
  <2>1. d \in DOMAIN disk /\ disk[d].live /\ disk[d].claimant # NoClaimant
    BY DEF Bound, Live
  <2>2. PICK c, w : c = disk[d].claimant /\ w = Winner(disk, c)
    OBVIOUS
  <2>3. d \in LiveOf(disk, c)
    BY <2>1, <2>2 DEF LiveOf, Live
  <2>4. /\ w \in LiveOf(disk, c)
        /\ disk[d].lastSeenAt <= disk[w].lastSeenAt
    BY <1>1, <2>2, <2>3, WinnerIsNewest
  <2>5. w \in DOMAIN disk /\ disk[w].live /\ disk[w].claimant = c
    BY <2>4 DEF LiveOf, Live
  <2>6. w \notin Losers(disk)
    BY <2>2, <2>5 DEF Losers
  <2>7. w \in Live(devices') /\ devices'[w].token \notin retired'
    BY <1>2, <1>3, <2>5, <2>6 DEF Live
  <2>8. /\ devices'[w].claimant = disk[d].claimant
        /\ devices'[w].lastSeenAt >= disk[d].lastSeenAt
    BY <1>1, <1>3, <2>1, <2>2, <2>4, <2>5, <2>6
  <2> QED
    BY <2>7, <2>8 DEF Succeeded
<1>5. OneEach
  <2> SUFFICES ASSUME NEW d \in Live(devices'), NEW e \in Live(devices'),
                      devices'[d].claimant # NoClaimant,
                      devices'[d].claimant = devices'[e].claimant
               PROVE  d = e
    BY DEF OneEach
  <2>1. d \in Bound(disk) /\ e \in Bound(disk) /\ disk[d].claimant = disk[e].claimant
    BY <1>3 DEF Live, Bound
  <2>2. d \notin Losers(disk) /\ e \notin Losers(disk)
    BY <1>3 DEF Live
  <2> QED
    BY <2>1, <2>2 DEF Losers
<1> QED
  BY <1>4, <1>5

\* A live row of the file goes out of use at boot, or by a re-pairing, only
\* for a row of the same phone that was seen no earlier, and a restart leaves
\* one live row per phone: for any number of phones, rows and clock ticks.
\* (mergeLiveClaimants, tokens.ts:200-231.)
THEOREM PairingRetiredForSuccessor == Spec => RetiredForSuccessor
<1> DEFINE I == Books /\ BothSound /\ Succession
           A == /\ \A d \in Bound(disk) :
                     disk[d].token \in retired' \ retired => Succeeded(d)
                /\ Restart => OneEach
<1>1. Init => I
  <2>1. Init => Succession
    <3> SUFFICES ASSUME Init PROVE Succession
      OBVIOUS
    <3>1. \A d \in DOMAIN devices : devices[d] = LegacyRow(d)
      BY DEF Init
    <3> QED
      BY <3>1 DEF Init, Succession, Aligned, Seen, LegacyRow
  <2> QED
    BY <2>1, InitCredentials, CredentialsSplit
<1>2. I /\ [Next]_vars => I'
  BY NextCredentials, SuccessionStep
<1>3. I /\ [Next]_vars => [A]_vars
  <2> SUFFICES ASSUME I, Next PROVE A
    OBVIOUS
  <2>1. Restart => A
    BY RestartSucceeds
  <2>2. ASSUME NEW d \in Bound(disk), disk[d].token \in retired' \ retired, ~Restart
        PROVE  Succeeded(d)
    BY <2>2, ClaimSucceeds, RevokeSucceeds
    DEF Next, Tick, Mint, RetryClaim, Reconnect, Rename
  <2> QED
    BY <2>1, <2>2
<1>4. RetiredForSuccessor <=> [][A]_vars
  BY DEF RetiredForSuccessor, Succeeded, OneEach
<1> HIDE DEF I, A
<1> QED
  BY <1>1, <1>2, <1>3, <1>4, PTL DEF Spec
=============================================================================
