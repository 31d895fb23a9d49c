---------------------- MODULE CookieAndSignaling_proofs ---------------------
(***************************************************************************)
(* What holds of the two parts of the Host that a carrier rests on besides  *)
(* its tunnel: the cookie for DSH, and the signaling socket of a room.  They *)
(* share no state.                                                         *)
(*                                                                         *)
(* The cookie first, for any number of calls, connections and cookies.  One *)
(* inductive invariant carries its four theorems: the types, who waits and  *)
(* what for, and, until a cookie has aged, that there is never a fetch next *)
(* to a cookie.                                                            *)
(***************************************************************************)
EXTENDS ConnectionCookie, DirectSignaling, TLAPS

\* Cookies come from DSH, and those of the acquirer from its connection.
Known ==
    /\ {cookie, hop} \ {NoCookie} \subseteq issued
    /\ \A c \in Calls : held[c] \in issued \cup {NoCookie}
    /\ cookie # NoCookie => cookie.conn = conn
    /\ hop # NoCookie => hop.conn = conn

\* A call that waits without joining a fetch holds no cookie.
EmptyHanded == \A c \in Calls : calls[c] = "waiting" => held[c] = NoCookie

\* Until a cookie has aged, a fetch, a retry and a call that joins one exclude
\* a cookie.
NeverOld ==
    ~aged =>
        /\ cookie # NoCookie => young /\ ~fetching /\ ~retry
        /\ hop = NoCookie
        /\ \A c \in Calls : calls[c] # "joined"
        /\ RejectedNotKept

CookieInv ==
    /\ TypeOK /\ Known /\ EmptyHanded /\ NoForgottenWaiter /\ NeverOld
    /\ SentCookieIsCurrent

\* The initial state.
LEMMA CookieInit == Init => CookieInv
<1> SUFFICES ASSUME Init PROVE CookieInv
    OBVIOUS
<1> USE DEF Init
<1>1. TypeOK
    <2>1. conn \in {0, connections} /\ connections \in 0..MaxConnections
        BY CookieAssumption
    <2>2. /\ calls \in [Calls -> {"idle", "waiting", "joined", "sent"}]
          /\ held \in [Calls -> Cookie \cup {NoCookie}]
        OBVIOUS
    <2>3. young \in BOOLEAN /\ fetching \in BOOLEAN /\ retry \in BOOLEAN
        OBVIOUS
    <2>4. issued \subseteq Cookie /\ rejected \subseteq issued
        OBVIOUS
    <2> QED BY <2>1, <2>2, <2>3, <2>4 DEF TypeOK
<1>2. Known /\ EmptyHanded /\ NoForgottenWaiter /\ NeverOld /\ SentCookieIsCurrent
    BY DEF Known, EmptyHanded, NoForgottenWaiter, In, NeverOld, RejectedNotKept,
           SentCookieIsCurrent, None
<1> QED BY <1>1, <1>2 DEF CookieInv

\* No step forgets a call that waits: what ends a fetch serves those who wait
\* or arms the timer, and what disarms the timer leaves a fetch in flight.
LEMMA StepForgetsNobody ==
    ASSUME TypeOK, NoForgottenWaiter, [Next]_vars
    PROVE  NoForgottenWaiter'
<1> USE DEF In, Settle, NoForgottenWaiter, TypeOK
<1>1. CASE Connect
    BY <1>1 DEF Connect, Fetch
<1>2. CASE Disconnect
    BY <1>2 DEF Disconnect
<1>3. ASSUME NEW c \in Calls, Ask(c)
      PROVE  NoForgottenWaiter'
    <2>1. CASE conn = 0 \/ (cookie # NoCookie /\ young)
        BY <1>3, <2>1 DEF Ask, acquirer
    <2>2. CASE ~(conn = 0 \/ (cookie # NoCookie /\ young))
        <3>1. CASE fetching \/ (cookie = NoCookie /\ retry)
            BY <1>3, <2>2, <3>1 DEF Ask
        <3>2. CASE ~(fetching \/ (cookie = NoCookie /\ retry))
            BY <1>3, <2>2, <3>2 DEF Ask, Fetch
        <3> QED BY <3>1, <3>2
    <2> QED BY <2>1, <2>2
<1>4. ASSUME NEW c \in Calls, Answered(c)
      PROVE  NoForgottenWaiter'
    BY <1>4 DEF Answered, Return, acquirer
<1>5. ASSUME NEW c \in Calls, Unauthorized(c)
      PROVE  NoForgottenWaiter'
    BY <1>5 DEF Unauthorized, Return, Fetch, acquirer
<1>6. ASSUME NEW k \in Cookie, FetchSucceeds(k)
      PROVE  NoForgottenWaiter'
    BY <1>6 DEF FetchSucceeds
<1>7. CASE FetchFails
    BY <1>7 DEF FetchFails
<1>8. CASE RetryFires
    BY <1>8 DEF RetryFires, Fetch
<1>9. CASE Expire
    BY <1>9 DEF Expire
<1>10. CASE UNCHANGED vars
    BY <1>10 DEF vars, acquirer
<1> QED BY <1>1, <1>2, <1>3, <1>4, <1>5, <1>6, <1>7, <1>8, <1>9, <1>10 DEF Next

\* Every step keeps the rest.
LEMMA CookieStep ==
    ASSUME CookieInv, [Next]_vars
    PROVE  TypeOK' /\ Known' /\ EmptyHanded' /\ NeverOld' /\ SentCookieIsCurrent'
<1> USE CookieAssumption
<1> USE DEF CookieInv, TypeOK, Known, EmptyHanded, NeverOld,
            RejectedNotKept, SentCookieIsCurrent
<1>1. CASE Connect
    <2> USE <1>1 DEF Connect, Fetch, None
    <2>1. connections' \in 0..MaxConnections /\ conn' = connections' /\ conn' # 0
        OBVIOUS
    <2>2. TypeOK'
        BY <2>1
    <2>3. Known' /\ EmptyHanded' /\ SentCookieIsCurrent'
        OBVIOUS
    <2>4. NeverOld'
        BY DEF NoForgottenWaiter, In
    <2> QED BY <2>2, <2>3, <2>4
<1>2. CASE Disconnect
    <2> USE <1>2 DEF Disconnect, Settle, Chosen, In
    <2>1. TypeOK'
        OBVIOUS
    <2>2. Known' /\ EmptyHanded' /\ NeverOld'
        OBVIOUS
    <2>3. SentCookieIsCurrent'
        OBVIOUS
    <2> QED BY <2>1, <2>2, <2>3
<1>3. ASSUME NEW c \in Calls, Ask(c)
      PROVE  TypeOK' /\ Known' /\ EmptyHanded' /\ NeverOld' /\ SentCookieIsCurrent'
    <2> USE <1>3 DEF Ask, acquirer, Fetch, None
    <2>1. CASE conn = 0 \/ (cookie # NoCookie /\ young)
        BY <2>1
    <2>2. CASE ~(conn = 0 \/ (cookie # NoCookie /\ young))
        <3>1. TypeOK'
            BY <2>2
        <3>2. Known' /\ EmptyHanded'
            BY <2>2
        <3>3. NeverOld' /\ SentCookieIsCurrent'
            BY <2>2
        <3> QED BY <3>1, <3>2, <3>3
    <2> QED BY <2>1, <2>2
<1>4. ASSUME NEW c \in Calls, Answered(c)
      PROVE  TypeOK' /\ Known' /\ EmptyHanded' /\ NeverOld' /\ SentCookieIsCurrent'
    BY <1>4 DEF Answered, Return, acquirer, None
<1>5. ASSUME NEW c \in Calls, Unauthorized(c)
      PROVE  TypeOK' /\ Known' /\ EmptyHanded' /\ NeverOld' /\ SentCookieIsCurrent'
    <2> USE <1>5 DEF Unauthorized, Return, acquirer, Fetch, None
    <2>1. CASE conn = 0
        BY <2>1
    <2>2. CASE conn # 0 /\ fetching
        BY <2>2
    <2>3. CASE conn # 0 /\ ~fetching
        BY <2>3
    <2> QED BY <2>1, <2>2, <2>3
<1>6. ASSUME NEW k \in Cookie, FetchSucceeds(k)
      PROVE  TypeOK' /\ Known' /\ EmptyHanded' /\ NeverOld' /\ SentCookieIsCurrent'
    <2> USE <1>6 DEF FetchSucceeds, Settle, Chosen, In
    <2>1. k # NoCookie /\ k.conn = conn
        BY DEF Fetched
    <2>2. ~aged => k \notin issued
        BY DEF Fetched
    <2>3. TypeOK'
        BY <2>1
    <2>4. Known'
        BY <2>1
    <2>5. EmptyHanded' /\ NeverOld'
        BY <2>1, <2>2
    <2>6. SentCookieIsCurrent'
        BY <2>1
    <2> QED BY <2>3, <2>4, <2>5, <2>6
<1>7. CASE FetchFails
    <2> USE <1>7 DEF FetchFails, Settle, Chosen, In
    <2>1. TypeOK'
        OBVIOUS
    <2>2. Known' /\ EmptyHanded' /\ NeverOld'
        OBVIOUS
    <2>3. SentCookieIsCurrent'
        OBVIOUS
    <2> QED BY <2>1, <2>2, <2>3
<1>8. CASE RetryFires
    BY <1>8 DEF RetryFires, Fetch, None
<1>9. CASE Expire
    BY <1>9 DEF Expire, None
<1>10. CASE UNCHANGED vars
    BY <1>10 DEF vars, acquirer
<1> QED BY <1>1, <1>2, <1>3, <1>4, <1>5, <1>6, <1>7, <1>8, <1>9, <1>10 DEF Next

\* The invariant holds throughout.
LEMMA CookieInvariant == Spec => []CookieInv
<1>1. CookieInv /\ [Next]_vars => CookieInv'
    BY CookieStep, StepForgetsNobody DEF CookieInv
<1> QED BY CookieInit, <1>1, PTL DEF Spec

\* The variables have their types.
THEOREM CookieTypeOK == Spec => []TypeOK
<1>1. CookieInv => TypeOK
    BY DEF CookieInv
<1> QED BY <1>1, CookieInvariant, PTL

\* While a call waits for the cookie there is a connection, and a fetch in
\* flight or the retry timer armed (waitCookie, acquire and scheduleRetry of
\* src/connection-lifecycle.ts).
THEOREM CookieNoForgottenWaiter == Spec => []NoForgottenWaiter
<1>1. CookieInv => NoForgottenWaiter
    BY DEF CookieInv
<1> QED BY <1>1, CookieInvariant, PTL

\* Until a cookie has aged, none is used across a change of connection
\* (forwardRequest of src/tunnel-server.ts takes one before it waits).
THEOREM CookieSentIsCurrent == Spec => []SentCookieIsCurrent
<1>1. CookieInv => SentCookieIsCurrent
    BY DEF CookieInv
<1> QED BY <1>1, CookieInvariant, PTL

\* Until a cookie has aged, one that DSH rejects is given up (refresh of
\* src/connection-lifecycle.ts).
THEOREM CookieRejectedNotKept == Spec => []RejectedNotKept
<1>1. CookieInv => RejectedNotKept
    BY DEF CookieInv, NeverOld, RejectedNotKept
<1> QED BY <1>1, CookieInvariant, PTL

-----------------------------------------------------------------------------
(***************************************************************************)
(* A signaling socket, for any number of messages.  The last part of        *)
(* NothingLeftBehind, on answers that were overtaken, is not inductive:     *)
(* that the peer of a late answer has been closed rests on when a           *)
(* negotiation may take the place of the one before.                       *)
(***************************************************************************)
\* A tunnel is that of a negotiation that is over.
TunnelHasChannel == tunnel # 0 => at[tunnel] = "channel"

\* Whoever waits for the peer before to close has not been followed by an
\* earlier negotiation.
ReplacingIsPast ==
    \A g \in DOMAIN at : at[g] = "replacing" => peer = 0 \/ peer >= g

\* Once an offer is answered, no earlier peer is alive but one whose answer is
\* still being prepared, which will be refused.
EarlierAreGone ==
    \A i \in DOMAIN answers : \A g \in alive :
        g < answers[i] => at[g] = "accepting"

SignalingInv ==
    /\ SignalingTypeOK /\ NothingLeftBehind
    /\ Len(at) <= MaxMessages
    /\ TunnelHasChannel /\ ReplacingIsPast /\ EarlierAreGone

-----------------------------------------------------------------------------
\* A sequence with one element more.
LEMMA Appended ==
    ASSUME NEW S, NEW s \in Seq(S), NEW e \in S
    PROVE  /\ Append(s, e) \in Seq(S) /\ Len(s) \in Nat
           /\ Len(Append(s, e)) = Len(s) + 1
           /\ DOMAIN s = 1..Len(s) /\ DOMAIN Append(s, e) = 1..(Len(s) + 1)
           /\ \A i \in 1..Len(s) : Append(s, e)[i] = s[i]
           /\ Append(s, e)[Len(s) + 1] = e
OBVIOUS

\* A negotiation goes on: the others are where they were.
LEMMA Gone ==
    ASSUME NEW g \in DOMAIN at, NEW place \in Places, at \in Seq(Places),
           Go(g, place)
    PROVE  /\ at' \in Seq(Places) /\ Len(at') = Len(at)
           /\ DOMAIN at' = DOMAIN at /\ DOMAIN at = 1..Len(at) /\ Len(at) \in Nat
           /\ at'[g] = place
           /\ \A h \in DOMAIN at : h # g => at'[h] = at[h]
BY DEF Go

\* An answer is sent: it is the last one.
LEMMA AnswerAppended ==
    ASSUME NEW D, answers \in Seq(D), NEW g \in D, Answer(g)
    PROVE  /\ answers' \in Seq(D) /\ Len(answers) \in Nat
           /\ DOMAIN answers = 1..Len(answers)
           /\ DOMAIN answers' = 1..(Len(answers) + 1)
           /\ \A i \in 1..Len(answers) : answers'[i] = answers[i]
           /\ answers'[Len(answers) + 1] = g
BY Appended DEF Answer

-----------------------------------------------------------------------------
\* The initial state.
LEMMA SignalingBegins == SignalingInit => SignalingInv
<1> SUFFICES ASSUME SignalingInit PROVE SignalingInv
    OBVIOUS
<1> USE DEF SignalingInit
<1>1. SignalingTypeOK
    <2>1. at \in Seq(Places) /\ Len(at) = 0 /\ answers \in Seq(DOMAIN at)
        OBVIOUS
    <2>2. closed \in BOOLEAN
        BY Zenon
    <2>3. generation \in 0..(MaxMessages + 1)
        BY SignalingAssumption
    <2>4. generation = Last + (IF closed THEN 1 ELSE 0)
        BY <2>1 DEF Last
    <2> QED BY <2>1, <2>2, <2>3, <2>4 DEF SignalingTypeOK
<1>2. NothingLeftBehind /\ TunnelHasChannel /\ ReplacingIsPast /\ EarlierAreGone
    BY <1>1 DEF NothingLeftBehind, TunnelHasChannel, ReplacingIsPast, EarlierAreGone
<1> QED BY <1>1, <1>2, SignalingAssumption DEF SignalingInv

\* A message: the new negotiation is the last one, and has no answer yet.
LEMMA MessageStep ==
    ASSUME SignalingInv, NEW place \in {"accepting", "stray"},
           ~closed, generation < MaxMessages, generation' = generation + 1,
           at' = Append(at, place),
           alive' = IF place = "accepting" THEN alive \cup {generation'} ELSE alive,
           UNCHANGED <<closed, peer, answers, tunnel, open>>
    PROVE  SignalingInv'
<1> DEFINE n == Len(at) + 1
<1>1. at \in Seq(Places) /\ generation = Len(at) /\ place \in Places
    BY DEF SignalingInv, SignalingTypeOK, Last, Places
<1>2. /\ at' \in Seq(Places) /\ Len(at') = n /\ Len(at) \in Nat
      /\ DOMAIN at' = 1..n /\ DOMAIN at = 1..Len(at)
      /\ \A g \in 1..Len(at) : at'[g] = at[g]
      /\ at'[n] = place
    BY <1>1, Appended
<1>3. /\ {peer, tunnel} \subseteq 1..Len(at) \cup {0}
      /\ alive \cup open \subseteq 1..Len(at)
      /\ answers \in Seq(1..Len(at)) /\ closed \in BOOLEAN
    BY <1>2 DEF SignalingInv, SignalingTypeOK
<1>4. SignalingTypeOK'
    BY <1>1, <1>2, <1>3, SignalingAssumption DEF SignalingTypeOK, Last
<1>5. NothingLeftBehind'
    BY <1>1, <1>2, <1>3, <1>4 DEF SignalingInv, NothingLeftBehind
<1>6. TunnelHasChannel' /\ ReplacingIsPast'
    BY <1>1, <1>2, <1>3 DEF SignalingInv, TunnelHasChannel, ReplacingIsPast
<1>7. EarlierAreGone'
    BY <1>1, <1>2, <1>3 DEF SignalingInv, EarlierAreGone
<1>8. Len(at') <= MaxMessages
    BY <1>1, <1>2, SignalingAssumption
<1> QED BY <1>4, <1>5, <1>6, <1>7, <1>8 DEF SignalingInv

\* The steps of negotiation g, by what they do to the peers and the answers.
LEMMA NegotiationStep ==
    ASSUME SignalingInv, NEW g \in DOMAIN at,
           Accepted(g) \/ AcceptFails(g) \/ Replaced(g) \/ Channel(g) \/ NoChannel(g)
    PROVE  SignalingInv'
<1> USE DEF SignalingInv
<1>1. /\ at \in Seq(Places) /\ generation = Len(at) + (IF closed THEN 1 ELSE 0)
      /\ generation \in 0..(MaxMessages + 1)
      /\ {peer, tunnel} \subseteq DOMAIN at \cup {0}
      /\ alive \cup open \subseteq DOMAIN at
      /\ answers \in Seq(DOMAIN at) /\ closed \in BOOLEAN
    BY DEF SignalingTypeOK, Last
<1>2. ASSUME NEW place \in Places, Go(g, place)
      PROVE  /\ at' \in Seq(Places) /\ Len(at') = Len(at)
             /\ DOMAIN at' = DOMAIN at /\ DOMAIN at = 1..Len(at) /\ Len(at) \in Nat
             /\ at'[g] = place
             /\ \A h \in DOMAIN at : h # g => at'[h] = at[h]
    BY <1>1, <1>2, Gone
<1>3. ASSUME Answer(g)
      PROVE  /\ answers' \in Seq(DOMAIN at) /\ Len(answers) \in Nat
             /\ DOMAIN answers = 1..Len(answers)
             /\ DOMAIN answers' = 1..(Len(answers) + 1)
             /\ \A i \in 1..Len(answers) : answers'[i] = answers[i]
             /\ answers'[Len(answers) + 1] = g
    BY <1>1, <1>3, AnswerAppended
<1>4. ASSUME Go(g, "failed"), at[g] \in {"accepting", "answered"},
             UNCHANGED <<closed, generation, peer, answers, tunnel>>,
             \/ ClosePeers({g})
             \/ UNCHANGED <<alive, open>> /\ at[g] = "answered"
      PROVE  SignalingInv'
    BY <1>1, <1>2, <1>4
       DEF ClosePeers, SignalingTypeOK, Last, Places, NothingLeftBehind, TunnelHasChannel,
           ReplacingIsPast, EarlierAreGone
<1>5. ASSUME ~closed, g = generation, at[g] = "accepting", peer = 0, peer' = g,
             Go(g, "answered"), Answer(g),
             UNCHANGED <<closed, generation, alive, tunnel, open>>
      PROVE  SignalingInv'
    <2>1. SignalingTypeOK'
        BY <1>1, <1>2, <1>3, <1>5 DEF SignalingTypeOK, Last, Places
    <2>2. \A i \in DOMAIN answers : answers[i] <= g
        BY <1>1, <1>2, <1>5 DEF Places
    <2>3. \A h \in alive : at[h] = "accepting" /\ h <= g
        BY <1>1, <1>2, <1>5 DEF NothingLeftBehind, Places
    <2>4. ASSUME NEW i \in DOMAIN answers', NEW k \in DOMAIN answers',
                 i < k, answers'[i] > answers'[k]
          PROVE  answers'[k] \notin alive' \cup {tunnel'}
        <3>1. k \in DOMAIN answers /\ i \in DOMAIN answers
            <4>1. /\ i \in 1..(Len(answers) + 1) /\ k \in 1..(Len(answers) + 1)
                  /\ Len(answers) \in Nat /\ DOMAIN answers = 1..Len(answers)
                BY <1>3, <1>5
            <4>2. i \in DOMAIN answers
                BY <2>4, <4>1
            <4>3. answers'[i] = answers[i] /\ answers[i] <= g
                BY <1>3, <1>5, <2>2, <4>1, <4>2
            <4>4. answers[i] \in Int /\ g \in Int
                BY <1>1, <1>2, <1>5, <4>2 DEF Places
            <4>5. k # Len(answers) + 1
                BY <1>3, <1>5, <2>4, <4>3, <4>4
            <4> QED BY <4>1, <4>2, <4>5
        <3> QED BY <1>3, <1>5, <2>4, <3>1 DEF NothingLeftBehind
    <2>5. NothingLeftBehind'
        BY <1>1, <1>2, <1>5, <2>1, <2>3, <2>4 DEF NothingLeftBehind, Places
    <2>6. TunnelHasChannel' /\ ReplacingIsPast'
        BY <1>1, <1>2, <1>5 DEF TunnelHasChannel, ReplacingIsPast, Places
    <2>7. EarlierAreGone'
        BY <1>1, <1>2, <1>3, <1>5, <2>2, <2>3 DEF EarlierAreGone, Places
    <2> QED BY <1>2, <1>5, <2>1, <2>5, <2>6, <2>7 DEF Places
<1>6. ASSUME ~closed, g = generation, at[g] = "accepting", peer # 0, peer' = g,
             Go(g, "replacing"), ClosePeers({peer}),
             UNCHANGED <<closed, generation, answers, tunnel>>
      PROVE  SignalingInv'
    BY <1>1, <1>2, <1>6
       DEF ClosePeers, SignalingTypeOK, Last, Places, NothingLeftBehind, TunnelHasChannel,
           ReplacingIsPast, EarlierAreGone
<1>7. CASE Replaced(g)
    <2>1. /\ at[g] = "replacing" /\ Go(g, "answered") /\ Answer(g)
          /\ UNCHANGED <<closed, generation, peer, alive, tunnel, open>>
        BY <1>7 DEF Replaced, tunnels
    <2>2. SignalingTypeOK'
        BY <1>1, <1>2, <1>3, <2>1 DEF SignalingTypeOK, Last, Places
    <2>0. DOMAIN at = 1..Len(at) /\ Len(at) \in Nat
        BY <1>1
    <2>3. g # tunnel
        <3>1. g # 0
            BY <2>0
        <3> QED BY <2>1, <3>1 DEF TunnelHasChannel
    <2>4. \A i \in DOMAIN answers : g < answers[i] => g \notin alive
        BY <2>1 DEF EarlierAreGone
    <2>5. ASSUME NEW i \in DOMAIN answers', NEW k \in DOMAIN answers',
                 i < k, answers'[i] > answers'[k]
          PROVE  answers'[k] \notin alive' \cup {tunnel'}
        <3>1. CASE k \in DOMAIN answers
            <4>1. i \in DOMAIN answers
                BY <1>3, <2>1, <2>5, <3>1
            <4> QED BY <1>3, <2>1, <2>5, <3>1, <4>1 DEF NothingLeftBehind
        <3>2. CASE k = Len(answers) + 1
            <4>1. i \in DOMAIN answers /\ answers'[i] = answers[i] /\ answers'[k] = g
                BY <1>3, <2>1, <2>5, <3>2
            <4> QED BY <2>1, <2>3, <2>4, <2>5, <4>1
        <3> QED BY <1>3, <2>1, <3>1, <3>2
    <2>6. \A h \in alive : at'[h] = at[h] \/ h = peer
        BY <1>1, <1>2, <2>1 DEF NothingLeftBehind, Places
    <2>7. NothingLeftBehind'
        BY <1>1, <1>2, <2>1, <2>2, <2>5 DEF NothingLeftBehind, Places
    <2>8. TunnelHasChannel' /\ ReplacingIsPast'
        BY <1>1, <1>2, <2>1, <2>3 DEF TunnelHasChannel, ReplacingIsPast, Places
    <2>9. \A h \in alive : h < g => at'[h] = "accepting"
        <3> SUFFICES ASSUME NEW h \in alive, h < g PROVE at'[h] = "accepting"
            OBVIOUS
        <3>1. h \in DOMAIN at
            BY <1>1
        <3>2. h \in Int /\ g \in Int /\ h # 0
            BY <2>0, <3>1
        <3>3. h \in DOMAIN at /\ h # g
            BY <3>1, <3>2
        <3>4. peer = 0 \/ peer >= g
            BY <2>1 DEF ReplacingIsPast
        <3>5. h # peer
            BY <3>2, <3>4
        <3> QED BY <1>2, <2>1, <3>3, <3>5 DEF NothingLeftBehind, Places
    <2>10. EarlierAreGone'
        <3> SUFFICES ASSUME NEW i \in DOMAIN answers', NEW h \in alive, h < answers'[i]
                     PROVE  at'[h] = "accepting"
            BY <2>1 DEF EarlierAreGone
        <3>1. CASE i \in DOMAIN answers
            <4>1. h < answers[i] /\ at[h] = "accepting" /\ h \in DOMAIN at
                BY <1>1, <1>3, <2>1, <3>1 DEF EarlierAreGone
            <4> QED BY <1>2, <2>1, <4>1 DEF Places
        <3>2. CASE i = Len(answers) + 1
            BY <1>3, <2>1, <2>9, <3>2
        <3> QED BY <1>3, <2>1, <3>1, <3>2
    <2> QED BY <1>2, <2>1, <2>2, <2>7, <2>8, <2>10 DEF Places
<1>8. CASE Channel(g)
    <2>1. /\ at[g] = "answered" /\ g \in alive /\ Go(g, "channel")
          /\ UNCHANGED <<closed, generation, peer, alive, answers>>
          /\ IF ~closed /\ g = generation THEN OnChannel(g) ELSE UNCHANGED <<tunnel, open>>
        BY <1>8 DEF Channel, tunnels
    <2>2. "channel" \in Places
        BY DEF Places
    <2>3. CASE ~closed /\ g = generation
        <3>1. tunnel' = g /\ open' = (open \ {tunnel}) \cup {g} /\ g = Len(at)
            BY <1>1, <2>1, <2>3 DEF OnChannel
        <3>2. SignalingTypeOK'
            BY <1>1, <1>2, <2>1, <2>2, <3>1 DEF SignalingTypeOK, Last
        <3>3. \A i \in DOMAIN answers : answers[i] <= g
            BY <1>1, <1>2, <2>1, <2>2, <3>1
        <3>4. \A i, k \in DOMAIN answers : i < k /\ answers[i] > answers[k] =>
                 answers[k] \notin alive \cup {g}
            BY <1>1, <3>3 DEF NothingLeftBehind
        <3>5. NothingLeftBehind'
            BY <1>1, <1>2, <2>1, <2>2, <2>3, <3>1, <3>2, <3>4 DEF NothingLeftBehind
        <3>6. TunnelHasChannel' /\ ReplacingIsPast' /\ EarlierAreGone'
            BY <1>1, <1>2, <2>1, <2>2, <3>1
               DEF TunnelHasChannel, ReplacingIsPast, EarlierAreGone
        <3> QED BY <1>2, <2>1, <2>2, <3>2, <3>5, <3>6
    <2>4. CASE ~(~closed /\ g = generation)
        BY <1>1, <1>2, <2>1, <2>2, <2>4
           DEF SignalingTypeOK, Last, NothingLeftBehind, TunnelHasChannel, ReplacingIsPast,
               EarlierAreGone
    <2> QED BY <2>3, <2>4
<1> QED BY <1>4, <1>5, <1>6, <1>7, <1>8
        DEF Accepted, AcceptFails, NoChannel, tunnels

\* The gate is closed: neither peer nor tunnel is left to it.
LEMMA CloseStep == ASSUME SignalingInv, Close PROVE SignalingInv'
<1> USE DEF SignalingInv
<1>1. SignalingTypeOK'
    <2>1. closed' \in BOOLEAN
        BY Zenon DEF Close
    <2> QED BY <2>1, SignalingAssumption DEF SignalingTypeOK, Last, Close
<1>2. NothingLeftBehind' /\ TunnelHasChannel' /\ ReplacingIsPast' /\ EarlierAreGone'
    BY <1>1 DEF Close, SignalingTypeOK, NothingLeftBehind, TunnelHasChannel, ReplacingIsPast,
           EarlierAreGone
<1> QED BY <1>1, <1>2 DEF Close

-----------------------------------------------------------------------------
\* Every step keeps the invariant.
LEMMA SignalingStep == ASSUME SignalingInv, [SignalingNext]_signalingVars PROVE SignalingInv'
<1>1. CASE Offer
    BY <1>1, MessageStep DEF Offer, tunnels
<1>2. CASE Stray
    BY <1>2, MessageStep DEF Stray, tunnels
<1>3. CASE UNCHANGED signalingVars
    BY <1>3 DEF signalingVars, SignalingInv, SignalingTypeOK, Last, NothingLeftBehind,
                TunnelHasChannel, ReplacingIsPast, EarlierAreGone
<1> QED BY <1>1, <1>2, <1>3, NegotiationStep, CloseStep DEF SignalingNext

\* No peer and no tunnel is left behind, however many negotiations overlap,
\* and an answer that was overtaken is of a peer that has been closed.
\* (direct-signaling.ts:46-66.)
THEOREM SignalingNothingLeftBehind == SignalingSpec => []NothingLeftBehind
<1>1. SignalingInv => NothingLeftBehind
    BY DEF SignalingInv
<1> QED BY <1>1, SignalingBegins, SignalingStep, PTL DEF SignalingSpec
=============================================================================
