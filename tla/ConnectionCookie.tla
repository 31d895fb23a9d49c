-------------------------- MODULE ConnectionCookie --------------------------
(***************************************************************************)
(* The cookie the Host uses on the loopback DSH server: the binding of     *)
(* src/connection-lifecycle.ts to the Connection service, which comes and  *)
(* goes, and the acquirer of src/dsh-cookie.ts it makes for each one.      *)
(*                                                                         *)
(* The askers are the upstream calls of src/tunnel-server.ts: each takes   *)
(* the cookie there is, waits for waitCookie, and is sent with what it     *)
(* then decides on; DSH may answer 401, whereupon the cookie is renewed.   *)
(* What a promise sets off is part of the step that settles it: nothing    *)
(* else runs in between.  Each connection has its own acquirer, and the    *)
(* old one is disposed of before the new one is made, so the state of the  *)
(* acquirer is that of the present connection.                             *)
(***************************************************************************)
EXTENDS Integers, FiniteSets

CONSTANTS
    HttpCalls,       \* upstream requests (forwardRequest)
    WsCalls,         \* upstream WebSockets (onWsOpen)
    NoCookie,        \* undefined
    MaxConnections,  \* bound on the connections
    MaxCookies       \* bound on the cookies DSH issues

Calls == HttpCalls \cup WsCalls
Cookie == [conn: 1..MaxConnections, n: 1..MaxCookies]

ASSUME CookieAssumption ==
    /\ HttpCalls \cap WsCalls = {} /\ NoCookie \notin Cookie
    /\ MaxConnections \in Nat \ {0} /\ MaxCookies \in Nat \ {0}

VARIABLES
    connections,     \* connections there have been
    conn,            \* cookieAcquirer: that of connection conn, 0 for none
    cookie,          \* its cookie
    young,           \* acquiredAt is less than maxAgeMs ago
    fetching,        \* refreshSource is the acquirer: a fetch is in flight
    hop,             \* hopCookie of the fetch
    retry,           \* retryTimer is armed
    calls,           \* each call: idle, waiting, joined or sent
    held,            \* the cookie it took before it waited, or was sent with
    issued,          \* cookies DSH has issued
    aged,            \* history: some cookie has reached its maxAgeMs
    rejected,        \* history: cookies DSH has answered 401 to
    settled          \* history: what the last step sent: call -> cookie

acquirer == <<cookie, young, fetching, hop, retry>>
vars == <<connections, conn, acquirer, calls, held, issued, aged, rejected, settled>>

None == [c \in {} |-> NoCookie]

Init ==
    /\ connections = 0 /\ conn = 0
    /\ cookie = NoCookie /\ young = FALSE /\ fetching = FALSE /\ hop = NoCookie
    /\ retry = FALSE
    /\ calls = [c \in Calls |-> "idle"] /\ held = [c \in Calls |-> NoCookie]
    /\ issued = {} /\ aged = FALSE /\ rejected = {} /\ settled = None

\* What a call is sent with when waitCookie gives it the cookie waited and the
\* acquirer now has the cookie now: an HTTP request keeps what it held.
Chosen(c, waited, now) ==
    LET own == IF c \in HttpCalls THEN held[c] ELSE NoCookie
    IN  CASE waited # NoCookie -> waited
          [] waited = NoCookie /\ own # NoCookie -> own
          [] OTHER -> now

\* The calls in cs get the cookie waited and are sent.
Settle(cs, waited, now) ==
    /\ calls' = [c \in Calls |-> IF c \in cs THEN "sent" ELSE calls[c]]
    /\ held' = [c \in Calls |-> IF c \in cs THEN Chosen(c, waited, now) ELSE held[c]]
    /\ settled' = [c \in cs |-> Chosen(c, waited, now)]

In(state) == {c \in Calls : calls[c] = state}

\* acquire, with no fetch in flight: refresh starts one.
Fetch(from) == fetching' = TRUE /\ hop' = from

-----------------------------------------------------------------------------
\* The Connection service appears: a new acquirer is made and set to work.
Connect ==
    /\ conn = 0 /\ connections < MaxConnections
    /\ connections' = connections + 1
    /\ conn' = connections'
    /\ cookie' = NoCookie /\ young' = FALSE /\ retry' = FALSE
    /\ Fetch(NoCookie)
    /\ settled' = None
    /\ UNCHANGED <<calls, held, issued, aged, rejected>>

\* Mutant: those who wait are left to the retry timer.
DisconnectSilently ==
    /\ conn # 0
    /\ conn' = 0
    /\ cookie' = NoCookie /\ young' = FALSE /\ retry' = FALSE
    /\ fetching' = FALSE /\ hop' = NoCookie
    /\ Settle(In("joined"), NoCookie, NoCookie)
    /\ UNCHANGED <<connections, issued, aged, rejected>>

\* Mutant: the acquirer that is replaced keeps its cookie.
DisconnectKeepsCookie ==
    /\ conn # 0
    /\ conn' = 0
    /\ retry' = FALSE
    /\ fetching' = FALSE /\ hop' = NoCookie
    /\ Settle(In("waiting") \cup In("joined"), NoCookie, NoCookie)
    /\ UNCHANGED <<connections, cookie, young, issued, aged, rejected>>

\* It goes: whoever waits gets undefined, the fetch is aborted, the acquirer
\* forgets its cookie.
Disconnect ==
    /\ conn # 0
    /\ conn' = 0
    /\ cookie' = NoCookie /\ young' = FALSE /\ retry' = FALSE
    /\ fetching' = FALSE /\ hop' = NoCookie
    /\ Settle(In("waiting") \cup In("joined"), NoCookie, NoCookie)
    /\ UNCHANGED <<connections, issued, aged, rejected>>

\* waitCookie for call c, which takes the cookie there is first: at once when
\* there is no connection or the cookie is young; else the call joins the
\* fetch, or it becomes a waiter.
Ask(c) ==
    /\ calls[c] = "idle"
    /\ IF conn = 0 \/ (cookie # NoCookie /\ young)
       THEN /\ calls' = [calls EXCEPT ![c] = "sent"]
            /\ held' = [held EXCEPT ![c] = cookie]
            /\ settled' = [x \in {c} |-> cookie]
            /\ UNCHANGED acquirer
       ELSE /\ calls' = [calls EXCEPT ![c] = IF cookie = NoCookie THEN "waiting"
                                             ELSE "joined"]
            /\ held' = [held EXCEPT ![c] = cookie]
            /\ IF fetching \/ (cookie = NoCookie /\ retry)
               THEN UNCHANGED <<fetching, hop>>
               ELSE Fetch(cookie)
            /\ settled' = None
            /\ UNCHANGED <<cookie, young, retry>>
    /\ UNCHANGED <<connections, conn, issued, aged, rejected>>

-----------------------------------------------------------------------------
\* The cookies a fetch may come to: a new one, or the one it was sent with if
\* DSH sets none.
Fetched == ({hop} \ {NoCookie}) \cup {k \in Cookie \ issued : k.conn = conn}

FetchSucceeds(k) ==
    /\ fetching /\ k \in Fetched
    /\ cookie' = k /\ young' = TRUE /\ fetching' = FALSE /\ hop' = NoCookie
    /\ retry' = FALSE
    /\ issued' = issued \cup {k}
    /\ Settle(In("waiting") \cup In("joined"), k, k)
    /\ UNCHANGED <<connections, conn, aged, rejected>>

\* Mutant: no retry is scheduled.
FetchFailsForGood ==
    /\ fetching
    /\ fetching' = FALSE /\ hop' = NoCookie
    /\ Settle(In("joined"), NoCookie, cookie)
    /\ UNCHANGED <<connections, conn, cookie, young, retry, issued, aged, rejected>>

\* A failed fetch: who joined it goes on without; a retry is scheduled.
FetchFails ==
    /\ fetching
    /\ fetching' = FALSE /\ hop' = NoCookie /\ retry' = TRUE
    /\ Settle(In("joined"), NoCookie, cookie)
    /\ UNCHANGED <<connections, conn, cookie, young, issued, aged, rejected>>

\* The retry timer.
RetryFires ==
    /\ retry
    /\ retry' = FALSE
    /\ IF fetching THEN UNCHANGED <<fetching, hop>> ELSE Fetch(cookie)
    /\ settled' = None
    /\ UNCHANGED <<connections, conn, cookie, young, calls, held, issued, aged, rejected>>

\* maxAgeMs has passed.
Expire ==
    /\ young
    /\ young' = FALSE /\ aged' = TRUE
    /\ settled' = None
    /\ UNCHANGED <<connections, conn, cookie, fetching, hop, retry, calls, held,
                   issued, rejected>>

-----------------------------------------------------------------------------
\* Bound: DSH rejects a cookie only while another may be issued.
Renewable == conn = 0 \/ \E k \in Cookie \ issued : k.conn = conn

Return(c) == calls' = [calls EXCEPT ![c] = "idle"]
             /\ held' = [held EXCEPT ![c] = NoCookie]

\* DSH answers call c.
Answered(c) ==
    /\ calls[c] = "sent"
    /\ Return(c)
    /\ settled' = None
    /\ UNCHANGED <<connections, conn, acquirer, issued, aged, rejected>>

\* Mutant: the cookie is only renewed, not given up.
UnauthorizedKeeps(c) ==
    /\ calls[c] = "sent" /\ held[c] # NoCookie /\ Renewable
    /\ rejected' = rejected \cup {held[c]}
    /\ Return(c)
    /\ IF conn = 0 THEN UNCHANGED acquirer
       ELSE /\ retry' = FALSE
            /\ IF fetching THEN UNCHANGED <<fetching, hop>> ELSE Fetch(cookie)
            /\ UNCHANGED <<cookie, young>>
    /\ settled' = None
    /\ UNCHANGED <<connections, conn, issued, aged>>

\* It answers 401 to its cookie: refresh().  The cookie is given up and
\* fetched anew, unless a fetch is in flight.
Unauthorized(c) ==
    /\ calls[c] = "sent" /\ held[c] # NoCookie /\ Renewable
    /\ rejected' = rejected \cup {held[c]}
    /\ Return(c)
    /\ IF conn = 0 THEN UNCHANGED acquirer
       ELSE /\ retry' = FALSE
            /\ IF fetching THEN UNCHANGED <<cookie, young, fetching, hop>>
               ELSE cookie' = NoCookie /\ young' = FALSE /\ Fetch(NoCookie)
    /\ settled' = None
    /\ UNCHANGED <<connections, conn, issued, aged>>

Next ==
    \/ Connect \/ Disconnect
    \/ \E c \in Calls : Ask(c) \/ Answered(c) \/ Unauthorized(c)
    \/ \E k \in Cookie : FetchSucceeds(k)
    \/ FetchFails \/ RetryFires \/ Expire

Spec == Init /\ [][Next]_vars

\* A fetch ends (requestOnce times out after 10 s), the timer fires, and DSH,
\* asked again and again, issues a cookie.
FairSpec ==
    /\ Spec
    /\ WF_vars((\E k \in Cookie : FetchSucceeds(k)) \/ FetchFails)
    /\ SF_vars(\E k \in Cookie : FetchSucceeds(k))
    /\ WF_vars(RetryFires)

-----------------------------------------------------------------------------
\* The variables have their types; without a connection there is no cookie
\* and nothing is under way.
TypeOK ==
    /\ conn \in {0, connections} /\ connections \in 0..MaxConnections
    /\ cookie \in Cookie \cup {NoCookie} /\ hop \in Cookie \cup {NoCookie}
    /\ young \in BOOLEAN /\ fetching \in BOOLEAN /\ retry \in BOOLEAN
    /\ calls \in [Calls -> {"idle", "waiting", "joined", "sent"}]
    /\ held \in [Calls -> Cookie \cup {NoCookie}]
    /\ issued \subseteq Cookie /\ rejected \subseteq issued /\ aged \in BOOLEAN
    /\ conn = 0 => cookie = NoCookie /\ ~fetching /\ ~retry
    /\ young => cookie # NoCookie

\* Nobody waits for a cookie that no one is getting: while a call waits there
\* is a connection, and a fetch in flight or the retry timer armed; through
\* renewals, failures and replacements in any order.
NoForgottenWaiter ==
    /\ In("waiting") # {} => conn # 0 /\ (fetching \/ retry)
    /\ In("joined") # {} => conn # 0 /\ fetching

\* Until a cookie reaches its maximum age, no call is sent with a cookie of a
\* connection that has gone, although it takes one before it waits and uses it
\* after.  (forwardRequest, onWsOpen; test/connection-lifecycle.test.mjs:34:
\* the replaced acquirer is disposed of, and with it its cookie.)
SentCookieIsCurrent ==
    ~aged => \A c \in DOMAIN settled :
                settled[c] # NoCookie => settled[c].conn = conn

\* Until then, a cookie that DSH has rejected is not kept for the calls to
\* come, whatever was in flight when the 401 came in.  (refresh, acquire.)
RejectedNotKept == ~aged /\ young => cookie \notin rejected

\* Whoever waits is served, with a cookie or, when the connection goes,
\* without.
WaitersSettle ==
    \A c \in Calls : calls[c] \in {"waiting", "joined"} ~> calls[c] = "sent"
=============================================================================
