------------------------------ MODULE LanProxy ------------------------------
(***************************************************************************)
(* The authenticating LAN proxy of src/proxy.ts: the sockets of its clients *)
(* and those to the upstream web server, for forwarded requests and for     *)
(* upgrades.  Who is admitted is decided by the module that extends this.   *)
(*                                                                         *)
(* A socket that is "destroyed" is gone for its peer; the 'close' event,    *)
(* with which the rest of the code learns of it, is still to come.          *)
(***************************************************************************)
EXTENDS Naturals

CONSTANTS
    Conns,           \* client connections, one request or upgrade each
    NoToken          \* a request without one

VARIABLES
    proxy,           \* the server: "new", "listening", "closing", "closed"
    conns            \* per connection: its sockets and how far the answer is

Unused ==
    [kind |-> "none", token |-> NoToken, client |-> "closed", up |-> "none",
     res |-> "none"]

\* A connection just accepted; upgradedSockets are the sockets of the upgrades.
Accepted(kind, token) ==
    [kind |-> kind, token |-> token, client |-> "open", up |-> "none",
     res |-> "none"]

Destroyed(at) == IF at = "open" THEN "destroyed" ELSE at

\* One end of an upgrade takes the other along, and nothing more is sent.
Shut(conn) ==
    IF conn.kind = "ws"
    THEN [conn EXCEPT !.client = Destroyed(@), !.up = Destroyed(@), !.res = "done"]
    ELSE conn

\* A connection with both ends closed is referred to by nothing any more.
Now(conn) ==
    IF conn.client = "closed" /\ conn.up \in {"none", "closed"} THEN Unused
    ELSE Shut(conn)

ProxyInit == proxy = "new" /\ conns = [c \in Conns |-> Unused]

Listen ==
    /\ proxy = "new"
    /\ proxy' = "listening"
    /\ UNCHANGED conns

\* handleHttp() answers by itself: /healthz, 401, or 400 when it throws.
AnswerAtOnce(c) ==
    conns' = [conns EXCEPT ![c] = [Accepted("http", NoToken) EXCEPT !.res = "done"]]

\* handleHttp() forwards the request, without its token.
Forward(c, token) ==
    conns' = [conns EXCEPT ![c] = [Accepted("http", token) EXCEPT
                                      !.up = "open", !.res = "waiting"]]

\* The upgrade is refused: 401, and the socket is destroyed.
RefuseUpgrade(c) ==
    conns' = [conns EXCEPT ![c] = [Accepted("ws", NoToken) EXCEPT
                                      !.client = "destroyed", !.res = "done"]]

ConnectUpgrade(c, token) ==
    conns' = [conns EXCEPT ![c] = [Accepted("ws", token) EXCEPT
                                      !.up = "open", !.res = "waiting"]]

-----------------------------------------------------------------------------
\* The upstream begins to answer; an upgrade is then piped both ways, unless
\* its header grows past 16 KiB.
UpstreamAnswers(c) ==
    /\ conns[c].up = "open" /\ conns[c].res = "waiting"
    /\ \/ conns' = [conns EXCEPT ![c].res = "partial"]
       \/ /\ conns[c].kind = "ws"
          /\ conns' = [conns EXCEPT ![c] = Shut(@)]
    /\ UNCHANGED proxy

\* The response to a request is complete.
UpstreamEnds(c) ==
    /\ conns[c].kind = "http" /\ conns[c].up = "open" /\ conns[c].res = "partial"
    /\ conns' = [conns EXCEPT ![c] = Now([@ EXCEPT !.res = "done", !.up = "closed"])]
    /\ UNCHANGED proxy

\* An error on the request: 502, or the response under way is ended short.
UpstreamFails(c) ==
    /\ conns[c].kind = "http" /\ conns[c].up = "open"
    /\ conns' = [conns EXCEPT ![c] = Now([@ EXCEPT !.up = "closed", !.res = "done"])]
    /\ UNCHANGED proxy

\* The upstream is gone in the middle of a response, and nothing is reported
\* on the request: the client waits.
UpstreamVanishes(c) ==
    /\ conns[c].kind = "http" /\ conns[c].up = "open" /\ conns[c].res = "partial"
    /\ conns' = [conns EXCEPT ![c] = Now([@ EXCEPT !.up = "closed"])]
    /\ UNCHANGED proxy

\* 'close' (or 'error', then 'close') of the upstream socket of an upgrade.
UpstreamCloses(c) ==
    /\ conns[c].kind = "ws" /\ conns[c].up \in {"open", "destroyed"}
    /\ conns' = [conns EXCEPT ![c] = Now([@ EXCEPT !.up = "closed"])]
    /\ UNCHANGED proxy

\* 'close' of the client's socket.  A forwarded request goes on upstream.
ClientCloses(c) ==
    /\ conns[c].client \in {"open", "destroyed"}
    /\ conns' = [conns EXCEPT ![c] = Now([@ EXCEPT !.client = "closed"])]
    /\ UNCHANGED proxy

\* Mutant: the upgraded sockets, which the server has given up, are not closed.
CloseServer ==
    /\ proxy = "listening"
    /\ proxy' = "closing"
    /\ conns' = [c \in Conns |->
            IF conns[c].kind = "ws" THEN conns[c]
            ELSE [conns[c] EXCEPT !.client = Destroyed(@)]]

\* close(): closeAllConnections(), and every upgraded socket is destroyed.
Close ==
    /\ proxy = "listening"
    /\ proxy' = "closing"
    /\ conns' = [c \in Conns |->
            Shut([conns[c] EXCEPT !.client = Destroyed(@)])]

\* The promise is kept once the last connection has closed.
Closed ==
    /\ proxy = "closing" /\ \A c \in Conns : conns[c].client = "closed"
    /\ proxy' = "closed"
    /\ UNCHANGED conns

ProxyStep(c) ==
    \/ UpstreamAnswers(c) \/ UpstreamEnds(c) \/ UpstreamFails(c)
    \/ UpstreamVanishes(c) \/ UpstreamCloses(c) \/ ClientCloses(c)

\* 'close' follows every destroy().
EventsOf(c) ==
    \/ conns[c].client = "destroyed" /\ ClientCloses(c)
    \/ conns[c].up = "destroyed" /\ UpstreamCloses(c)
=============================================================================
