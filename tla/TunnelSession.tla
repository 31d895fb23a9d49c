---------------------------- MODULE TunnelSession ---------------------------
(***************************************************************************)
(* One carrier between a phone and the Host, of src/tunnel-server.ts.  On   *)
(* one that is authenticated (a data channel) the session is there from the *)
(* start (attachAuthenticatedTransport); on any other a hello opens it, and *)
(* a later hello, of a roaming phone, replaces it                           *)
(* (attachHandshakeTransport).  In a session (startHostSession) the phone   *)
(* asks for HTTP requests and WebSocket bridges, which the Host takes to    *)
(* the loopback DSH server once it has a cookie.                            *)
(*                                                                         *)
(* The frames travel in order (up, down).  What was started upstream       *)
(* answers whenever it likes, also after the session that asked has been   *)
(* torn down: every job remembers its session, as every callback of the    *)
(* source closes over it.  The phone's side is external: it uses an id     *)
(* once per session, talks after the ack of its hello, and uses a bridge   *)
(* after its ws-ack.                                                       *)
(*                                                                         *)
(* Left out: ping, answered on the spot; sequence numbers, which an        *)
(* ordered carrier keeps; malformed frames.  An http-res and the http-data *)
(* frames that follow it in the same loop are one message.                 *)
(***************************************************************************)
EXTENDS Integers, Sequences, FiniteSets

CONSTANTS
    Ids,             \* ids the phone gives its requests and bridges
    NoId,            \* for messages about the session itself
    MaxBody,         \* MAX_BODY_BYTES, in http-data frames
    MaxUpload,       \* frames of the longest upload a phone sends
    Eager,           \* the phone may close a bridge before it is open
    Refused,         \* what it asks for under the Host's administration paths
    MaxSessions,     \* bound on the hellos
    MaxFlight        \* bound on the frames under way in each direction

ASSUME SessionAssumption ==
    /\ NoId \notin Ids
    /\ {MaxBody, MaxUpload, MaxSessions, MaxFlight} \subseteq Nat \ {0}
    /\ Eager \in BOOLEAN
    /\ Refused \subseteq {"http-req", "http-post", "ws-open"}

VARIABLES
    authenticated,   \* no hello is spoken on this carrier
    peer,            \* number of the phone's last hello
    joined,          \* its ack has been heard
    call,            \* what the phone knows of each id in this session
    sent,            \* http-data frames it has sent for each id
    up, down,        \* frames to and from the Host
    carrier,         \* open, closing (by the Host's decision) or closed
    session,         \* session: the hello it is of, 0 for null
    requests,        \* state.requests: id -> body frames received
    bridges,         \* state.bridges: the ids in it
    closedBridges,   \* state.closedBridges
    work,            \* what goes on upstream, of any session
    resets           \* history: requests whose response was reset

phone == <<authenticated, peer, joined, call, sent>>
maps == <<requests, bridges, closedBridges>>
vars == <<phone, up, down, carrier, session, maps, work, resets>>

Hello == "hello"
Frame == [t: {Hello, "http-req", "http-post", "http-data", "ws-open",
              "ws-msg", "ws-close"},
          s: 1..MaxSessions, id: Ids \cup {NoId}, last: BOOLEAN]

Message == [t: {"ack", "error", "http-res", "ws-ack", "ws-err", "ws-msg",
                "ws-close"},
            s: 1..MaxSessions, id: Ids \cup {NoId}]

\* A job is waiting for the cookie, then: a request is "asked" and its
\* response "begun"; a bridge is "connecting", "open", and "closing" (or
\* "aborting", if it never opened) once the Host has closed it.
Job == [s: 1..MaxSessions, id: Ids, kind: {"http", "ws"},
        at: {"cookie", "asked", "begun", "connecting", "open", "closing",
             "aborting"}]

Fresh == [id \in Ids |-> "fresh"]
Nothing == [id \in {} |-> 0]
Without(f, id) == [i \in DOMAIN f \ {id} |-> f[i]]

\* attachAuthenticatedTransport: the session is there at once; frames and the
\* end of the carrier are handled as below, but for hellos, which nobody says.
AttachAuthenticated ==
    /\ authenticated /\ joined
    /\ peer = 1 /\ session = 1

\* attachHandshakeTransport: there is none before the first hello.
AttachHandshake ==
    /\ ~authenticated /\ ~joined
    /\ peer = 0 /\ session = 0

Init ==
    /\ authenticated \in BOOLEAN /\ joined \in BOOLEAN
    /\ peer \in {0, 1} /\ session \in {0, 1}
    /\ AttachAuthenticated \/ AttachHandshake
    /\ call = Fresh /\ sent = [id \in Ids |-> 0]
    /\ up = <<>> /\ down = <<>> /\ carrier = "open"
    /\ requests = Nothing /\ bridges = {} /\ closedBridges = {}
    /\ work = {} /\ resets = {}

-----------------------------------------------------------------------------
\* The phone.

Say(t, id, last) ==
    /\ Len(up) < MaxFlight
    /\ up' = Append(up, [t |-> t, s |-> peer', id |-> id, last |-> last])
    /\ UNCHANGED <<down, carrier, session, maps, work, resets>>

SayHello ==
    /\ ~authenticated /\ carrier # "closed" /\ peer < MaxSessions
    /\ peer' = peer + 1 /\ joined' = FALSE /\ UNCHANGED authenticated
    /\ call' = Fresh /\ sent' = [id \in Ids |-> 0]
    /\ Say(Hello, NoId, FALSE)

\* The call id goes from one of the states in from to the state to.
Turn(id, from, to) ==
    /\ joined /\ carrier # "closed" /\ call[id] \in from
    /\ call' = [call EXCEPT ![id] = to]
    /\ UNCHANGED <<authenticated, peer, joined>>

Ask(id) == Turn(id, {"fresh"}, "asked") /\ UNCHANGED sent
           /\ Say("http-req", id, TRUE)

Post(id) == Turn(id, {"fresh"}, "uploading") /\ UNCHANGED sent
            /\ Say("http-post", id, FALSE)

Upload(id, last) ==
    /\ sent[id] < MaxUpload
    /\ sent[id] = MaxUpload - 1 => last
    /\ Turn(id, {"uploading"}, IF last THEN "asked" ELSE "uploading")
    /\ sent' = [sent EXCEPT ![id] = @ + 1]
    /\ Say("http-data", id, last)

Open(id) == Turn(id, {"fresh"}, "opening") /\ UNCHANGED sent
            /\ Say("ws-open", id, FALSE)

Speak(id) == Turn(id, {"open"}, "open") /\ UNCHANGED sent
             /\ Say("ws-msg", id, FALSE)

Leave(id) ==
    /\ Turn(id, {"open"} \cup (IF Eager THEN {"opening"} ELSE {}), "left")
    /\ UNCHANGED sent /\ Say("ws-close", id, FALSE)

\* What call becomes when the phone hears a message about it.
Learnt(was, t) ==
    CASE t = "http-res" -> IF was \in {"answered", "twice"} THEN "twice" ELSE "answered"
      [] t = "ws-ack"   -> IF was = "opening" THEN "open" ELSE was
      [] t \in {"ws-err", "ws-close"} -> "ended"
      [] OTHER -> was

Hear ==
    /\ down # <<>>
    /\ down' = Tail(down)
    /\ LET m == Head(down)
       IN  IF m.s # peer THEN UNCHANGED <<joined, call>>
           ELSE IF m.id = NoId
           THEN joined' = (m.t = "ack") /\ UNCHANGED call
           ELSE /\ call' = [call EXCEPT ![m.id] = Learnt(@, m.t)]
                /\ UNCHANGED joined
    /\ UNCHANGED <<authenticated, peer, sent, up, carrier, session, maps, work, resets>>

-----------------------------------------------------------------------------
\* The Host.

\* sendMsg, of session s: the messages named ts about id.
Messages(s, id, ts) == [i \in DOMAIN ts |-> [t |-> ts[i], s |-> s, id |-> id]]

Send(s, id, ts) ==
    IF s # session THEN UNCHANGED down
    ELSE /\ Len(down) + Len(ts) <= MaxFlight
         /\ down' = down \o Messages(s, id, ts)

\* closeTransport: what is under way still arrives until the carrier closes.
CloseTransport ==
    /\ carrier' = "closing"
    /\ UNCHANGED <<down, session, maps, work>>

\* The jobs of the session once its bridges have been closed.
Closed(j) == [j EXCEPT !.at = IF j.at = "connecting" THEN "aborting"
                              ELSE IF j.at = "open" THEN "closing" ELSE @]

\* Mutant: only the bridges that are open are closed.
TornDownOpenOnly == {IF j.at = "open" THEN [j EXCEPT !.at = "closing"] ELSE j : j \in work}

\* teardown of the present session.
TornDown == {IF j.s = session /\ j.id \in bridges THEN Closed(j) ELSE j : j \in work}

NoMaps == requests' = Nothing /\ bridges' = {} /\ closedBridges' = {}

\* A hello that the handshake accepts (adoptSession).
AdoptSession(f) ==
    /\ f.t = Hello
    /\ Len(down) < MaxFlight
    /\ work' = TornDown
    /\ NoMaps
    /\ session' = f.s
    /\ down' = down \o Messages(f.s, NoId, <<"ack">>)
    /\ UNCHANGED carrier

\* ... and one that it rejects: the session, if any, goes on.
RejectHello(f) ==
    /\ f.t = Hello
    /\ Len(down) < MaxFlight
    /\ down' = down \o Messages(f.s, NoId, <<"error">>)
    /\ UNCHANGED <<carrier, session, maps, work>>

\* forwardRequest up to its wait for the cookie.
Forward(id) ==
    work' = work \cup {[s |-> session, id |-> id, kind |-> "http", at |-> "cookie"]}

\* onHttpReq.
HttpReq(f) ==
    /\ f.t \in {"http-req", "http-post"}
    /\ IF f.id \in DOMAIN requests THEN CloseTransport
       ELSE /\ IF f.last THEN Forward(f.id) /\ UNCHANGED requests
               ELSE /\ requests' = [i \in DOMAIN requests \cup {f.id} |->
                                       IF i = f.id THEN 0 ELSE requests[i]]
                    /\ UNCHANGED work
            /\ UNCHANGED <<down, carrier, session, bridges, closedBridges>>

\* onHttpReq, or onWsOpen, for a path of the Host's administration.
RefusePath(f) ==
    /\ f.t \in Refused
    /\ f.id \notin DOMAIN requests \cup bridges \cup closedBridges
    /\ IF f.t = "ws-open"
       THEN /\ Send(session, f.id, <<"ws-err">>)
            /\ closedBridges' = closedBridges \cup {f.id}
       ELSE Send(session, f.id, <<"http-res">>) /\ UNCHANGED closedBridges
    /\ UNCHANGED <<carrier, session, requests, bridges, work>>

\* Mutant: an upload that was refused is still forwarded at its end.
HttpDataTwice(f) ==
    /\ f.t = "http-data"
    /\ IF f.id \notin DOMAIN requests THEN CloseTransport
       ELSE LET size == requests[f.id] + 1
            IN  /\ IF size > MaxBody THEN Send(session, f.id, <<"http-res">>)
                   ELSE UNCHANGED down
                /\ IF f.last THEN Forward(f.id) ELSE UNCHANGED work
                /\ requests' = IF size > MaxBody \/ f.last
                               THEN Without(requests, f.id)
                               ELSE [requests EXCEPT ![f.id] = size]
                /\ UNCHANGED <<carrier, session, bridges, closedBridges>>

\* Mutant: an upload that is too long is dropped without a word.
HttpDataSilent(f) ==
    /\ f.t = "http-data"
    /\ IF f.id \notin DOMAIN requests THEN CloseTransport
       ELSE LET size == requests[f.id] + 1
            IN  /\ IF f.last /\ size <= MaxBody THEN Forward(f.id) ELSE UNCHANGED work
                /\ requests' = IF size > MaxBody \/ f.last
                               THEN Without(requests, f.id)
                               ELSE [requests EXCEPT ![f.id] = size]
                /\ UNCHANGED <<down, carrier, session, bridges, closedBridges>>

\* onHttpData: an upload that is too long is refused with 413.
HttpData(f) ==
    /\ f.t = "http-data"
    /\ IF f.id \notin DOMAIN requests THEN CloseTransport
       ELSE LET size == requests[f.id] + 1
            IN  /\ IF size > MaxBody
                   THEN Send(session, f.id, <<"http-res">>) /\ UNCHANGED work
                   ELSE /\ IF f.last THEN Forward(f.id) ELSE UNCHANGED work
                        /\ UNCHANGED down
                /\ requests' = IF size > MaxBody \/ f.last
                               THEN Without(requests, f.id)
                               ELSE [requests EXCEPT ![f.id] = size]
                /\ UNCHANGED <<carrier, session, bridges, closedBridges>>

\* onWsOpen up to its wait for the cookie.
WsOpen(f) ==
    /\ f.t = "ws-open"
    /\ IF f.id \in bridges \cup closedBridges THEN CloseTransport
       ELSE /\ work' = work \cup
                 {[s |-> session, id |-> f.id, kind |-> "ws", at |-> "cookie"]}
            /\ UNCHANGED <<down, carrier, session, maps>>

\* onWsMsg: to the bridge, or too late, or for an id that is not known.
WsMsg(f) ==
    /\ f.t = "ws-msg"
    /\ IF f.id \in bridges \cup closedBridges
       THEN UNCHANGED <<down, carrier, session, maps, work>>
       ELSE CloseTransport

\* onWsClose.
WsClose(f) ==
    /\ f.t = "ws-close"
    /\ IF f.id \in bridges
       THEN /\ bridges' = bridges \ {f.id}
            /\ closedBridges' = closedBridges \cup {f.id}
            /\ work' = {IF j.s = session /\ j.id = f.id THEN Closed(j) ELSE j : j \in work}
            /\ UNCHANGED <<down, carrier, session, requests>>
       ELSE IF f.id \in closedBridges
       THEN UNCHANGED <<down, carrier, session, maps, work>>
       ELSE CloseTransport

\* onFrame: the next frame, of the session in force or a hello.
OnFrame ==
    /\ up # <<>>
    /\ up' = Tail(up)
    /\ LET f == Head(up)
       IN  \/ AdoptSession(f) \/ RejectHello(f)
           \/ /\ f.s = session
              /\ \/ HttpReq(f) \/ HttpData(f) \/ WsOpen(f) \/ RefusePath(f)
                 \/ WsMsg(f) \/ WsClose(f)
    /\ UNCHANGED <<phone, resets>>

-----------------------------------------------------------------------------
\* Upstream.

Become(j, at) == work' = (work \ {j}) \cup {[j EXCEPT !.at = at]}
Done(j) == work' = work \ {j}

\* Mutant: a bridge is opened for a session that may be over.
CookieForAny(j) ==
    /\ j.at = "cookie"
    /\ IF j.kind = "http" THEN Become(j, "asked") /\ UNCHANGED bridges
       ELSE /\ Become(j, "connecting")
            /\ bridges' = IF j.s = session THEN bridges \cup {j.id} ELSE bridges
    /\ UNCHANGED <<down, requests, closedBridges>>

\* waitCookie settles, whichever way: the request, or the bridge, is started
\* unless the session is over.
Cookie(j) ==
    /\ j.at = "cookie"
    /\ IF j.s # session \/ (j.kind = "ws" /\ j.id \in closedBridges)
       THEN Done(j) /\ UNCHANGED bridges
       ELSE IF j.kind = "http"
       THEN Become(j, "asked") /\ UNCHANGED bridges
       ELSE Become(j, "connecting") /\ bridges' = bridges \cup {j.id}
    /\ UNCHANGED <<down, requests, closedBridges>>

\* collectResponse: a response begins.
Begin(j) ==
    /\ j.at = "asked"
    /\ Become(j, "begun")
    /\ UNCHANGED <<down, maps>>

\* Mutant: a late response is put into the session now in force.
RespondToCurrent(j) ==
    /\ j.at \in {"asked", "begun"}
    /\ Done(j)
    /\ Send(session, j.id, <<"http-res">>)
    /\ UNCHANGED maps

\* It ends, is too long or is cut off; or there was none.  One http-res.
Respond(j) ==
    /\ j.at \in {"asked", "begun"}
    /\ Done(j)
    /\ Send(j.s, j.id, <<"http-res">>)
    /\ UNCHANGED maps

\* The connection is reset, or times out, in the middle of the response: Node
\* reports it on the request and on the response, and each answers.
Reset(j) ==
    /\ j.at = "begun"
    /\ Done(j)
    /\ Send(j.s, j.id, <<"http-res", "http-res">>)
    /\ UNCHANGED maps

\* 'open'.
Connected(j) ==
    /\ j.at = "connecting"
    /\ Become(j, "open")
    /\ Send(j.s, j.id, <<"ws-ack">>)
    /\ UNCHANGED maps

\* Mutant: the id of a bridge that ended is forgotten.
GoneAndForgotten(j, ts) ==
    /\ Done(j)
    /\ bridges' = IF j.s = session THEN bridges \ {j.id} ELSE bridges
    /\ Send(j.s, j.id, ts)
    /\ UNCHANGED <<requests, closedBridges>>

\* The end of a bridge: its maps, if they are still those of the session, and
\* what the phone is told.
Gone(j, ts) ==
    /\ Done(j)
    /\ IF j.s = session
       THEN /\ bridges' = bridges \ {j.id}
            /\ closedBridges' = closedBridges \cup {j.id}
       ELSE UNCHANGED <<bridges, closedBridges>>
    /\ Send(j.s, j.id, ts)
    /\ UNCHANGED requests

\* 'error' before it was open, which 'close' follows.
Failed(j) == j.at \in {"connecting", "aborting"}
             /\ Gone(j, <<"ws-err", "ws-close">>)

\* 'close' of a bridge that was open.
Ended(j) == j.at \in {"open", "closing"} /\ Gone(j, <<"ws-close">>)

\* 'message': also while the bridge is closing.
Said(j) ==
    /\ j.at \in {"open", "closing"}
    /\ Send(j.s, j.id, <<"ws-msg">>)
    /\ UNCHANGED <<maps, work>>

Upstream(j) ==
    /\ \/ (Cookie(j) \/ Begin(j) \/ Respond(j) \/ Connected(j) \/ Failed(j)
             \/ Ended(j) \/ Said(j)) /\ UNCHANGED resets
       \/ Reset(j) /\ resets' = IF j.s = session
                                THEN resets \cup {[s |-> j.s, id |-> j.id]}
                                ELSE resets
    /\ UNCHANGED <<phone, up, carrier, session>>

-----------------------------------------------------------------------------
\* The carrier closes, or the gate is closed: what was under way is lost.
Close ==
    /\ carrier # "closed"
    /\ carrier' = "closed" /\ session' = 0
    /\ work' = TornDown
    /\ NoMaps
    /\ up' = <<>> /\ down' = <<>>
    /\ UNCHANGED <<phone, resets>>

Next ==
    \/ SayHello
    \/ \E id \in Ids : \/ Ask(id) \/ Post(id) \/ Open(id) \/ Speak(id) \/ Leave(id)
                       \/ \E last \in BOOLEAN : Upload(id, last)
    \/ Hear
    \/ OnFrame
    \/ \E j \in work : Upstream(j)
    \/ Close

Spec == Init /\ [][Next]_vars

\* The carrier delivers; a wait for the cookie settles (see ConnectionCookie);
\* an upstream request ends, if only by its timeout.  Strong fairness where
\* the Host sends: that down is full is a bound of the model.
FairSpec ==
    /\ Spec
    /\ WF_vars(Hear) /\ SF_vars(OnFrame)
    /\ \A id \in Ids : SF_vars(\E j \in work :
          /\ j.id = id /\ j.s = session /\ (Cookie(j) \/ Respond(j))
          /\ UNCHANGED <<phone, up, carrier, session, resets>>)

-----------------------------------------------------------------------------
\* The variables have their types; the maps are those of the session.
TypeOK ==
    /\ authenticated \in BOOLEAN /\ peer \in 0..MaxSessions /\ session \in 0..peer /\ joined \in BOOLEAN
    /\ call \in [Ids -> {"fresh", "asked", "uploading", "answered", "twice",
                         "opening", "open", "left", "ended"}]
    /\ sent \in [Ids -> 0..MaxUpload]
    /\ up \in Seq(Frame) /\ down \in Seq(Message)
    /\ {Len(up), Len(down)} \subseteq 0..MaxFlight
    /\ carrier \in {"open", "closing", "closed"}
    /\ DOMAIN requests \subseteq Ids /\ \A id \in DOMAIN requests : requests[id] \in 0..MaxBody
    /\ bridges \cup closedBridges \subseteq Ids
    /\ work \subseteq Job /\ resets \subseteq [s : 1..MaxSessions, id : Ids]

\* A re-handshake replaces the session (the header of tunnel-server.ts): the
\* phone never gets a frame of the session before, whatever was going on
\* upstream for it, and no upstream WebSocket is left behind: one that connects
\* or is open is in the maps of the session in force, which will close it.
\* (tunnel-server.ts:207, 427, teardown.)
SessionsApart ==
    /\ \A i, k \in DOMAIN down :
          i < k /\ down[i].t # "error" /\ down[k].t # "error" => down[i].s <= down[k].s
    /\ \A j \in work :
          j.at \in {"connecting", "open"} => j.s = session /\ j.id \in bridges

\* What the Host takes for granted of a phone: it says nothing to a bridge that
\* is not open yet, uploads nothing to an administration path, and passes the
\* upload limit, if at all, with its last frame.
PhoneKeepsRules ==
    /\ ~Eager
    /\ "http-post" \notin Refused
    /\ MaxUpload <= MaxBody + 1

\* The Host does not close the carrier, with every other call on it, because of
\* a frame of a phone that keeps these three rules, whatever it has been told
\* meanwhile and whatever ended upstream.  Where one of them is broken it does
\* close it.  (tunnel-server.ts:245, 266, 381, 445, 458; the rules are for 240, 270
\* and 458.)
KeepsCarrier == PhoneKeepsRules => carrier # "closing"

\* A request is answered once, by whatever end it comes to: refused, forwarded,
\* failed upstream or too long.  (The exception is Reset; tunnel-server.ts:315.)
AnsweredOnce ==
    /\ TypeOK
    /\ \A id \in Ids : call[id] = "twice" => [s |-> peer, id |-> id] \in resets

\* The carrier implements the contract of requests and bridges: what a phone
\* hears of an id is about what it asked for by it, in this session.  The Host
\* does not tell an upload that goes on from one that has been sent, nor a
\* bridge that the phone has left from one that ended.  (tunnel-server.ts:294-
\* 315, 388-420; the callbacks close over the session that asked.)
Outcome(c) == CASE c = "uploading" -> "asked"
                [] c \in {"left", "ended"} -> "over"
                [] OTHER -> c

Seen == [id \in Ids |-> Outcome(call[id])]
Doubled == {id \in Ids : [s |-> peer, id |-> id] \in resets}

Contract == INSTANCE RequestContract WITH hello <- peer, call <- Seen, doubled <- Doubled

ImplementsRequestContract == Contract!Spec

\* A request that was sent is answered, unless the session or carrier ends.
\* (tunnel-server.ts:294.)
RequestSettles ==
    \A id \in Ids :
        call[id] = "asked" ~> call[id] # "asked" \/ carrier = "closed"
=============================================================================
