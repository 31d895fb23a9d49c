------------------------ MODULE TunnelSession_proofs ------------------------
(***************************************************************************)
(* What holds of a carrier for any number of ids, sessions and frames under *)
(* way: sessions stay apart, a request is answered once, and, of a phone    *)
(* that keeps the rules, every frame finds the Host ready for it.  Last,    *)
(* the session implements RequestContract.                                 *)
(* SessionsApart is not inductive.  That a session's answers stand in order *)
(* rests on the order of the phone's frames, which decide when one session  *)
(* takes the place of another; and that a bridge which ends takes no other  *)
(* one out of the maps rests on the phone's using an id once.               *)
(***************************************************************************)
EXTENDS TunnelSession, TLAPS

\* The order that SessionsApart asks for, of a sequence of messages.
InOrder(d) ==
    \A i, k \in DOMAIN d :
        i < k /\ d[i].t # "error" /\ d[k].t # "error" => d[i].s <= d[k].s

UpTo(d, n) == \A i \in DOMAIN d : d[i].t # "error" => d[i].s <= n

\* The frames of the phone under way follow its hellos; the Host's session is
\* none of a later one.  All frames but hellos are about an id.
FramesInOrder ==
    /\ \A i, k \in DOMAIN up : i < k => up[i].s <= up[k].s
    /\ \A i \in DOMAIN up : session <= up[i].s /\ up[i].s <= peer
    /\ \A i \in DOMAIN up : up[i].t # Hello => up[i].id \in Ids

Ws(j, s, id) == j.kind = "ws" /\ j.s = s /\ j.id = id
OpenFrame(f, s, id) == f.t = "ws-open" /\ f.s = s /\ f.id = id

\* A bridge is asked for once: it is a frame under way, or one job.
BridgesOnce ==
    /\ \A i, k \in DOMAIN up :
          up[i].t = "ws-open" /\ OpenFrame(up[k], up[i].s, up[i].id) => i = k
    /\ \A i \in DOMAIN up, j \in work :
          up[i].t = "ws-open" => ~Ws(j, up[i].s, up[i].id)
    /\ \A j, k \in work : j.kind = "ws" /\ Ws(k, j.s, j.id) => j = k

\* An id that is fresh has not been heard of in this session.
FreshIsUnheard ==
    \A id \in Ids : call[id] = "fresh" =>
        /\ \A i \in DOMAIN up : ~OpenFrame(up[i], peer, id)
        /\ \A j \in work : ~Ws(j, peer, id)

\* What a job is at goes with its kind, and nobody works for a later session.
WorkTyped ==
    \A j \in work :
        /\ j.s <= peer
        /\ j.at \in {"connecting", "open", "closing", "aborting"} => j.kind = "ws"

OpenIsInMaps ==
    \A j \in work : j.at \in {"connecting", "open"} => j.s = session /\ j.id \in bridges

Typed ==
    /\ peer \in 0..MaxSessions /\ session \in 0..peer /\ (joined => peer # 0)
    /\ up \in Seq(Frame) /\ down \in Seq(Message)
    /\ work \subseteq Job
    /\ call \in [Ids -> {"fresh", "asked", "uploading", "answered", "twice",
                         "opening", "open", "left", "ended"}]

DownOrdered == InOrder(down) /\ UpTo(down, session)

IInv ==
    /\ Typed /\ DownOrdered /\ FramesInOrder
    /\ BridgesOnce /\ FreshIsUnheard /\ WorkTyped /\ OpenIsInMaps

-----------------------------------------------------------------------------
\* Sequences.
LEMMA Appended ==
    ASSUME NEW S, NEW q \in Seq(S), NEW e \in S
    PROVE  /\ Append(q, e) \in Seq(S)
           /\ DOMAIN q = 1..Len(q) /\ Len(q) \in Nat
           /\ DOMAIN Append(q, e) = 1..(Len(q) + 1)
           /\ \A i \in 1..Len(q) : Append(q, e)[i] = q[i]
           /\ Append(q, e)[Len(q) + 1] = e
OBVIOUS

LEMMA Removed ==
    ASSUME NEW S, NEW q \in Seq(S), q # <<>>
    PROVE  /\ Tail(q) \in Seq(S) /\ Head(q) = q[1] /\ Head(q) \in S
           /\ 1 \in DOMAIN q
           /\ \A i \in DOMAIN Tail(q) :
                 i \in Nat /\ i + 1 \in DOMAIN q /\ Tail(q)[i] = q[i + 1]
OBVIOUS

LEMMA Bounds == {MaxBody, MaxUpload, MaxSessions, MaxFlight} \subseteq Nat \ {0}
BY SessionAssumption

\* Messages of one session, not of an earlier one than those before.
LEMMA Concatenated ==
    ASSUME NEW d \in Seq(Message), NEW m \in Seq(Message), NEW n \in Nat,
           NEW before \in Nat, before <= n, InOrder(d), UpTo(d, before),
           \A i \in DOMAIN m : m[i].t # "error" => m[i].s = n
    PROVE  d \o m \in Seq(Message) /\ InOrder(d \o m) /\ UpTo(d \o m, n)
<1>1. /\ d \o m \in Seq(Message)
      /\ DOMAIN d = 1..Len(d) /\ DOMAIN m = 1..Len(m)
      /\ Len(d) \in Nat /\ Len(m) \in Nat
      /\ DOMAIN (d \o m) = 1..(Len(d) + Len(m))
      /\ \A i \in 1..(Len(d) + Len(m)) :
            (d \o m)[i] = IF i <= Len(d) THEN d[i] ELSE m[i - Len(d)]
    OBVIOUS
<1>2. \A i \in DOMAIN d : d[i].s \in Nat
    <2>1. \A x \in Message : x.s \in 1..MaxSessions
        BY DEF Message
    <2>2. \A i \in DOMAIN d : d[i] \in Message
        OBVIOUS
    <2> QED BY <2>1, <2>2, Bounds
<1>3. UpTo(d \o m, n)
    BY <1>1, <1>2 DEF UpTo
<1>4. ASSUME NEW i \in DOMAIN (d \o m), NEW k \in DOMAIN (d \o m), i < k,
             (d \o m)[i].t # "error", (d \o m)[k].t # "error"
      PROVE  (d \o m)[i].s <= (d \o m)[k].s
    <2>1. CASE k <= Len(d)
        BY <1>1, <1>4, <2>1 DEF InOrder
    <2>2. CASE k > Len(d)
        <3>1. (d \o m)[k].s = n
            BY <1>1, <1>4, <2>2
        <3> QED BY <3>1, <1>3, <1>4 DEF UpTo
    <2> QED BY <1>1, <2>1, <2>2
<1> QED BY <1>1, <1>3, <1>4 DEF InOrder

MessageNames == {"ack", "error", "http-res", "ws-ack", "ws-err", "ws-msg", "ws-close"}

LEMMA MessagesTyped ==
    ASSUME NEW s \in 1..MaxSessions, NEW id \in Ids \cup {NoId},
           NEW ts \in Seq(MessageNames)
    PROVE  /\ Messages(s, id, ts) \in Seq(Message)
           /\ \A i \in DOMAIN Messages(s, id, ts) :
                 Messages(s, id, ts)[i].s = s /\ Messages(s, id, ts)[i].t = ts[i]
           /\ DOMAIN Messages(s, id, ts) = DOMAIN ts
<1>1. DOMAIN ts = 1..Len(ts) /\ Len(ts) \in Nat
    OBVIOUS
<1>2. \A i \in 1..Len(ts) : [t |-> ts[i], s |-> s, id |-> id] \in Message
    BY DEF Message, MessageNames
<1> QED BY <1>1, <1>2 DEF Messages

\* What the Host sends leaves its messages in order.
LEMMA SendStep ==
    ASSUME Typed, DownOrdered, session' = session,
           NEW s \in 1..MaxSessions, NEW id \in Ids \cup {NoId},
           NEW ts \in Seq(MessageNames), Send(s, id, ts)
    PROVE  down' \in Seq(Message) /\ DownOrdered'
<1>1. CASE s # session
    BY <1>1 DEF Send, Typed, DownOrdered
<1>2. CASE s = session
    <2>1. down' = down \o Messages(s, id, ts)
        BY <1>2 DEF Send
    <2>2. s \in Nat /\ s <= s
        OBVIOUS
    <2>3. \A i \in DOMAIN Messages(s, id, ts) : Messages(s, id, ts)[i].s = s
        BY MessagesTyped
    <2> QED BY <1>2, <2>1, <2>2, <2>3, MessagesTyped, Concatenated DEF Typed, DownOrdered
<1> QED BY <1>1, <1>2

-----------------------------------------------------------------------------
\* What may have been taken from the frames under way.
FewerFrames ==
    \/ up' = up
    \/ up # <<>> /\ up' = Tail(up)
    \/ up' = <<>>

\* No bridge is added, and none is doubled.
SameJobs ==
    /\ work' \subseteq Job
    /\ \A j \in work' : /\ j.s <= peer
                        /\ j.kind = "ws" => \E k \in work : k.kind = "ws" /\ Ws(k, j.s, j.id)
    /\ \A j, k \in work' : j.kind = "ws" /\ Ws(k, j.s, j.id) => j = k
    /\ \A j \in work' :
          j.at \in {"connecting", "open", "closing", "aborting"} => j.kind = "ws"

LEMMA FewerFramesInOrder ==
    ASSUME Typed, FramesInOrder, FewerFrames, peer' = peer, session' = session
    PROVE  up' \in Seq(Frame) /\ FramesInOrder'
<1>1. CASE up' = up
    BY <1>1 DEF Typed, FramesInOrder
<1>2. CASE up' = <<>>
    BY <1>2 DEF FramesInOrder
<1>3. CASE up # <<>> /\ up' = Tail(up)
    <2>1. up \in Seq(Frame)
        BY DEF Typed
    <2>2. /\ up' \in Seq(Frame)
          /\ \A i \in DOMAIN up' :
                i \in Nat /\ i + 1 \in DOMAIN up /\ up'[i] = up[i + 1]
        BY <1>3, <2>1, Removed
    <2>3. \A i, k \in DOMAIN up' : i < k => up'[i].s <= up'[k].s
        <3> SUFFICES ASSUME NEW i \in DOMAIN up', NEW k \in DOMAIN up', i < k
                     PROVE  up'[i].s <= up'[k].s
            OBVIOUS
        <3>1. i + 1 < k + 1
            BY <2>2
        <3> QED BY <2>2, <3>1 DEF FramesInOrder
    <2>4. \A i \in DOMAIN up' :
             session <= up'[i].s /\ up'[i].s <= peer /\ (up'[i].t # Hello => up'[i].id \in Ids)
        BY <2>2 DEF FramesInOrder
    <2> QED BY <2>2, <2>3, <2>4 DEF FramesInOrder
<1> QED BY <1>1, <1>2, <1>3 DEF FewerFrames

LEMMA SameJobsStep ==
    ASSUME IInv, FewerFrames, SameJobs, peer' = peer,
           \A id \in Ids : call'[id] = "fresh" => call[id] = "fresh"
    PROVE  BridgesOnce' /\ FreshIsUnheard' /\ WorkTyped'
<1>1. WorkTyped'
    BY DEF IInv, WorkTyped, SameJobs
<1>2. \A i \in DOMAIN up' : \E k \in DOMAIN up : up'[i] = up[k]
    <2>1. CASE up' = up \/ up' = <<>>
        BY <2>1
    <2>2. CASE up # <<>> /\ up' = Tail(up)
        BY <2>2, Removed DEF IInv, Typed
    <2> QED BY <2>1, <2>2 DEF FewerFrames
<1>3. \A i \in DOMAIN up', j \in work' :
          up'[i].t = "ws-open" => ~Ws(j, up'[i].s, up'[i].id)
    BY <1>2 DEF IInv, BridgesOnce, SameJobs, Ws
<1>4. \A i, k \in DOMAIN up' :
          up'[i].t = "ws-open" /\ OpenFrame(up'[k], up'[i].s, up'[i].id) => i = k
    <2>1. CASE up' = up \/ up' = <<>>
        BY <2>1 DEF IInv, BridgesOnce
    <2>2. CASE up # <<>> /\ up' = Tail(up)
        BY <2>2, Removed DEF IInv, Typed, BridgesOnce
    <2> QED BY <2>1, <2>2 DEF FewerFrames
<1>5. BridgesOnce'
    BY <1>3, <1>4 DEF BridgesOnce, SameJobs
<1>6. FreshIsUnheard'
    BY <1>2 DEF IInv, FreshIsUnheard, SameJobs, Ws, OpenFrame
<1> QED BY <1>1, <1>5, <1>6

\* The jobs in P are closed.
LEMMA ClosedJobs ==
    ASSUME IInv, NEW P, work' = {IF j \in P THEN Closed(j) ELSE j : j \in work}
    PROVE  SameJobs
<1>1. \A j \in Job : /\ Closed(j) \in Job /\ Closed(j).kind = j.kind
                     /\ Closed(j).s = j.s /\ Closed(j).id = j.id
                     /\ Closed(j).at \in {"aborting", "closing", j.at}
                     /\ Closed(j).at = "aborting" => j.at \in {"connecting", "aborting"}
                     /\ Closed(j).at = "closing" => j.at \in {"open", "closing"}
    BY DEF Job, Closed
<1>2. work \subseteq Job
    BY DEF IInv, Typed
<1>3. \A j \in work' : \E k \in work :
          /\ j = (IF k \in P THEN Closed(k) ELSE k) /\ j \in Job
          /\ j.kind = k.kind /\ j.s = k.s /\ j.id = k.id
          /\ j.at \in {"connecting", "open", "closing", "aborting"} =>
                 k.at \in {"connecting", "open", "closing", "aborting"}
    BY <1>1, <1>2
<1>4. ASSUME NEW j \in work', NEW k \in work', j.kind = "ws", Ws(k, j.s, j.id)
      PROVE  j = k
    <2>1. PICK a \in work : j = (IF a \in P THEN Closed(a) ELSE a)
                            /\ j.kind = a.kind /\ j.s = a.s /\ j.id = a.id
        BY <1>3
    <2>2. PICK b \in work : k = (IF b \in P THEN Closed(b) ELSE b)
                            /\ k.kind = b.kind /\ k.s = b.s /\ k.id = b.id
        BY <1>3
    <2>3. a = b
        BY <1>4, <2>1, <2>2 DEF Ws, IInv, BridgesOnce
    <2> QED BY <2>1, <2>2, <2>3
<1>5. \A j \in work' : /\ j.s <= peer
                       /\ j.kind = "ws" => \E k \in work : k.kind = "ws" /\ Ws(k, j.s, j.id)
    BY <1>3 DEF IInv, WorkTyped, Ws
<1> QED BY <1>3, <1>4, <1>5 DEF SameJobs, IInv, WorkTyped

\* One job goes on or is done.
LEMMA JobGoesOn ==
    ASSUME IInv, NEW j \in work,
           \/ Done(j)
           \/ \E at :
                 /\ Become(j, at) /\ [j EXCEPT !.at = at] \in Job
                 /\ at \in {"connecting", "open", "closing", "aborting"} => j.kind = "ws"
    PROVE  SameJobs
<1>1. j \in Job /\ work \subseteq Job
    BY DEF IInv, Typed
<1>2. CASE Done(j)
    BY <1>1, <1>2 DEF Done, SameJobs, IInv, BridgesOnce, WorkTyped, Ws
<1>3. ASSUME NEW at, Become(j, at), [j EXCEPT !.at = at] \in Job,
             at \in {"connecting", "open", "closing", "aborting"} => j.kind = "ws"
      PROVE  SameJobs
    <2>1. PICK n : n = [j EXCEPT !.at = at] /\ n \in Job
        BY <1>3
    <2>2. n.kind = j.kind /\ n.s = j.s /\ n.id = j.id /\ n.at = at
        BY <1>1, <2>1 DEF Job
    <2>3. work' = (work \ {j}) \cup {n}
        BY <1>3, <2>1 DEF Become
    <2>4. work' \subseteq Job
        BY <1>1, <2>1, <2>3
    <2>5. \A x \in work' : /\ x.s <= peer
                           /\ x.kind = "ws" => \E k \in work : k.kind = "ws" /\ Ws(k, x.s, x.id)
        BY <2>2, <2>3 DEF IInv, WorkTyped, Ws
    <2>6. ASSUME NEW x \in work', NEW y \in work', x.kind = "ws", Ws(y, x.s, x.id)
          PROVE  x = y
        <3>1. \A k \in work : Ws(k, n.s, n.id) => n.kind # "ws" \/ k = j
            BY <2>2 DEF IInv, BridgesOnce, Ws
        <3>2. \A k \in work : k.kind = "ws" /\ Ws(n, k.s, k.id) => k = j
            BY <2>2 DEF IInv, BridgesOnce, Ws
        <3>3. x \in work /\ y \in work => x = y
            BY <2>6 DEF IInv, BridgesOnce
        <3> QED BY <2>3, <2>6, <3>1, <3>2, <3>3
    <2>7. \A x \in work' :
             x.at \in {"connecting", "open", "closing", "aborting"} => x.kind = "ws"
        BY <1>3, <2>2, <2>3 DEF IInv, WorkTyped
    <2> QED BY <2>4, <2>5, <2>6, <2>7 DEF SameJobs
<1> QED BY <1>2, <1>3

-----------------------------------------------------------------------------
\* The initial state.
LEMMA SessionInit == Init => IInv
<1> SUFFICES ASSUME Init PROVE IInv
    OBVIOUS
<1>1. Typed
    BY Bounds DEF Init, Typed, Fresh, AttachAuthenticated, AttachHandshake
<1> QED BY <1>1 DEF Init, IInv, DownOrdered, InOrder, UpTo, FramesInOrder,
        BridgesOnce, FreshIsUnheard, WorkTyped, OpenIsInMaps

LEMMA FramesNumbered == ASSUME Typed PROVE \A i \in DOMAIN up : up[i].s \in Nat
<1>1. \A f \in Frame : f.s \in 1..MaxSessions
    BY DEF Frame
<1>2. \A i \in DOMAIN up : up[i] \in Frame
    BY DEF Typed
<1> QED BY <1>1, <1>2, Bounds

\* The phone says something, be it hello or about an id that is in use now.
LEMMA SayStep ==
    ASSUME IInv, NEW t, NEW id \in Ids \cup {NoId}, NEW last, Say(t, id, last),
           t # Hello => id \in Ids,
           peer' \in Nat, peer <= peer', peer' <= MaxSessions, joined' => peer' # 0,
           [t |-> t, s |-> peer', id |-> id, last |-> last] \in Frame,
           call' \in [Ids -> {"fresh", "asked", "uploading", "answered", "twice",
                              "opening", "open", "left", "ended"}],
           t = "ws-open" => peer' = peer /\ id \in Ids /\ call[id] = "fresh"
                            /\ call'[id] # "fresh",
           \A i \in Ids : call'[i] = "fresh" => peer' # peer \/ call[i] = "fresh"
    PROVE  IInv'
<1> DEFINE f == [t |-> t, s |-> peer', id |-> id, last |-> last]
<1>1. /\ up' = Append(up, f) /\ f \in Frame /\ up \in Seq(Frame)
      /\ UNCHANGED <<down, carrier, session, maps, work, resets>>
    BY DEF Say, IInv, Typed
<1>2. f.t = t /\ f.s = peer' /\ f.id = id
    OBVIOUS
<1> HIDE DEF f
<1>3. /\ up' \in Seq(Frame)
      /\ DOMAIN up = 1..Len(up) /\ Len(up) \in Nat
      /\ DOMAIN up' = 1..(Len(up) + 1)
      /\ \A i \in 1..Len(up) : up'[i] = up[i]
      /\ up'[Len(up) + 1] = f
    BY <1>1, Appended
<1>4. peer \in Nat /\ session \in Nat /\ session <= peer /\ peer <= MaxSessions
    BY Bounds DEF IInv, Typed
<1>5. Typed'
    BY <1>1, <1>3, <1>4, Bounds DEF IInv, Typed
<1>6. DownOrdered' /\ OpenIsInMaps'
    BY <1>1 DEF IInv, DownOrdered, OpenIsInMaps, maps
<1>7. FramesInOrder'
    <2>1. \A i \in 1..Len(up) : /\ session <= up[i].s /\ up[i].s <= peer
                                /\ up[i].s \in Nat
        BY <1>3, FramesNumbered DEF IInv, FramesInOrder
    <2>2. \A i \in DOMAIN up' : session' <= up'[i].s /\ up'[i].s <= peer'
        BY <1>1, <1>2, <1>3, <1>4, <2>1
    <2>3. \A i, k \in DOMAIN up' : i < k => up'[i].s <= up'[k].s
        <3> SUFFICES ASSUME NEW i \in DOMAIN up', NEW k \in DOMAIN up', i < k
                     PROVE  up'[i].s <= up'[k].s
            OBVIOUS
        <3>1. i \in 1..Len(up)
            BY <1>3
        <3>2. CASE k = Len(up) + 1
            BY <1>2, <1>3, <1>4, <2>1, <3>1, <3>2
        <3>3. CASE k \in 1..Len(up)
            BY <1>3, <3>1, <3>3 DEF IInv, FramesInOrder
        <3> QED BY <1>3, <3>2, <3>3
    <2>4. \A i \in DOMAIN up' : up'[i].t # Hello => up'[i].id \in Ids
        BY <1>2, <1>3 DEF IInv, FramesInOrder
    <2> QED BY <2>2, <2>3, <2>4 DEF FramesInOrder
<1>8. \A j \in work : j.s \in Nat /\ j.s <= peer
    BY Bounds DEF IInv, Typed, WorkTyped, Job
<1>9. BridgesOnce'
    <2>1. t = "ws-open" => /\ \A i \in 1..Len(up) : ~OpenFrame(up[i], peer, id)
                           /\ \A j \in work : ~Ws(j, peer, id)
        BY <1>3 DEF IInv, FreshIsUnheard
    <2>2. \A i, k \in DOMAIN up' :
             up'[i].t = "ws-open" /\ OpenFrame(up'[k], up'[i].s, up'[i].id) => i = k
        <3> SUFFICES ASSUME NEW i \in DOMAIN up', NEW k \in DOMAIN up',
                            up'[i].t = "ws-open",
                            OpenFrame(up'[k], up'[i].s, up'[i].id)
                     PROVE  i = k
            OBVIOUS
        <3>1. CASE i \in 1..Len(up) /\ k \in 1..Len(up)
            BY <1>3, <3>1 DEF IInv, BridgesOnce
        <3>2. CASE i \in 1..Len(up) /\ k = Len(up) + 1
            BY <1>2, <1>3, <2>1, <3>2 DEF OpenFrame
        <3>3. CASE i = Len(up) + 1 /\ k \in 1..Len(up)
            BY <1>2, <1>3, <2>1, <3>3 DEF OpenFrame
        <3> QED BY <1>3, <3>1, <3>2, <3>3
    <2>3. \A i \in DOMAIN up', j \in work' :
             up'[i].t = "ws-open" => ~Ws(j, up'[i].s, up'[i].id)
        <3> SUFFICES ASSUME NEW i \in DOMAIN up', NEW j \in work,
                            up'[i].t = "ws-open"
                     PROVE  ~Ws(j, up'[i].s, up'[i].id)
            BY <1>1
        <3>1. CASE i \in 1..Len(up)
            BY <1>3, <3>1 DEF IInv, BridgesOnce
        <3>2. CASE i = Len(up) + 1
            BY <1>2, <1>3, <2>1, <3>2
        <3> QED BY <1>3, <3>1, <3>2
    <2> QED BY <1>1, <2>2, <2>3 DEF IInv, BridgesOnce
<1>10. FreshIsUnheard'
    <2> SUFFICES ASSUME NEW i \in Ids, call'[i] = "fresh"
                 PROVE  /\ \A k \in DOMAIN up' : ~OpenFrame(up'[k], peer', i)
                        /\ \A j \in work : ~Ws(j, peer', i)
        BY <1>1 DEF FreshIsUnheard
    <2>1. CASE peer' = peer
        BY <1>2, <1>3, <2>1 DEF IInv, FreshIsUnheard, OpenFrame
    <2>2. CASE peer' # peer
        <3>1. peer < peer'
            BY <1>4, <2>2
        <3>2. \A k \in 1..Len(up) : up[k].s <= peer /\ up[k].s \in Nat
            BY <1>3, FramesNumbered DEF IInv, FramesInOrder
        <3> QED BY <1>2, <1>3, <1>4, <1>8, <2>2, <3>1, <3>2 DEF OpenFrame, Ws
    <2> QED BY <2>1, <2>2
<1>11. WorkTyped'
    BY <1>1, <1>4, <1>8 DEF IInv, WorkTyped
<1> QED BY <1>5, <1>6, <1>7, <1>9, <1>10, <1>11 DEF IInv

LEMMA PhoneStep ==
    ASSUME IInv,
           \/ SayHello
           \/ \E id \in Ids : \/ Ask(id) \/ Post(id) \/ Open(id) \/ Speak(id) \/ Leave(id)
                              \/ \E last \in BOOLEAN : Upload(id, last)
    PROVE  IInv'
<1> DEFINE Calls == {"fresh", "asked", "uploading", "answered", "twice",
                     "opening", "open", "left", "ended"}
<1>1. /\ call \in [Ids -> Calls] /\ peer \in 0..MaxSessions /\ peer \in Nat
      /\ MaxSessions \in Nat
    BY Bounds DEF IInv, Typed
<1>2. CASE SayHello
    <2>1. /\ Say(Hello, NoId, FALSE) /\ peer' = peer + 1 /\ call' = Fresh
          /\ peer < MaxSessions
        BY <1>2 DEF SayHello
    <2>2. call' \in [Ids -> Calls]
        BY <2>1 DEF Fresh
    <2>3. [t |-> Hello, s |-> peer', id |-> NoId, last |-> FALSE] \in Frame
        BY <1>1, <2>1 DEF Frame
    <2>4. Hello # "ws-open"
        BY DEF Hello
    <2> HIDE DEF Calls
    <2>5. /\ peer' \in Nat /\ peer <= peer' /\ peer' <= MaxSessions /\ peer' # peer
          /\ (joined' => peer' # 0)
        BY <1>1, <1>2, <2>1 DEF SayHello
    <2> QED BY <2>1, <2>2, <2>3, <2>4, <2>5, SayStep DEF Calls
<1>3. ASSUME NEW id \in Ids, NEW from, NEW to \in Calls \ {"fresh"}, NEW t, NEW last \in BOOLEAN,
             Turn(id, from, to), Say(t, id, last),
             t \in {"http-req", "http-post", "http-data", "ws-open", "ws-msg", "ws-close"},
             t = "ws-open" => from = {"fresh"}
      PROVE  IInv'
    <2>1. /\ peer' = peer /\ call' = [call EXCEPT ![id] = to] /\ call[id] \in from
          /\ joined
        BY <1>3 DEF Turn
    <2>2. /\ call' \in [Ids -> Calls] /\ call'[id] # "fresh"
          /\ \A i \in Ids : call'[i] = "fresh" => call[i] = "fresh"
        BY <1>1, <2>1
    <2>3. peer # 0 /\ (joined' => peer' # 0)
        BY <1>3, <2>1 DEF IInv, Typed
    <2>4. [t |-> t, s |-> peer', id |-> id, last |-> last] \in Frame
        BY <1>1, <1>3, <2>1, <2>3 DEF Frame
    <2>5. peer' \in Nat /\ peer <= peer' /\ peer' <= MaxSessions
        BY <1>1, <2>1
    <2> HIDE DEF Calls
    <2>6. t = "ws-open" => peer' = peer /\ id \in Ids /\ call[id] = "fresh"
                            /\ call'[id] # "fresh"
        BY <1>3, <2>1, <2>2
    <2>7. \A i \in Ids : call'[i] = "fresh" => peer' # peer \/ call[i] = "fresh"
        BY <2>2
    <2> QED BY <1>3, <2>2, <2>3, <2>4, <2>5, <2>6, <2>7, SayStep DEF Calls
<1>4. ASSUME NEW id \in Ids,
             \/ Ask(id) \/ Post(id) \/ Open(id) \/ Speak(id) \/ Leave(id)
             \/ \E last \in BOOLEAN : Upload(id, last)
      PROVE  IInv'
    <2>1. CASE Ask(id)
        BY <1>3, <2>1 DEF Ask
    <2>2. CASE Post(id)
        BY <1>3, <2>2 DEF Post
    <2>3. CASE Open(id)
        BY <1>3, <2>3 DEF Open
    <2>4. CASE Speak(id)
        BY <1>3, <2>4 DEF Speak
    <2>5. CASE Leave(id)
        <3>1. PICK from : Turn(id, from, "left")
            BY <2>5 DEF Leave
        <3> QED BY <1>3, <2>5, <3>1 DEF Leave
    <2>6. ASSUME NEW last \in BOOLEAN, Upload(id, last) PROVE IInv'
        <3>1. PICK to \in Calls \ {"fresh"} : Turn(id, {"uploading"}, to)
            BY <2>6 DEF Upload
        <3> QED BY <1>3, <2>6, <3>1 DEF Upload
    <2> QED BY <1>4, <2>1, <2>2, <2>3, <2>4, <2>5, <2>6
<1> QED BY <1>2, <1>4

LEMMA HearStep == ASSUME IInv, Hear PROVE IInv'
<1> DEFINE Calls == {"fresh", "asked", "uploading", "answered", "twice",
                     "opening", "open", "left", "ended"}
           m == Head(down)
<1>1. /\ down # <<>> /\ down' = Tail(down) /\ down \in Seq(Message)
      /\ UNCHANGED <<peer, up, session, bridges, work>>
    BY DEF Hear, IInv, Typed, maps
<1>2. /\ down' \in Seq(Message) /\ m \in Message
      /\ \A i \in DOMAIN down' :
            i \in Nat /\ i + 1 \in DOMAIN down /\ down'[i] = down[i + 1]
    BY <1>1, Removed
<1>3. DownOrdered'
    <2>1. \A i, k \in DOMAIN down' : i < k => i + 1 < k + 1
        BY <1>2
    <2> QED BY <1>1, <1>2, <2>1 DEF IInv, DownOrdered, InOrder, UpTo
<1>4. m.s \in 1..MaxSessions /\ m.id \in Ids \cup {NoId}
    BY <1>2 DEF Message
<1>5. /\ call' \in [Ids -> Calls] /\ (joined' => peer # 0)
      /\ \A i \in Ids : call'[i] = "fresh" => call[i] = "fresh"
    <2>1. call \in [Ids -> Calls] /\ (joined => peer # 0)
        BY DEF IInv, Typed
    <2>2. \A was \in Calls : /\ Learnt(was, m.t) \in Calls
                             /\ Learnt(was, m.t) = "fresh" => was = "fresh"
        BY DEF Learnt
    <2>3. CASE UNCHANGED <<joined, call>>
        BY <2>1, <2>3
    <2>4. CASE m.s = peer /\ UNCHANGED call
        BY <1>4, <2>1, <2>4
    <2>5. CASE m.id # NoId /\ call' = [call EXCEPT ![m.id] = Learnt(@, m.t)] /\ UNCHANGED joined
        <3>1. m.id \in Ids /\ call[m.id] \in Calls
            BY <1>4, <2>1, <2>5
        <3>2. PICK to : to = Learnt(call[m.id], m.t)
            OBVIOUS
        <3>3. to \in Calls /\ (to = "fresh" => call[m.id] = "fresh")
            BY <2>2, <3>1, <3>2
        <3>4. call' = [call EXCEPT ![m.id] = to]
            BY <2>5, <3>2
        <3> QED BY <2>1, <2>5, <3>1, <3>3, <3>4
    <2> QED BY <2>3, <2>4, <2>5 DEF Hear
<1>6. Typed'
    BY <1>1, <1>2, <1>5 DEF IInv, Typed
<1>7. FramesInOrder' /\ BridgesOnce' /\ WorkTyped' /\ OpenIsInMaps'
    BY <1>1 DEF IInv, FramesInOrder, BridgesOnce, WorkTyped, OpenIsInMaps
<1>8. FreshIsUnheard'
    BY <1>1, <1>5 DEF IInv, FreshIsUnheard
<1> QED BY <1>3, <1>6, <1>7, <1>8 DEF IInv

\* Whatever else the Host does with a frame, a job or nothing.
LEMMA HostStep ==
    ASSUME IInv, FewerFrames, UNCHANGED <<peer, joined, call, session>>,
           SameJobs, down' \in Seq(Message), DownOrdered', OpenIsInMaps'
    PROVE  IInv'
<1>1. up' \in Seq(Frame) /\ FramesInOrder'
    BY FewerFramesInOrder DEF IInv
<1>2. BridgesOnce' /\ FreshIsUnheard' /\ WorkTyped'
    BY SameJobsStep
<1>3. Typed'
    BY <1>1 DEF IInv, Typed, SameJobs
<1> QED BY <1>1, <1>2, <1>3 DEF IInv

LEMMA SameWork == ASSUME IInv, UNCHANGED work PROVE SameJobs
BY DEF IInv, Typed, SameJobs, BridgesOnce, WorkTyped, Ws

\* The session ends or another takes its place: its bridges are closed.
LEMMA TornDownJobs ==
    ASSUME IInv, work' = TornDown
    PROVE  SameJobs /\ OpenIsInMaps'
<1> DEFINE P == {j \in work : j.s = session /\ j.id \in bridges}
<1>1. work' = {IF j \in P THEN Closed(j) ELSE j : j \in work}
    BY DEF TornDown
<1>2. SameJobs
    <2> HIDE DEF P
    <2> QED BY <1>1, ClosedJobs
<1>3. \A j \in Job : Closed(j).at \notin {"connecting", "open"}
    BY DEF Job, Closed
<1>4. \A j \in work' : j.at \notin {"connecting", "open"}
    BY <1>1, <1>3 DEF IInv, Typed, OpenIsInMaps
<1> QED BY <1>2, <1>4 DEF OpenIsInMaps

LEMMA CloseStep == ASSUME IInv, Close PROVE IInv'
<1>1. /\ up' = <<>> /\ down' = <<>> /\ session' = 0 /\ work' = TornDown
      /\ UNCHANGED <<peer, joined, call>>
    BY DEF Close, phone
<1>2. SameJobs /\ OpenIsInMaps'
    BY <1>1, TornDownJobs
<1>3. FewerFrames
    BY <1>1 DEF FewerFrames
<1>4. BridgesOnce' /\ FreshIsUnheard' /\ WorkTyped'
    BY <1>1, <1>2, <1>3, SameJobsStep
<1>5. Typed'
    BY <1>1, <1>2, Bounds DEF IInv, Typed, SameJobs
<1>6. DownOrdered' /\ FramesInOrder'
    BY <1>1 DEF DownOrdered, InOrder, UpTo, FramesInOrder
<1> QED BY <1>2, <1>4, <1>5, <1>6 DEF IInv

-----------------------------------------------------------------------------
\* The next frame.

\* What the Host says to a hello.
LEMMA HelloMessage ==
    ASSUME NEW s \in 1..MaxSessions, NEW t \in {"ack", "error"}
    PROVE  /\ Messages(s, NoId, <<t>>) \in Seq(Message)
           /\ \A i \in DOMAIN Messages(s, NoId, <<t>>) :
                 Messages(s, NoId, <<t>>)[i].s = s /\ Messages(s, NoId, <<t>>)[i].t = t
<1>1. PICK e : e = [t |-> t, s |-> s, id |-> NoId]
    OBVIOUS
<1>2. e \in Message /\ e.s = s /\ e.t = t
    BY <1>1 DEF Message
<1>3. Messages(s, NoId, <<t>>) = [i \in 1..1 |-> e]
    BY <1>1 DEF Messages
<1>4. [i \in 1..1 |-> e] \in Seq(Message)
    BY <1>2
<1> QED BY <1>2, <1>3, <1>4

LEMMA HelloAnswered ==
    ASSUME IInv, NEW s \in 1..MaxSessions, NEW t \in {"ack", "error"},
           NEW n \in Nat, session \in Nat, session <= n, t = "ack" => s = n,
           down' = down \o Messages(s, NoId, <<t>>)
    PROVE  down' \in Seq(Message) /\ InOrder(down') /\ UpTo(down', n)
<1>1. PICK m : m = Messages(s, NoId, <<t>>)
    OBVIOUS
<1>2. m \in Seq(Message) /\ \A i \in DOMAIN m : m[i].s = s /\ m[i].t = t
    BY <1>1, HelloMessage
<1>3. \A i \in DOMAIN m : m[i].t # "error" => m[i].s = n
    BY <1>2
<1>4. down \in Seq(Message) /\ InOrder(down) /\ UpTo(down, session) /\ down' = down \o m
    BY <1>1 DEF IInv, Typed, DownOrdered
<1> QED BY <1>2, <1>3, <1>4, Concatenated

LEMMA HelloStep ==
    ASSUME IInv, NEW f, up # <<>>, f = Head(up), up' = Tail(up),
           UNCHANGED <<peer, joined, call>>, AdoptSession(f)
    PROVE  IInv'
<1>1. /\ up' \in Seq(Frame) /\ f \in Frame /\ f = up[1] /\ 1 \in DOMAIN up
      /\ \A i \in DOMAIN up' : i \in Nat /\ i + 1 \in DOMAIN up /\ up'[i] = up[i + 1]
    BY Removed DEF IInv, Typed
<1>2. f.s \in 1..MaxSessions /\ f.s \in Nat
    BY <1>1 DEF Frame
<1>3. session \in Nat /\ session <= f.s /\ f.s <= peer /\ session' = f.s
    BY <1>1, Bounds DEF IInv, Typed, FramesInOrder, AdoptSession
<1>4. SameJobs /\ OpenIsInMaps'
    BY TornDownJobs DEF AdoptSession
<1>5. FewerFrames
    BY DEF FewerFrames
<1>6. BridgesOnce' /\ FreshIsUnheard' /\ WorkTyped'
    BY <1>4, <1>5, SameJobsStep
<1>7. down' \in Seq(Message) /\ DownOrdered'
    <2>1. PICK s \in 1..MaxSessions : s = f.s
        BY <1>2
    <2>2. down' = down \o Messages(s, NoId, <<"ack">>) /\ session' = s /\ s \in Nat
        BY <1>2, <2>1 DEF AdoptSession
    <2>3. session <= s
        BY <1>3, <2>1
    <2>4. down' \in Seq(Message) /\ InOrder(down') /\ UpTo(down', s)
        BY <1>3, <2>2, <2>3, HelloAnswered
    <2> QED BY <2>2, <2>4 DEF DownOrdered
<1>8. FramesInOrder'
    <2>1. \A i \in DOMAIN up' : 1 <= i + 1 /\ 1 < i + 1
        BY <1>1, Removed DEF IInv, Typed
    <2>2. \A i, k \in DOMAIN up' : i < k => i + 1 < k + 1
        BY <1>1
    <2> QED BY <1>1, <1>3, <2>1, <2>2 DEF IInv, FramesInOrder
<1>9. Typed'
    BY <1>1, <1>2, <1>3, <1>4, <1>7 DEF IInv, Typed, SameJobs
<1> QED BY <1>4, <1>6, <1>7, <1>8, <1>9 DEF IInv

LEMMA ForwardJobs ==
    ASSUME IInv, session # 0, NEW id \in Ids, Forward(id)
    PROVE  SameJobs /\ (UNCHANGED <<bridges, session>> => OpenIsInMaps')
<1>1. PICK n : n = [s |-> session, id |-> id, kind |-> "http", at |-> "cookie"]
    OBVIOUS
<1>2. session \in 1..MaxSessions /\ session <= peer
    BY Bounds DEF IInv, Typed
<1>3. n \in Job /\ n.kind = "http" /\ n.at = "cookie" /\ n.s = session
    BY <1>1, <1>2 DEF Job
<1>4. work' = work \cup {n}
    BY <1>1 DEF Forward
<1>5. SameJobs
    BY <1>2, <1>3, <1>4 DEF SameJobs, IInv, Typed, BridgesOnce, WorkTyped, Ws
<1>6. UNCHANGED <<bridges, session>> => OpenIsInMaps'
    BY <1>3, <1>4 DEF IInv, OpenIsInMaps
<1> QED BY <1>5, <1>6

\* A bridge is asked for: its frame becomes its job.
LEMMA WsOpenStep ==
    ASSUME IInv, NEW f, up # <<>>, f = Head(up), up' = Tail(up), f.s = session,
           UNCHANGED <<peer, joined, call, session, bridges, down>>,
           f.t = "ws-open",
           work' = work \cup {[s |-> session, id |-> f.id, kind |-> "ws", at |-> "cookie"]},
           f.id \in Ids
    PROVE  IInv'
<1>1. /\ up' \in Seq(Frame) /\ f \in Frame /\ f = up[1] /\ 1 \in DOMAIN up
      /\ \A i \in DOMAIN up' : /\ i \in Nat /\ i + 1 \in DOMAIN up /\ i + 1 # 1
                              /\ up'[i] = up[i + 1]
    BY Removed DEF IInv, Typed
<1>2. PICK n : n = [s |-> session, id |-> f.id, kind |-> "ws", at |-> "cookie"]
    OBVIOUS
<1>3. session \in 1..MaxSessions /\ session <= peer
    BY <1>1, Bounds DEF IInv, Typed, Frame
<1>4. /\ n \in Job /\ n.kind = "ws" /\ n.at = "cookie" /\ n.s = session /\ n.id = f.id
      /\ work' = work \cup {n}
    BY <1>2, <1>3 DEF Job
<1>5. FewerFrames
    BY DEF FewerFrames
<1>6. FramesInOrder'
    BY <1>5, FewerFramesInOrder DEF IInv
<1>7. Typed' /\ DownOrdered' /\ WorkTyped' /\ OpenIsInMaps'
    BY <1>1, <1>3, <1>4 DEF IInv, Typed, DownOrdered, WorkTyped, OpenIsInMaps
<1>8. OpenFrame(up[1], n.s, n.id)
    BY <1>1, <1>4 DEF OpenFrame
<1>9. BridgesOnce'
    <2>1. \A j \in work : ~Ws(j, n.s, n.id)
        BY <1>1, <1>4 DEF IInv, BridgesOnce
    <2>2. \A j, k \in work' : j.kind = "ws" /\ Ws(k, j.s, j.id) => j = k
        BY <1>4, <2>1 DEF IInv, BridgesOnce, Ws
    <2>3. \A i \in DOMAIN up' : up'[i].t = "ws-open" => ~Ws(n, up'[i].s, up'[i].id)
        <3> SUFFICES ASSUME NEW i \in DOMAIN up', up'[i].t = "ws-open",
                            Ws(n, up'[i].s, up'[i].id)
                     PROVE  FALSE
            OBVIOUS
        <3>1. OpenFrame(up[i + 1], up[1].s, up[1].id) /\ up[1].t = "ws-open"
            BY <1>1, <1>4 DEF OpenFrame, Ws
        <3> QED BY <1>1, <3>1 DEF IInv, BridgesOnce
    <2>4. \A i \in DOMAIN up', j \in work' :
             up'[i].t = "ws-open" => ~Ws(j, up'[i].s, up'[i].id)
        BY <1>1, <1>4, <2>3 DEF IInv, BridgesOnce
    <2>5. \A i, k \in DOMAIN up' :
             up'[i].t = "ws-open" /\ OpenFrame(up'[k], up'[i].s, up'[i].id) => i = k
        <3> SUFFICES ASSUME NEW i \in DOMAIN up', NEW k \in DOMAIN up',
                            up'[i].t = "ws-open",
                            OpenFrame(up'[k], up'[i].s, up'[i].id)
                     PROVE  i = k
            OBVIOUS
        <3>1. i + 1 = k + 1
            BY <1>1 DEF IInv, BridgesOnce
        <3> QED BY <1>1, <3>1
    <2> QED BY <2>2, <2>4, <2>5 DEF BridgesOnce
<1>10. FreshIsUnheard'
    <2> SUFFICES ASSUME NEW id \in Ids, call[id] = "fresh"
                 PROVE  /\ \A i \in DOMAIN up' : ~OpenFrame(up'[i], peer, id)
                        /\ \A j \in work' : ~Ws(j, peer, id)
        BY DEF FreshIsUnheard
    <2>1. ~Ws(n, peer, id)
        BY <1>1, <1>4, <1>8 DEF IInv, FreshIsUnheard, Ws, OpenFrame
    <2> QED BY <1>1, <1>4, <2>1 DEF IInv, FreshIsUnheard
<1> QED BY <1>6, <1>7, <1>9, <1>10 DEF IInv

\* Nobody takes up or ends a bridge: what the Host does with most frames.
LEMMA QuietStep ==
    ASSUME IInv, FewerFrames, UNCHANGED <<peer, joined, call, session, work, bridges>>,
           down' \in Seq(Message), DownOrdered'
    PROVE  IInv'
<1>1. SameJobs
    BY SameWork
<1>2. OpenIsInMaps'
    BY DEF IInv, OpenIsInMaps
<1> QED BY <1>1, <1>2, HostStep

LEMMA SaidOnce ==
    ASSUME IInv, session' = session, NEW s \in 1..MaxSessions, NEW id \in Ids,
           NEW t \in MessageNames, Send(s, id, <<t>>)
    PROVE  down' \in Seq(Message) /\ DownOrdered'
<1>1. <<t>> \in Seq(MessageNames) /\ id \in Ids \cup {NoId}
    OBVIOUS
<1> QED BY <1>1, SendStep DEF IInv

LEMMA SaidTwice ==
    ASSUME IInv, session' = session, NEW s \in 1..MaxSessions, NEW id \in Ids,
           NEW t \in MessageNames, NEW u \in MessageNames, Send(s, id, <<t, u>>)
    PROVE  down' \in Seq(Message) /\ DownOrdered'
<1>1. <<t, u>> \in Seq(MessageNames) /\ id \in Ids \cup {NoId}
    OBVIOUS
<1> QED BY <1>1, SendStep DEF IInv

LEMMA FrameStep == ASSUME IInv, OnFrame PROVE IInv'
<1>1. PICK f : f = Head(up)
    OBVIOUS
<1>2. /\ up # <<>> /\ up' = Tail(up) /\ UNCHANGED <<peer, joined, call>>
      /\ \/ AdoptSession(f) \/ RejectHello(f)
         \/ /\ f.s = session
            /\ \/ HttpReq(f) \/ HttpData(f) \/ WsOpen(f) \/ RefusePath(f)
               \/ WsMsg(f) \/ WsClose(f)
    BY <1>1 DEF OnFrame, phone
<1>3. FewerFrames
    BY <1>2 DEF FewerFrames
<1>4. f \in Frame /\ f = up[1] /\ 1 \in DOMAIN up
    BY <1>1, <1>2, Removed DEF IInv, Typed
<1>5. f.s \in 1..MaxSessions /\ (f.t # Hello => f.id \in Ids)
    BY <1>4 DEF Frame, IInv, FramesInOrder
<1>6. session \in Nat /\ down \in Seq(Message) /\ DownOrdered
    BY Bounds DEF IInv, Typed
<1>7. ASSUME UNCHANGED <<down, session, work, bridges>> PROVE IInv'
    <2>1. down' \in Seq(Message) /\ DownOrdered'
        BY <1>6, <1>7 DEF DownOrdered
    <2> QED BY <1>2, <1>3, <1>7, <2>1, QuietStep
<1>8. ASSUME CloseTransport PROVE IInv'
    BY <1>7, <1>8 DEF CloseTransport, maps
<1>9. CASE AdoptSession(f)
    BY <1>1, <1>2, <1>9, HelloStep
<1>10. CASE RejectHello(f)
    <2>1. PICK s \in 1..MaxSessions : s = f.s
        BY <1>5
    <2>2. down' = down \o Messages(s, NoId, <<"error">>) /\ UNCHANGED <<session, work, bridges>>
        BY <1>10, <2>1 DEF RejectHello, maps
    <2>3. down' \in Seq(Message) /\ InOrder(down') /\ UpTo(down', session)
        <3>1. session <= session /\ "error" \in {"ack", "error"} /\ "error" # "ack"
            BY <1>6
        <3> QED BY <1>6, <2>2, <3>1, HelloAnswered
    <2>4. DownOrdered'
        BY <2>2, <2>3 DEF DownOrdered
    <2> QED BY <1>2, <1>3, <2>2, <2>3, <2>4, QuietStep
<1>11. ASSUME f.s = session, NEW id \in Ids, Forward(id), UNCHANGED <<down, session, bridges>>
       PROVE  IInv'
    <2>1. session # 0
        BY <1>5, <1>11
    <2>2. SameJobs /\ OpenIsInMaps'
        BY <1>11, <2>1, ForwardJobs
    <2>3. down' \in Seq(Message) /\ DownOrdered'
        BY <1>6, <1>11 DEF DownOrdered
    <2> QED BY <1>2, <1>3, <1>11, <2>2, <2>3, HostStep
<1>12. ASSUME f.s = session, NEW id \in Ids, NEW t \in MessageNames, Send(session, id, <<t>>),
              UNCHANGED <<session, work, bridges>>
       PROVE  IInv'
    <2>1. session \in 1..MaxSessions
        BY <1>5, <1>12
    <2>2. down' \in Seq(Message) /\ DownOrdered'
        BY <1>12, <2>1, SaidOnce
    <2> QED BY <1>2, <1>3, <1>12, <2>2, QuietStep
<1>13. CASE f.s = session /\ HttpReq(f)
    <2>1. f.id \in Ids
        BY <1>5, <1>13 DEF HttpReq, Hello
    <2>2. \/ CloseTransport
          \/ Forward(f.id) /\ UNCHANGED <<down, session, bridges>>
          \/ UNCHANGED <<down, session, work, bridges>>
        BY <1>13 DEF HttpReq
    <2> QED BY <1>7, <1>8, <1>11, <1>13, <2>1, <2>2
<1>14. CASE f.s = session /\ HttpData(f)
    <2>1. f.id \in Ids
        BY <1>5, <1>14 DEF HttpData, Hello
    <2>2. \/ CloseTransport
          \/ Forward(f.id) /\ UNCHANGED <<down, session, bridges>>
          \/ UNCHANGED <<down, session, work, bridges>>
          \/ Send(session, f.id, <<"http-res">>) /\ UNCHANGED <<session, work, bridges>>
        BY <1>14 DEF HttpData
    <2>3. "http-res" \in MessageNames
        BY DEF MessageNames
    <2> QED BY <1>7, <1>8, <1>11, <1>12, <1>14, <2>1, <2>2, <2>3
<1>15. CASE f.s = session /\ WsOpen(f)
    <2>1. CASE CloseTransport
        BY <1>8, <2>1
    <2>2. CASE ~CloseTransport
        <3>1. f.id \in Ids /\ f.t = "ws-open"
            BY <1>5, <1>15 DEF WsOpen, Hello
        <3>2. /\ work' = work \cup {[s |-> session, id |-> f.id, kind |-> "ws", at |-> "cookie"]}
              /\ UNCHANGED <<session, bridges, down>>
            BY <1>15, <2>2 DEF WsOpen, maps
        <3> QED BY <1>1, <1>2, <1>15, <3>1, <3>2, WsOpenStep
    <2> QED BY <2>1, <2>2
<1>16. CASE f.s = session /\ RefusePath(f)
    <2>1. f.id \in Ids
        BY <1>5, <1>16, SessionAssumption DEF RefusePath, Hello
    <2>2. /\ \/ Send(session, f.id, <<"ws-err">>)
             \/ Send(session, f.id, <<"http-res">>)
          /\ UNCHANGED <<session, work, bridges>>
        BY <1>16 DEF RefusePath
    <2>3. {"ws-err", "http-res"} \subseteq MessageNames
        BY DEF MessageNames
    <2> QED BY <1>12, <1>16, <2>1, <2>2, <2>3
<1>17. CASE f.s = session /\ WsMsg(f)
    BY <1>7, <1>8, <1>17 DEF WsMsg, maps
<1>18. CASE f.s = session /\ WsClose(f)
    <2>1. CASE CloseTransport
        BY <1>8, <2>1
    <2>2. CASE UNCHANGED <<down, session, work, maps>>
        BY <1>7, <2>2 DEF maps
    <2>3. CASE /\ bridges' = bridges \ {f.id} /\ UNCHANGED <<down, session>>
               /\ work' = {IF j.s = session /\ j.id = f.id THEN Closed(j) ELSE j : j \in work}
        <3> DEFINE P == {j \in work : j.s = session /\ j.id = f.id}
        <3>1. work' = {IF j \in P THEN Closed(j) ELSE j : j \in work}
            BY <2>3
        <3>2. SameJobs
            <4> HIDE DEF P
            <4> QED BY <3>1, ClosedJobs
        <3>3. \A j \in Job : Closed(j).at \notin {"connecting", "open"}
            BY DEF Job, Closed
        <3>4. OpenIsInMaps'
            BY <2>3, <3>1, <3>3 DEF IInv, Typed, OpenIsInMaps
        <3>5. down' \in Seq(Message) /\ DownOrdered'
            BY <1>6, <2>3 DEF DownOrdered
        <3> QED BY <1>2, <1>3, <2>3, <3>2, <3>4, <3>5, HostStep
    <2> QED BY <1>18, <2>1, <2>2, <2>3 DEF WsClose
<1> QED BY <1>2, <1>9, <1>10, <1>13, <1>14, <1>15, <1>16, <1>17, <1>18

-----------------------------------------------------------------------------
\* Upstream.
LEMMA UpstreamStep == ASSUME IInv, NEW j \in work, Upstream(j) PROVE IInv'
<1>1. /\ UNCHANGED <<peer, joined, call, up, session>>
      /\ \/ Cookie(j) \/ Begin(j) \/ Respond(j) \/ Connected(j) \/ Failed(j)
         \/ Ended(j) \/ Said(j) \/ Reset(j)
    BY DEF Upstream, phone
<1>2. FewerFrames
    BY <1>1 DEF FewerFrames
<1>3. /\ j \in Job /\ work \subseteq Job /\ j.s \in 1..MaxSessions /\ j.id \in Ids
      /\ j.kind \in {"http", "ws"}
    BY DEF IInv, Typed, Job
<1>4. down \in Seq(Message) /\ DownOrdered
    BY DEF IInv, Typed
<1>5. UNCHANGED down => down' \in Seq(Message) /\ DownOrdered'
    BY <1>1, <1>4 DEF DownOrdered
<1>6. \A t, u \in MessageNames :
          Send(j.s, j.id, <<t>>) \/ Send(j.s, j.id, <<t, u>>) =>
              down' \in Seq(Message) /\ DownOrdered'
    <2>1. PICK s \in 1..MaxSessions, id \in Ids : s = j.s /\ id = j.id
        BY <1>3
    <2>2. \A t, u \in MessageNames :
              Send(s, id, <<t>>) \/ Send(s, id, <<t, u>>) =>
                  down' \in Seq(Message) /\ DownOrdered'
        BY <1>1, SaidOnce, SaidTwice
    <2> QED BY <2>1, <2>2
<1>7. {"http-res", "ws-ack", "ws-err", "ws-msg", "ws-close"} \subseteq MessageNames
    BY DEF MessageNames
<1>8. /\ \A at : [j EXCEPT !.at = at].s = j.s /\ [j EXCEPT !.at = at].id = j.id
                 /\ [j EXCEPT !.at = at].kind = j.kind /\ [j EXCEPT !.at = at].at = at
      /\ \A at \in {"asked", "begun", "connecting", "open"} : [j EXCEPT !.at = at] \in Job
    BY <1>3 DEF Job
<1>9. ASSUME Done(j), bridges \ {j.id} \subseteq bridges' \/ bridges' = bridges,
             bridges' # bridges => j.kind = "ws" /\ j.s = session,
             down' \in Seq(Message), DownOrdered'
      PROVE  IInv'
    <2>1. SameJobs
        BY <1>9, JobGoesOn
    <2>2. ASSUME NEW k \in work', k.at \in {"connecting", "open"}
          PROVE  k.s = session /\ k.id \in bridges'
        <3>1. k \in work /\ k # j /\ k.kind = "ws" /\ k.s = session /\ k.id \in bridges
            BY <1>9, <2>2 DEF Done, IInv, OpenIsInMaps, WorkTyped
        <3>2. CASE bridges' = bridges
            BY <3>1, <3>2
        <3>3. CASE j.kind = "ws" /\ j.s = session
            <4>1. k.id # j.id
                BY <3>1, <3>3 DEF IInv, BridgesOnce, Ws
            <4> QED BY <1>9, <3>1, <4>1
        <3> QED BY <1>9, <3>1, <3>2, <3>3
    <2>3. OpenIsInMaps'
        BY <1>1, <2>2 DEF OpenIsInMaps
    <2> QED BY <1>1, <1>2, <1>9, <2>1, <2>3, HostStep
<1>10. ASSUME NEW at \in {"asked", "begun", "connecting", "open"}, Become(j, at),
              at \in {"connecting", "open"} => j.kind = "ws" /\ j.s = session /\ j.id \in bridges',
              bridges \subseteq bridges',
              down' \in Seq(Message), DownOrdered'
       PROVE  IInv'
    <2>1. SameJobs
        BY <1>8, <1>10, JobGoesOn
    <2>2. PICK n : n = [j EXCEPT !.at = at]
        OBVIOUS
    <2>3. work' = (work \ {j}) \cup {n} /\ n.s = j.s /\ n.id = j.id /\ n.at = at
        BY <1>8, <1>10, <2>2 DEF Become
    <2>4. OpenIsInMaps'
        BY <1>1, <1>10, <2>3 DEF IInv, OpenIsInMaps
    <2> QED BY <1>1, <1>2, <1>10, <2>1, <2>4, HostStep
<1>11. CASE Cookie(j)
    <2>1. UNCHANGED down
        BY <1>11 DEF Cookie
    <2>2. CASE Done(j) /\ UNCHANGED bridges
        BY <1>5, <1>9, <2>1, <2>2
    <2>3. CASE Become(j, "asked") /\ UNCHANGED bridges
        BY <1>5, <1>10, <2>1, <2>3
    <2>4. CASE /\ j.s = session /\ j.kind = "ws" /\ Become(j, "connecting")
               /\ bridges' = bridges \cup {j.id}
        BY <1>5, <1>10, <2>1, <2>4
    <2> QED BY <1>3, <1>11, <2>2, <2>3, <2>4 DEF Cookie
<1>12. CASE Begin(j)
    BY <1>5, <1>10, <1>12 DEF Begin, maps
<1>13. CASE Respond(j)
    <2>1. down' \in Seq(Message) /\ DownOrdered'
        BY <1>6, <1>7, <1>13 DEF Respond
    <2> QED BY <1>9, <1>13, <2>1 DEF Respond, maps
<1>14. CASE Reset(j)
    <2>1. down' \in Seq(Message) /\ DownOrdered'
        BY <1>6, <1>7, <1>14 DEF Reset
    <2> QED BY <1>9, <1>14, <2>1 DEF Reset, maps
<1>15. CASE Connected(j)
    <2>1. down' \in Seq(Message) /\ DownOrdered'
        BY <1>6, <1>7, <1>15 DEF Connected
    <2>2. j.kind = "ws" /\ j.s = session /\ j.id \in bridges /\ bridges' = bridges
        BY <1>15 DEF Connected, IInv, WorkTyped, OpenIsInMaps, maps
    <2> QED BY <1>10, <1>15, <2>1, <2>2 DEF Connected
<1>16. ASSUME NEW ts, Gone(j, ts), j.kind = "ws", down' \in Seq(Message), DownOrdered'
       PROVE  IInv'
    <2>1. /\ Done(j)
          /\ \/ j.s = session /\ bridges' = bridges \ {j.id}
             \/ bridges' = bridges
        BY <1>16 DEF Gone
    <2> QED BY <1>9, <1>16, <2>1
<1>17. CASE Failed(j)
    <2>1. down' \in Seq(Message) /\ DownOrdered'
        BY <1>6, <1>7, <1>17 DEF Failed, Gone
    <2>2. j.kind = "ws"
        BY <1>17 DEF Failed, IInv, WorkTyped
    <2> QED BY <1>16, <1>17, <2>1, <2>2 DEF Failed
<1>18. CASE Ended(j)
    <2>1. down' \in Seq(Message) /\ DownOrdered'
        BY <1>6, <1>7, <1>18 DEF Ended, Gone
    <2>2. j.kind = "ws"
        BY <1>18 DEF Ended, IInv, WorkTyped
    <2> QED BY <1>16, <1>18, <2>1, <2>2 DEF Ended
<1>19. CASE Said(j)
    <2>1. down' \in Seq(Message) /\ DownOrdered'
        BY <1>6, <1>7, <1>19 DEF Said
    <2> QED BY <1>1, <1>2, <1>19, <2>1, QuietStep DEF Said, maps
<1> QED BY <1>1, <1>11, <1>12, <1>13, <1>14, <1>15, <1>17, <1>18, <1>19

-----------------------------------------------------------------------------
LEMMA SessionNext == IInv /\ [Next]_vars => IInv'
<1> SUFFICES ASSUME IInv, [Next]_vars PROVE IInv'
    OBVIOUS
<1>1. CASE UNCHANGED vars
    BY <1>1 DEF vars, phone, maps, IInv, Typed, DownOrdered, FramesInOrder, BridgesOnce,
           FreshIsUnheard, WorkTyped, OpenIsInMaps
<1>2. CASE Hear
    BY <1>2, HearStep
<1>3. CASE OnFrame
    BY <1>3, FrameStep
<1>4. CASE \E j \in work : Upstream(j)
    BY <1>4, UpstreamStep
<1>5. CASE Close
    BY <1>5, CloseStep
<1> QED BY <1>1, <1>2, <1>3, <1>4, <1>5, PhoneStep DEF Next

\* No frame of a session reaches the phone after one of a later session, and
\* every WebSocket to the DSH server that connects or is open is one that the
\* session in force will close: for any number of ids, hellos and frames under
\* way, whatever the DSH server is late with (tunnel-server.ts, the closures
\* over state in startHostSession, and teardown).
THEOREM SessionsStayApart == Spec => []SessionsApart
<1>1. IInv => SessionsApart
    BY DEF IInv, DownOrdered, InOrder, OpenIsInMaps, SessionsApart
<1> QED BY <1>1, SessionInit, SessionNext, PTL DEF Spec

-----------------------------------------------------------------------------
(***************************************************************************)
(* AnsweredOnce.  What is owed an answer is, at any time, one thing: the    *)
(* frame that asks, under way; an upload in the maps; a job; the answer, on *)
(* its way; or the answer heard.  It passes from each of these to a later   *)
(* one.  Which session a thing is of matters: an old job answers nobody.    *)
(***************************************************************************)
Asks(f, s, id) == f.t \in {"http-req", "http-post"} /\ f.s = s /\ f.id = id
Forwards(j, s, id) == j.kind = "http" /\ j.s = s /\ j.id = id
Answers(m, s, id) == m.t = "http-res" /\ m.s = s /\ m.id = id

Asked(q, s, id) == \E i \in DOMAIN q : Asks(q[i], s, id)
Forwarded(w, s, id) == \E j \in w : Forwards(j, s, id)
Answered(q, s, id) == \E i \in DOMAIN q : Answers(q[i], s, id)
Uploading(n, r, s, id) == s = n /\ id \in DOMAIN r
Heard(s, id) == s = peer /\ call[id] \in {"answered", "twice"}

\* It is asked for, forwarded and answered at most once.
OneAsks(q, s, id) ==
    \A i, k \in DOMAIN q : Asks(q[i], s, id) /\ Asks(q[k], s, id) => i = k
OneForwards(w, s, id) ==
    \A j, k \in w : Forwards(j, s, id) /\ Forwards(k, s, id) => j = k
OneAnswers(q, s, id) ==
    \A i, k \in DOMAIN q : Answers(q[i], s, id) /\ Answers(q[k], s, id) => i = k

WasReset(s, id) == [s |-> s, id |-> id] \in resets

InOnePlace(s, id) ==
    /\ OneAsks(up, s, id) /\ OneForwards(work, s, id)
    /\ Asked(up, s, id) =>
          ~Uploading(session, requests, s, id) /\ ~Forwarded(work, s, id)
    /\ Uploading(session, requests, s, id) => ~Forwarded(work, s, id)
    /\ \/ Asked(up, s, id) \/ Uploading(session, requests, s, id)
       \/ Forwarded(work, s, id)
       => ~Answered(down, s, id) /\ ~Heard(s, id)
    /\ ~WasReset(s, id) =>
          /\ OneAnswers(down, s, id)
          /\ Answered(down, s, id) => ~Heard(s, id)
          /\ s = peer => call[id] # "twice"
    /\ s = peer /\ call[id] = "fresh" =>
          /\ ~Asked(up, s, id) /\ ~Uploading(session, requests, s, id)
          /\ ~Forwarded(work, s, id) /\ ~Answered(down, s, id)

OwedOnce == \A s \in 1..MaxSessions, id \in Ids : InOnePlace(s, id)

\* Only a request is asked of DSH and has a response.
AskedIsHttp == \A j \in work : j.at \in {"asked", "begun"} => j.kind = "http"

-----------------------------------------------------------------------------
\* What the steps do to the five places.
LEMMA FrameTaken ==
    ASSUME NEW q \in Seq(Frame), q # <<>>, NEW s, NEW id, OneAsks(q, s, id)
    PROVE  /\ OneAsks(Tail(q), s, id)
           /\ Asked(Tail(q), s, id) => Asked(q, s, id) /\ ~Asks(Head(q), s, id)
           /\ Asks(Head(q), s, id) => Asked(q, s, id)
<1>1. /\ Head(q) = q[1] /\ 1 \in DOMAIN q
      /\ \A i \in DOMAIN Tail(q) : /\ i \in Nat /\ i + 1 \in DOMAIN q /\ i + 1 # 1
                                   /\ Tail(q)[i] = q[i + 1]
  BY Removed
<1>2. ASSUME NEW i \in DOMAIN Tail(q), NEW k \in DOMAIN Tail(q),
             Asks(Tail(q)[i], s, id), Asks(Tail(q)[k], s, id)
      PROVE  i = k
  <2>1. Asks(q[i + 1], s, id) /\ Asks(q[k + 1], s, id)
    BY <1>1, <1>2
  <2>2. i + 1 = k + 1
    BY <1>1, <2>1 DEF OneAsks
  <2> QED BY <1>1, <2>2
<1>3. ASSUME NEW i \in DOMAIN Tail(q), Asks(Tail(q)[i], s, id)
      PROVE  Asked(q, s, id) /\ ~Asks(Head(q), s, id)
  <2>1. Asks(q[i + 1], s, id)
    BY <1>1, <1>3
  <2> QED BY <1>1, <2>1 DEF Asked, OneAsks
<1> QED BY <1>1, <1>2, <1>3 DEF Asked, OneAsks

LEMMA FrameAdded ==
    ASSUME NEW q \in Seq(Frame), NEW f \in Frame, NEW s, NEW id, OneAsks(q, s, id),
           Asks(f, s, id) => ~Asked(q, s, id)
    PROVE  /\ OneAsks(Append(q, f), s, id)
           /\ Asked(Append(q, f), s, id) => Asked(q, s, id) \/ Asks(f, s, id)
<1>1. /\ DOMAIN q = 1..Len(q) /\ Len(q) \in Nat
      /\ DOMAIN Append(q, f) = 1..(Len(q) + 1)
      /\ \A i \in 1..Len(q) : Append(q, f)[i] = q[i]
      /\ Append(q, f)[Len(q) + 1] = f
  BY Appended
<1>2. \A i \in DOMAIN Append(q, f) :
         \/ i \in DOMAIN q /\ Append(q, f)[i] = q[i]
         \/ i = Len(q) + 1 /\ Append(q, f)[i] = f
  BY <1>1
<1> QED BY <1>2 DEF Asked, OneAsks

LEMMA MessageTaken ==
    ASSUME NEW q \in Seq(Message), q # <<>>, NEW s, NEW id
    PROVE  /\ OneAnswers(q, s, id) => OneAnswers(Tail(q), s, id)
           /\ Answered(Tail(q), s, id) => Answered(q, s, id)
           /\ Answers(Head(q), s, id) => Answered(q, s, id)
           /\ OneAnswers(q, s, id) /\ Answers(Head(q), s, id) => ~Answered(Tail(q), s, id)
<1>1. /\ Head(q) = q[1] /\ 1 \in DOMAIN q
      /\ \A i \in DOMAIN Tail(q) : /\ i \in Nat /\ i + 1 \in DOMAIN q /\ i + 1 # 1
                                   /\ Tail(q)[i] = q[i + 1]
  BY Removed
<1>2. ASSUME OneAnswers(q, s, id), NEW i \in DOMAIN Tail(q), NEW k \in DOMAIN Tail(q),
             Answers(Tail(q)[i], s, id), Answers(Tail(q)[k], s, id)
      PROVE  i = k
  <2>1. Answers(q[i + 1], s, id) /\ Answers(q[k + 1], s, id)
    BY <1>1, <1>2
  <2>2. i + 1 = k + 1
    BY <1>1, <1>2, <2>1 DEF OneAnswers
  <2> QED BY <1>1, <2>2
<1>3. ASSUME NEW i \in DOMAIN Tail(q), Answers(Tail(q)[i], s, id)
      PROVE  Answered(q, s, id)
             /\ (OneAnswers(q, s, id) => ~Answers(Head(q), s, id))
  <2>1. Answers(q[i + 1], s, id)
    BY <1>1, <1>3
  <2> QED BY <1>1, <2>1 DEF Answered, OneAnswers
<1> QED BY <1>1, <1>2, <1>3 DEF Answered, OneAnswers

LEMMA MessagesAdded ==
    ASSUME NEW q \in Seq(Message), NEW m \in Seq(Message), NEW s, NEW id
    PROVE  /\ Answered(q \o m, s, id) => Answered(q, s, id) \/ Answered(m, s, id)
           /\ /\ OneAnswers(q, s, id) /\ OneAnswers(m, s, id)
              /\ ~Answered(q, s, id) \/ ~Answered(m, s, id)
              => OneAnswers(q \o m, s, id)
<1>1. /\ DOMAIN q = 1..Len(q) /\ DOMAIN m = 1..Len(m)
      /\ Len(q) \in Nat /\ Len(m) \in Nat
      /\ DOMAIN (q \o m) = 1..(Len(q) + Len(m))
      /\ \A i \in 1..(Len(q) + Len(m)) :
            (q \o m)[i] = IF i <= Len(q) THEN q[i] ELSE m[i - Len(q)]
  OBVIOUS
<1>2. \A i \in DOMAIN (q \o m) :
         \/ i \in DOMAIN q /\ (q \o m)[i] = q[i]
         \/ i \in Nat /\ i - Len(q) \in DOMAIN m /\ (q \o m)[i] = m[i - Len(q)]
  BY <1>1
<1>3. ASSUME OneAnswers(q, s, id), OneAnswers(m, s, id),
             ~Answered(q, s, id) \/ ~Answered(m, s, id),
             NEW i \in DOMAIN (q \o m), NEW k \in DOMAIN (q \o m),
             Answers((q \o m)[i], s, id), Answers((q \o m)[k], s, id)
      PROVE  i = k
  <2>1. CASE i \in DOMAIN q /\ (q \o m)[i] = q[i]
    <3>1. Answered(q, s, id)
      BY <1>3, <2>1 DEF Answered
    <3>2. k \in DOMAIN q /\ (q \o m)[k] = q[k]
      BY <1>2, <1>3, <3>1 DEF Answered
    <3> QED BY <1>3, <2>1, <3>2 DEF OneAnswers
  <2>2. CASE i \in Nat /\ i - Len(q) \in DOMAIN m /\ (q \o m)[i] = m[i - Len(q)]
    <3>1. Answered(m, s, id)
      BY <1>3, <2>2 DEF Answered
    <3>2. k \in Nat /\ k - Len(q) \in DOMAIN m /\ (q \o m)[k] = m[k - Len(q)]
      BY <1>2, <1>3, <3>1 DEF Answered
    <3>3. i - Len(q) = k - Len(q)
      BY <1>3, <2>2, <3>2 DEF OneAnswers
    <3> QED BY <1>1, <2>2, <3>2, <3>3
  <2> QED BY <1>2, <2>1, <2>2
<1>4. Answered(q \o m, s, id) => Answered(q, s, id) \/ Answered(m, s, id)
  BY <1>2 DEF Answered
<1> QED BY <1>3, <1>4 DEF OneAnswers

LEMMA OneNamed ==
    ASSUME NEW a \in 1..MaxSessions, NEW b \in Ids \cup {NoId}, NEW t \in MessageNames,
           NEW s, NEW id
    PROVE  /\ Messages(a, b, <<t>>) \in Seq(Message)
           /\ OneAnswers(Messages(a, b, <<t>>), s, id)
           /\ Answered(Messages(a, b, <<t>>), s, id) => t = "http-res" /\ s = a /\ id = b
<1>1. PICK e : e = [t |-> t, s |-> a, id |-> b]
  OBVIOUS
<1>2. e \in Message /\ e.s = a /\ e.t = t /\ e.id = b
  BY <1>1 DEF Message, MessageNames
<1>3. Messages(a, b, <<t>>) = [i \in 1..1 |-> e]
  BY <1>1 DEF Messages
<1>4. PICK m : m = Messages(a, b, <<t>>)
  OBVIOUS
<1>5. m \in Seq(Message) /\ DOMAIN m = {1} /\ m[1] = e
  <2>1. [i \in 1..1 |-> e] \in Seq(Message)
    BY <1>2
  <2>2. DOMAIN m = 1..1 /\ 1 \in 1..1 /\ m[1] = e
    BY <1>3, <1>4
  <2>3. DOMAIN m = {1}
    BY <2>2
  <2> QED BY <1>3, <1>4, <2>1, <2>2, <2>3
<1>6. OneAnswers(m, s, id)
  BY <1>5 DEF OneAnswers
<1>7. Answered(m, s, id) => t = "http-res" /\ s = a /\ id = b
  BY <1>2, <1>5 DEF Answered, Answers
<1> QED BY <1>4, <1>5, <1>6, <1>7

\* Two messages: they answer something else, or are a reset.
LEMMA TwoNamed ==
    ASSUME NEW a \in 1..MaxSessions, NEW b \in Ids \cup {NoId},
           NEW t \in MessageNames, NEW u \in MessageNames, NEW s, NEW id
    PROVE  /\ Messages(a, b, <<t, u>>) \in Seq(Message)
           /\ Answered(Messages(a, b, <<t, u>>), s, id) =>
                 "http-res" \in {t, u} /\ s = a /\ id = b
<1>1. <<t, u>> \in Seq(MessageNames) /\ DOMAIN <<t, u>> = {1, 2}
      /\ <<t, u>>[1] = t /\ <<t, u>>[2] = u
  OBVIOUS
<1>2. PICK ts : ts = <<t, u>>
  OBVIOUS
<1>3. ts \in Seq(MessageNames) /\ DOMAIN ts = {1, 2} /\ ts[1] = t /\ ts[2] = u
  BY <1>1, <1>2
<1>4. Messages(a, b, ts) \in Seq(Message)
  BY <1>3, MessagesTyped
<1>5. Messages(a, b, ts) = [i \in {1, 2} |-> [t |-> ts[i], s |-> a, id |-> b]]
  BY <1>3 DEF Messages
<1>6. ASSUME Answered(Messages(a, b, ts), s, id)
      PROVE  "http-res" \in {t, u} /\ s = a /\ id = b
  <2>1. PICK i \in {1, 2} : Answers([t |-> ts[i], s |-> a, id |-> b], s, id)
    BY <1>5, <1>6 DEF Answered
  <2> QED BY <1>3, <2>1 DEF Answers
<1> QED BY <1>2, <1>4, <1>6
\* What one message of the Host does, of whichever session.
LEMMA SentOne ==
    ASSUME IInv, NEW a \in 1..MaxSessions, NEW b \in Ids, NEW t \in MessageNames,
           Send(a, b, <<t>>), NEW s, NEW id
    PROVE  /\ Answered(down', s, id) =>
                 Answered(down, s, id) \/ (t = "http-res" /\ s = a /\ id = b)
           /\ /\ OneAnswers(down, s, id)
              /\ t = "http-res" /\ s = a /\ id = b => ~Answered(down, s, id)
              => OneAnswers(down', s, id)
<1>1. CASE a # session
  BY <1>1 DEF Send
<1>2. CASE a = session
  <2>1. PICK m : m = Messages(a, b, <<t>>)
    OBVIOUS
  <2>2. down' = down \o m
    BY <1>2, <2>1 DEF Send
  <2>3. down \in Seq(Message)
    BY DEF IInv, Typed
  <2>4. /\ m \in Seq(Message) /\ OneAnswers(m, s, id)
        /\ Answered(m, s, id) => t = "http-res" /\ s = a /\ id = b
    BY <2>1, OneNamed
  <2> QED BY <2>2, <2>3, <2>4, MessagesAdded
<1> QED BY <1>1, <1>2

\* Two messages: an answer is one of two only where the response was reset.
LEMMA SentTwo ==
    ASSUME IInv, NEW a \in 1..MaxSessions, NEW b \in Ids, NEW t \in MessageNames,
           NEW u \in MessageNames, Send(a, b, <<t, u>>), NEW s, NEW id
    PROVE  /\ Answered(down', s, id) =>
                 Answered(down, s, id) \/ ("http-res" \in {t, u} /\ s = a /\ id = b)
           /\ OneAnswers(down, s, id) /\ ~("http-res" \in {t, u} /\ s = a /\ id = b /\ a = session)
              => OneAnswers(down', s, id)
<1>1. CASE a # session
  BY <1>1 DEF Send
<1>2. CASE a = session
  <2>1. PICK m : m = Messages(a, b, <<t, u>>)
    OBVIOUS
  <2>2. down' = down \o m
    BY <1>2, <2>1 DEF Send
  <2>3. down \in Seq(Message)
    BY DEF IInv, Typed
  <2>4. /\ m \in Seq(Message)
        /\ Answered(m, s, id) => "http-res" \in {t, u} /\ s = a /\ id = b
    BY <2>1, TwoNamed
  <2>5. ~Answered(m, s, id) => OneAnswers(m, s, id)
    BY DEF Answered, OneAnswers
  <2> QED BY <1>2, <2>2, <2>3, <2>4, <2>5, MessagesAdded
<1> QED BY <1>1, <1>2

LEMMA JobAdded ==
    ASSUME NEW w, NEW n, NEW s, NEW id, OneForwards(w, s, id),
           Forwards(n, s, id) => ~Forwarded(w, s, id)
    PROVE  /\ OneForwards(w \cup {n}, s, id)
           /\ Forwarded(w \cup {n}, s, id) => Forwarded(w, s, id) \/ Forwards(n, s, id)
BY DEF OneForwards, Forwarded

LEMMA JobTaken ==
    ASSUME NEW w, NEW j \in w, NEW s, NEW id, OneForwards(w, s, id)
    PROVE  /\ OneForwards(w \ {j}, s, id)
           /\ Forwarded(w \ {j}, s, id) => Forwarded(w, s, id) /\ ~Forwards(j, s, id)
           /\ Forwards(j, s, id) => Forwarded(w, s, id)
BY DEF OneForwards, Forwarded

LEMMA JobChanged ==
    ASSUME NEW w, NEW j \in w, NEW n, NEW s, NEW id, OneForwards(w, s, id),
           n.kind = j.kind, n.s = j.s, n.id = j.id
    PROVE  /\ OneForwards((w \ {j}) \cup {n}, s, id)
           /\ Forwarded((w \ {j}) \cup {n}, s, id) => Forwarded(w, s, id)
BY DEF OneForwards, Forwarded, Forwards

LEMMA JobsClosed ==
    ASSUME NEW w \in SUBSET Job, NEW P, NEW s, NEW id, OneForwards(w, s, id),
           NEW v, v = {IF j \in P THEN Closed(j) ELSE j : j \in w}
    PROVE  /\ OneForwards(v, s, id)
           /\ Forwarded(v, s, id) => Forwarded(w, s, id)
<1>1. \A j \in Job : /\ Closed(j).kind = j.kind /\ Closed(j).s = j.s
                     /\ Closed(j).id = j.id
  BY DEF Job, Closed
<1>2. \A j \in v : \E k \in w :
         /\ j = (IF k \in P THEN Closed(k) ELSE k)
         /\ Forwards(j, s, id) <=> Forwards(k, s, id)
  BY <1>1 DEF Forwards
<1>3. ASSUME NEW j \in v, NEW k \in v, Forwards(j, s, id), Forwards(k, s, id)
      PROVE  j = k
  <2>1. PICK a \in w : j = (IF a \in P THEN Closed(a) ELSE a) /\ Forwards(a, s, id)
    BY <1>2, <1>3
  <2>2. PICK b \in w : k = (IF b \in P THEN Closed(b) ELSE b) /\ Forwards(b, s, id)
    BY <1>2, <1>3
  <2>3. a = b
    BY <2>1, <2>2 DEF OneForwards
  <2> QED BY <2>1, <2>2, <2>3
<1>4. Forwarded(v, s, id) => Forwarded(w, s, id)
  BY <1>2 DEF Forwarded
<1> QED BY <1>3, <1>4 DEF OneForwards

-----------------------------------------------------------------------------
\* A step of the Host: what is owed stays where it is, or passes on and is no
\* longer where it was.
LEMMA Passes ==
    ASSUME NEW s, NEW id, InOnePlace(s, id), UNCHANGED <<peer, call>>,
           WasReset(s, id) => WasReset(s, id)',
           OneAsks(up', s, id), OneForwards(work', s, id),
           Asked(up', s, id) => Asked(up, s, id),
           Uploading(session', requests', s, id) =>
              \/ Uploading(session, requests, s, id)
              \/ Asked(up, s, id) /\ ~Asked(up', s, id),
           Forwarded(work', s, id) =>
              \/ Forwarded(work, s, id)
              \/ /\ Asked(up, s, id) \/ Uploading(session, requests, s, id)
                 /\ ~Asked(up', s, id) /\ ~Uploading(session', requests', s, id),
           Answered(down', s, id) =>
              \/ Answered(down, s, id)
              \/ /\ \/ Asked(up, s, id) \/ Uploading(session, requests, s, id)
                    \/ Forwarded(work, s, id)
                 /\ ~Asked(up', s, id) /\ ~Uploading(session', requests', s, id)
                 /\ ~Forwarded(work', s, id),
           OneAnswers(down, s, id) /\ ~WasReset(s, id)' => OneAnswers(down', s, id)
    PROVE  InOnePlace(s, id)'
<1>1. Heard(s, id)' <=> Heard(s, id)
  BY DEF Heard
<1>2. /\ OneAsks(up, s, id)' <=> OneAsks(up', s, id)
      /\ OneForwards(work, s, id)' <=> OneForwards(work', s, id)
  OBVIOUS
<1> QED BY <1>1, <1>2 DEF InOnePlace

LEMMA FrameTurn == ASSUME IInv, OwedOnce, OnFrame PROVE OwedOnce'
<1> SUFFICES ASSUME NEW s \in 1..MaxSessions, NEW id \in Ids
             PROVE  InOnePlace(s, id)'
  BY DEF OwedOnce
<1>1. InOnePlace(s, id)
  BY DEF OwedOnce
<1>2. PICK f : f = Head(up)
  OBVIOUS
<1>3. /\ up # <<>> /\ up' = Tail(up) /\ UNCHANGED <<peer, call, resets>>
      /\ \/ AdoptSession(f) \/ RejectHello(f)
         \/ /\ f.s = session
            /\ \/ HttpReq(f) \/ HttpData(f) \/ WsOpen(f) \/ RefusePath(f)
               \/ WsMsg(f) \/ WsClose(f)
  BY <1>2 DEF OnFrame, phone
<1>4. /\ f \in Frame /\ f.s \in 1..MaxSessions /\ (f.t # Hello => f.id \in Ids)
  <2>1. f \in Frame /\ f = up[1] /\ 1 \in DOMAIN up
    BY <1>2, <1>3, Removed DEF IInv, Typed
  <2> QED BY <2>1 DEF Frame, IInv, FramesInOrder
<1>5. /\ up \in Seq(Frame) /\ down \in Seq(Message) /\ work \in SUBSET Job
  BY DEF IInv, Typed
<1>6. OneAsks(up, s, id) /\ OneForwards(work, s, id)
  BY <1>1 DEF InOnePlace
<1>7. /\ OneAsks(up', s, id)
      /\ Asked(up', s, id) => Asked(up, s, id) /\ ~Asks(f, s, id)
      /\ Asks(f, s, id) => Asked(up, s, id)
  BY <1>2, <1>3, <1>5, <1>6, FrameTaken
<1>8. WasReset(s, id) => WasReset(s, id)'
  BY <1>3 DEF WasReset
<1>9. ASSUME /\ OneForwards(work', s, id)
             /\ Forwarded(work', s, id) => Forwarded(work, s, id),
             Uploading(session', requests', s, id) => Uploading(session, requests, s, id),
             /\ Answered(down', s, id) => Answered(down, s, id)
             /\ OneAnswers(down, s, id) => OneAnswers(down', s, id)
      PROVE  InOnePlace(s, id)'
  BY <1>1, <1>3, <1>7, <1>8, <1>9, Passes
<1>10. CASE UNCHANGED <<down, session, requests, work>>
  BY <1>6, <1>9, <1>10
<1>11. CASE CloseTransport
  BY <1>10, <1>11 DEF CloseTransport, maps
<1>12. ASSUME NEW t \in {"ack", "error"}, down' = down \o Messages(f.s, NoId, <<t>>)
       PROVE  /\ Answered(down', s, id) => Answered(down, s, id)
              /\ OneAnswers(down, s, id) => OneAnswers(down', s, id)
  <2>1. PICK m : m = Messages(f.s, NoId, <<t>>)
    OBVIOUS
  <2>2. m \in Seq(Message) /\ OneAnswers(m, s, id) /\ ~Answered(m, s, id)
    <3>1. t \in MessageNames /\ t # "http-res"
      BY DEF MessageNames
    <3> QED BY <1>4, <2>1, <3>1, OneNamed
  <2>3. down' = down \o m
    BY <1>12, <2>1
  <2> QED BY <1>5, <2>2, <2>3, MessagesAdded
<1>13. CASE AdoptSession(f)
  <2>1. /\ work' = TornDown /\ down' = down \o Messages(f.s, NoId, <<"ack">>)
        /\ requests' = Nothing
    BY <1>13 DEF AdoptSession, NoMaps
  <2>2. ~Uploading(session', requests', s, id)
    BY <2>1 DEF Uploading, Nothing
  <2>3. /\ OneForwards(work', s, id)
        /\ Forwarded(work', s, id) => Forwarded(work, s, id)
    <3> DEFINE P == {j \in work : j.s = session /\ j.id \in bridges}
    <3>1. work' = {IF j \in P THEN Closed(j) ELSE j : j \in work}
      BY <2>1 DEF TornDown
    <3> HIDE DEF P
    <3> QED BY <1>5, <1>6, <3>1, JobsClosed
  <2> QED BY <1>9, <1>12, <2>1, <2>2, <2>3
<1>14. CASE RejectHello(f)
  <2>1. /\ down' = down \o Messages(f.s, NoId, <<"error">>)
        /\ UNCHANGED <<session, requests, work>>
    BY <1>14 DEF RejectHello, maps
  <2> QED BY <1>6, <1>9, <1>12, <2>1
<1>15. CASE f.s = session /\ HttpReq(f)
  <2>1. f.id \in Ids /\ (Asks(f, s, id) <=> s = session /\ id = f.id)
    BY <1>4, <1>15 DEF HttpReq, Hello, Asks
  <2>2. CASE Forward(f.id) /\ UNCHANGED <<requests, down, session>>
    <3>1. PICK n : n = [s |-> session, id |-> f.id, kind |-> "http", at |-> "cookie"]
      OBVIOUS
    <3>2. work' = work \cup {n} /\ (Forwards(n, s, id) <=> Asks(f, s, id))
      BY <2>1, <2>2, <3>1 DEF Forward, Forwards
    <3>3. Asks(f, s, id) => /\ Asked(up, s, id) /\ ~Asked(up', s, id)
                            /\ ~Uploading(session', requests', s, id)
                            /\ ~Forwarded(work, s, id)
      BY <1>1, <1>7, <2>2 DEF InOnePlace
    <3>4. /\ OneForwards(work', s, id)
          /\ Forwarded(work', s, id) => Forwarded(work, s, id) \/ Asks(f, s, id)
      BY <1>6, <3>2, <3>3, JobAdded
    <3>5. /\ Uploading(session', requests', s, id) => Uploading(session, requests, s, id)
          /\ Answered(down', s, id) => Answered(down, s, id)
          /\ OneAnswers(down, s, id) => OneAnswers(down', s, id)
      BY <2>2
    <3> QED BY <1>1, <1>3, <1>7, <1>8, <3>3, <3>4, <3>5, Passes
  <2>3. CASE /\ requests' = [i \in DOMAIN requests \cup {f.id} |->
                                IF i = f.id THEN 0 ELSE requests[i]]
             /\ UNCHANGED <<work, down, session>>
    <3>1. Uploading(session', requests', s, id) =>
             Uploading(session, requests, s, id) \/ Asks(f, s, id)
      BY <2>1, <2>3 DEF Uploading
    <3>2. /\ OneForwards(work', s, id)
          /\ Forwarded(work', s, id) => Forwarded(work, s, id)
          /\ Answered(down', s, id) => Answered(down, s, id)
          /\ OneAnswers(down, s, id) => OneAnswers(down', s, id)
      BY <1>6, <2>3
    <3> QED BY <1>1, <1>3, <1>7, <1>8, <3>1, <3>2, Passes
  <2> QED BY <1>11, <1>15, <2>2, <2>3 DEF HttpReq
<1>16. CASE f.s = session /\ RefusePath(f)
  <2>1. CASE f.t = "ws-open"
    <3>1. /\ Send(session, f.id, <<"ws-err">>) /\ f.id \in Ids
          /\ UNCHANGED <<session, requests, work>>
      BY <1>4, <1>16, <2>1 DEF RefusePath, Hello
    <3>2. /\ Answered(down', s, id) => Answered(down, s, id)
          /\ OneAnswers(down, s, id) => OneAnswers(down', s, id)
      <4>1. "ws-err" \in MessageNames /\ "ws-err" # "http-res"
        BY DEF MessageNames
      <4> QED BY <1>4, <1>16, <3>1, <4>1, SentOne
    <3> QED BY <1>6, <1>9, <3>1, <3>2
  <2>2. CASE f.t # "ws-open"
    <3>1. /\ Send(session, f.id, <<"http-res">>) /\ f.id \in Ids
          /\ UNCHANGED <<session, requests, work>>
          /\ Asks(f, s, id) <=> s = session /\ id = f.id
      BY <1>4, <1>16, <2>2, SessionAssumption DEF RefusePath, Hello, Asks
    <3>2. Asks(f, s, id) => /\ Asked(up, s, id) /\ ~Asked(up', s, id)
                            /\ ~Uploading(session', requests', s, id)
                            /\ ~Forwarded(work', s, id) /\ ~Answered(down, s, id)
      BY <1>1, <1>7, <3>1 DEF InOnePlace
    <3>3. /\ Answered(down', s, id) => Answered(down, s, id) \/ Asks(f, s, id)
          /\ OneAnswers(down, s, id) => OneAnswers(down', s, id)
      <4>1. "http-res" \in MessageNames
        BY DEF MessageNames
      <4> QED BY <1>4, <1>16, <3>1, <3>2, <4>1, SentOne
    <3>4. /\ OneForwards(work', s, id)
          /\ Forwarded(work', s, id) => Forwarded(work, s, id)
          /\ Uploading(session', requests', s, id) => Uploading(session, requests, s, id)
      BY <1>6, <3>1
    <3> QED BY <1>1, <1>3, <1>7, <1>8, <3>2, <3>3, <3>4, Passes
  <2> QED BY <2>1, <2>2
<1>17. CASE f.s = session /\ HttpData(f) /\ ~CloseTransport
  <2>1. /\ f.id \in Ids /\ f.id \in DOMAIN requests /\ UNCHANGED session
        /\ \A a, b : ~Asks(f, a, b)
    BY <1>4, <1>17 DEF HttpData, Hello, Asks
  <2>2. /\ DOMAIN requests' \subseteq DOMAIN requests
        /\ Uploading(session', requests', s, id) => Uploading(session, requests, s, id)
    BY <1>17, <2>1 DEF HttpData, Without, Uploading
  <2>3. s = session /\ id = f.id =>
           /\ Uploading(session, requests, s, id) /\ ~Asked(up', s, id)
           /\ ~Forwarded(work, s, id) /\ ~Answered(down, s, id)
    BY <1>1, <1>7, <2>1 DEF InOnePlace, Uploading
  <2>4. CASE requests[f.id] + 1 > MaxBody
    <3>1. /\ Send(session, f.id, <<"http-res">>) /\ UNCHANGED work
          /\ requests' = Without(requests, f.id)
      BY <1>17, <2>1, <2>4 DEF HttpData
    <3>2. id = f.id => ~Uploading(session', requests', s, id)
      BY <3>1 DEF Uploading, Without
    <3>3. /\ Answered(down', s, id) =>
                Answered(down, s, id) \/ (s = session /\ id = f.id)
          /\ OneAnswers(down, s, id) => OneAnswers(down', s, id)
      <4>1. "http-res" \in MessageNames
        BY DEF MessageNames
      <4> QED BY <1>4, <1>17, <2>1, <2>3, <3>1, <4>1, SentOne
    <3>4. /\ OneForwards(work', s, id)
          /\ Forwarded(work', s, id) => Forwarded(work, s, id)
      BY <1>6, <3>1
    <3> QED BY <1>1, <1>3, <1>7, <1>8, <2>2, <2>3, <3>1, <3>2, <3>3, <3>4, Passes
  <2>5. CASE ~(requests[f.id] + 1 > MaxBody) /\ f.last
    <3>1. /\ Forward(f.id) /\ UNCHANGED down
          /\ requests' = Without(requests, f.id)
      BY <1>17, <2>1, <2>5 DEF HttpData
    <3>2. id = f.id => ~Uploading(session', requests', s, id)
      BY <3>1 DEF Uploading, Without
    <3>3. PICK n : n = [s |-> session, id |-> f.id, kind |-> "http", at |-> "cookie"]
      OBVIOUS
    <3>4. work' = work \cup {n} /\ (Forwards(n, s, id) <=> s = session /\ id = f.id)
      BY <3>1, <3>3 DEF Forward, Forwards
    <3>5. /\ OneForwards(work', s, id)
          /\ Forwarded(work', s, id) =>
                Forwarded(work, s, id) \/ (s = session /\ id = f.id)
      BY <1>6, <2>3, <3>4, JobAdded
    <3>6. /\ Answered(down', s, id) => Answered(down, s, id)
          /\ OneAnswers(down, s, id) => OneAnswers(down', s, id)
      BY <3>1
    <3> QED BY <1>1, <1>3, <1>7, <1>8, <2>2, <2>3, <3>2, <3>5, <3>6, Passes
  <2>6. CASE ~(requests[f.id] + 1 > MaxBody) /\ ~f.last
    <3>1. UNCHANGED <<down, work>>
      BY <1>17, <2>1, <2>6 DEF HttpData
    <3> QED BY <1>6, <1>9, <2>2, <3>1
  <2> QED BY <2>4, <2>5, <2>6
<1>18. CASE f.s = session /\ WsOpen(f) /\ ~CloseTransport
  <2>1. PICK n : n = [s |-> session, id |-> f.id, kind |-> "ws", at |-> "cookie"]
    OBVIOUS
  <2>2. /\ work' = work \cup {n} /\ ~Forwards(n, s, id)
        /\ UNCHANGED <<down, session, requests>>
    BY <1>18, <2>1 DEF WsOpen, Forwards, maps
  <2>3. /\ OneForwards(work', s, id)
        /\ Forwarded(work', s, id) => Forwarded(work, s, id)
    BY <1>6, <2>2, JobAdded
  <2> QED BY <1>9, <2>2, <2>3
<1>19. CASE f.s = session /\ WsMsg(f)
  BY <1>10, <1>11, <1>19 DEF WsMsg, maps
<1>20. CASE f.s = session /\ WsClose(f)
  <2>1. CASE /\ UNCHANGED <<down, session, requests>>
             /\ work' = {IF j.s = session /\ j.id = f.id THEN Closed(j) ELSE j : j \in work}
    <3> DEFINE P == {j \in work : j.s = session /\ j.id = f.id}
    <3>1. work' = {IF j \in P THEN Closed(j) ELSE j : j \in work}
      BY <2>1
    <3> HIDE DEF P
    <3>2. /\ OneForwards(work', s, id)
          /\ Forwarded(work', s, id) => Forwarded(work, s, id)
      BY <1>5, <1>6, <3>1, JobsClosed
    <3> QED BY <1>9, <2>1, <3>2
  <2> QED BY <1>10, <1>11, <1>20, <2>1 DEF WsClose, maps
<1> QED BY <1>3, <1>11, <1>13, <1>14, <1>15, <1>16, <1>17, <1>18, <1>19, <1>20
LEMMA UpstreamTurn ==
    ASSUME IInv, AskedIsHttp, OwedOnce, NEW j \in work, Upstream(j)
    PROVE  OwedOnce'
<1> SUFFICES ASSUME NEW s \in 1..MaxSessions, NEW id \in Ids
             PROVE  InOnePlace(s, id)'
  BY DEF OwedOnce
<1>1. InOnePlace(s, id)
  BY DEF OwedOnce
<1>2. /\ UNCHANGED <<peer, call, up, session>>
      /\ \/ /\ \/ Cookie(j) \/ Begin(j) \/ Respond(j) \/ Connected(j)
               \/ Failed(j) \/ Ended(j) \/ Said(j)
            /\ UNCHANGED resets
         \/ /\ Reset(j)
            /\ resets' = IF j.s = session
                         THEN resets \cup {[s |-> j.s, id |-> j.id]} ELSE resets
  BY DEF Upstream, phone
<1>3. UNCHANGED requests
  BY <1>2 DEF Cookie, Begin, Respond, Connected, Failed, Ended, Said, Reset, Gone, maps
<1>4. PICK a \in 1..MaxSessions, b \in Ids : a = j.s /\ b = j.id
  BY DEF IInv, Typed, Job
<1>5. OneAsks(up, s, id) /\ OneForwards(work, s, id)
  BY <1>1 DEF InOnePlace
<1>6. WasReset(s, id) => WasReset(s, id)'
  BY <1>2 DEF WasReset
<1>7. UNCHANGED work \/ Done(j) \/ \E at : Become(j, at)
  BY <1>2 DEF Cookie, Begin, Respond, Connected, Failed, Ended, Said, Reset, Gone
<1>8. /\ OneForwards(work', s, id)
      /\ Forwarded(work', s, id) => Forwarded(work, s, id)
  <2>1. CASE UNCHANGED work
    BY <1>5, <2>1
  <2>2. CASE Done(j)
    BY <1>5, <2>2, JobTaken DEF Done
  <2>3. ASSUME NEW at, Become(j, at)
        PROVE  /\ OneForwards(work', s, id)
               /\ Forwarded(work', s, id) => Forwarded(work, s, id)
    <3>1. PICK n : n = [j EXCEPT !.at = at]
      OBVIOUS
    <3>2. n.kind = j.kind /\ n.s = j.s /\ n.id = j.id
      BY <3>1 DEF IInv, Typed, Job
    <3>3. work' = (work \ {j}) \cup {n}
      BY <2>3, <3>1 DEF Become
    <3> QED BY <1>5, <3>2, <3>3, JobChanged
  <2> QED BY <1>7, <2>1, <2>2, <2>3
<1>9. ASSUME /\ Answered(down', s, id) => Answered(down, s, id)
             /\ OneAnswers(down, s, id) => OneAnswers(down', s, id)
      PROVE  InOnePlace(s, id)'
  BY <1>1, <1>2, <1>3, <1>5, <1>6, <1>8, <1>9, Passes
<1>10. {"http-res", "ws-ack", "ws-err", "ws-msg", "ws-close"} \subseteq MessageNames
  BY DEF MessageNames
\* A response: the job that owed it is done.
<1>11. ASSUME j.at \in {"asked", "begun"}, Done(j),
              Answered(down', s, id) => Answered(down, s, id) \/ (s = a /\ id = b),
              /\ OneAnswers(down, s, id) /\ ~WasReset(s, id)'
              /\ s = a /\ id = b => ~Answered(down, s, id)
              => OneAnswers(down', s, id)
       PROVE  InOnePlace(s, id)'
  <2>1. Forwards(j, s, id) <=> s = a /\ id = b
    BY <1>4, <1>11 DEF AskedIsHttp, Forwards
  <2>2. Forwards(j, s, id) => Forwarded(work, s, id) /\ ~Forwarded(work', s, id)
    BY <1>5, <1>11, JobTaken DEF Done
  <2>3. Forwards(j, s, id) => /\ ~Asked(up', s, id) /\ ~Answered(down, s, id)
                              /\ ~Uploading(session', requests', s, id)
    BY <1>1, <1>2, <1>3, <2>2 DEF InOnePlace
  <2> QED BY <1>1, <1>2, <1>3, <1>5, <1>6, <1>8, <1>11, <2>1, <2>2, <2>3, Passes
<1>12. CASE Respond(j)
  <2>1. Send(a, b, <<"http-res">>)
    BY <1>4, <1>12 DEF Respond
  <2>2. /\ Answered(down', s, id) => Answered(down, s, id) \/ (s = a /\ id = b)
        /\ /\ OneAnswers(down, s, id)
           /\ s = a /\ id = b => ~Answered(down, s, id)
           => OneAnswers(down', s, id)
    BY <1>10, <2>1, SentOne
  <2> QED BY <1>11, <1>12, <2>2 DEF Respond
<1>13. CASE Reset(j) /\ resets' = IF j.s = session
                                  THEN resets \cup {[s |-> j.s, id |-> j.id]} ELSE resets
  <2>1. Send(a, b, <<"http-res", "http-res">>)
    BY <1>4, <1>13 DEF Reset
  <2>2. /\ Answered(down', s, id) => Answered(down, s, id) \/ (s = a /\ id = b)
        /\ OneAnswers(down, s, id) /\ ~(s = a /\ id = b /\ a = session)
           => OneAnswers(down', s, id)
    BY <1>10, <2>1, SentTwo
  <2>3. s = a /\ id = b /\ a = session => WasReset(s, id)'
    BY <1>4, <1>13 DEF WasReset
  <2> QED BY <1>11, <1>13, <2>2, <2>3 DEF Reset
<1>14. ASSUME NEW t \in {"ws-ack", "ws-msg", "ws-close"}, Send(j.s, j.id, <<t>>)
       PROVE  InOnePlace(s, id)'
  <2>1. /\ Answered(down', s, id) => Answered(down, s, id)
        /\ OneAnswers(down, s, id) => OneAnswers(down', s, id)
    <3>1. t \in MessageNames /\ t # "http-res" /\ Send(a, b, <<t>>)
      BY <1>4, <1>10, <1>14
    <3> QED BY <3>1, SentOne
  <2> QED BY <1>9, <2>1
<1>15. CASE Failed(j)
  <2>1. Send(a, b, <<"ws-err", "ws-close">>)
    BY <1>4, <1>15 DEF Failed, Gone
  <2>2. /\ Answered(down', s, id) => Answered(down, s, id)
        /\ OneAnswers(down, s, id) => OneAnswers(down', s, id)
    BY <1>10, <2>1, SentTwo
  <2> QED BY <1>9, <2>2
<1>16. CASE Connected(j) \/ Ended(j) \/ Said(j)
  BY <1>14, <1>16 DEF Connected, Ended, Said, Gone
<1>17. CASE Cookie(j) \/ Begin(j)
  <2>1. UNCHANGED down
    BY <1>17 DEF Cookie, Begin
  <2> QED BY <1>9, <2>1
<1> QED BY <1>2, <1>12, <1>13, <1>15, <1>16, <1>17

LEMMA CloseTurn == ASSUME IInv, OwedOnce, Close PROVE OwedOnce'
<1> SUFFICES ASSUME NEW s \in 1..MaxSessions, NEW id \in Ids
             PROVE  InOnePlace(s, id)'
  BY DEF OwedOnce
<1>1. InOnePlace(s, id)
  BY DEF OwedOnce
<1>2. /\ up' = <<>> /\ down' = <<>> /\ requests' = Nothing /\ work' = TornDown
      /\ UNCHANGED <<peer, call, resets>>
  BY DEF Close, NoMaps, phone
<1>3. /\ OneAsks(up', s, id) /\ ~Asked(up', s, id)
      /\ OneAnswers(down', s, id) /\ ~Answered(down', s, id)
  BY <1>2 DEF OneAsks, Asked, OneAnswers, Answered
<1>4. ~Uploading(session', requests', s, id)
  BY <1>2 DEF Uploading, Nothing
<1>5. /\ OneForwards(work', s, id)
      /\ Forwarded(work', s, id) => Forwarded(work, s, id)
  <2> DEFINE P == {j \in work : j.s = session /\ j.id \in bridges}
  <2>1. work' = {IF j \in P THEN Closed(j) ELSE j : j \in work}
    BY <1>2 DEF TornDown
  <2>2. OneForwards(work, s, id) /\ work \in SUBSET Job
    BY <1>1 DEF InOnePlace, IInv, Typed
  <2> HIDE DEF P
  <2> QED BY <2>1, <2>2, JobsClosed
<1>6. WasReset(s, id) => WasReset(s, id)'
  BY <1>2 DEF WasReset
<1> QED BY <1>1, <1>2, <1>3, <1>4, <1>5, <1>6, Passes

\* The phone hears an answer to what it asked for: it is not under way any more.
LEMMA HearTurn == ASSUME IInv, OwedOnce, Hear PROVE OwedOnce'
<1> SUFFICES ASSUME NEW s \in 1..MaxSessions, NEW id \in Ids
             PROVE  InOnePlace(s, id)'
  BY DEF OwedOnce
<1>1. InOnePlace(s, id)
  BY DEF OwedOnce
<1>2. PICK m : m = Head(down)
  OBVIOUS
<1>3. /\ down # <<>> /\ down' = Tail(down) /\ down \in Seq(Message) /\ m \in Message
      /\ UNCHANGED <<peer, up, session, requests, work, resets>>
  BY <1>2, Removed DEF Hear, IInv, Typed, maps
<1>4. /\ OneAnswers(down, s, id) => OneAnswers(down', s, id)
      /\ Answered(down', s, id) => Answered(down, s, id)
      /\ Answers(m, s, id) => Answered(down, s, id)
      /\ OneAnswers(down, s, id) /\ Answers(m, s, id) => ~Answered(down', s, id)
  BY <1>2, <1>3, MessageTaken
<1>5. \/ UNCHANGED call
      \/ /\ m.s = peer /\ m.id \in Ids
         /\ call' = [call EXCEPT ![m.id] = Learnt(@, m.t)]
  BY <1>2, <1>3 DEF Hear, Message
<1>6. WasReset(s, id)' <=> WasReset(s, id)
  BY <1>3 DEF WasReset
<1>7. s = peer /\ call'[id] # call[id] => m.s = s /\ m.id = id /\ call'[id] = Learnt(call[id], m.t)
  BY <1>5 DEF IInv, Typed
<1>8. \A was : /\ Learnt(was, "http-res") =
                     IF was \in {"answered", "twice"} THEN "twice" ELSE "answered"
               /\ \A t : t # "http-res" /\ Learnt(was, t) # was =>
                            Learnt(was, t) \in {"open", "ended"}
  BY DEF Learnt
<1>9. \/ s # peer \/ call'[id] = call[id]
      \/ call'[id] \in {"open", "ended"}
      \/ /\ Answers(m, s, id)
         /\ call'[id] = IF call[id] \in {"answered", "twice"} THEN "twice" ELSE "answered"
  BY <1>7, <1>8 DEF Answers
<1>10. CASE Answers(m, s, id) /\ s = peer
            /\ call'[id] = IF call[id] \in {"answered", "twice"} THEN "twice" ELSE "answered"
  <2>1. /\ Answered(down, s, id)
        /\ ~Asked(up, s, id) /\ ~Uploading(session, requests, s, id)
        /\ ~Forwarded(work, s, id)
    BY <1>1, <1>4, <1>10 DEF InOnePlace
  <2>2. ~WasReset(s, id) => /\ OneAnswers(down, s, id)
                             /\ call[id] \notin {"answered", "twice"}
    BY <1>1, <2>1, <1>10 DEF InOnePlace, Heard
  <2>3. OneAsks(up, s, id) /\ OneForwards(work, s, id)
    BY <1>1 DEF InOnePlace
  <2> QED BY <1>3, <1>4, <1>6, <1>10, <2>1, <2>2, <2>3 DEF InOnePlace
<1>11. CASE s # peer \/ call'[id] = call[id] \/ call'[id] \in {"open", "ended"}
  <2>1. Heard(s, id)' => Heard(s, id)
    BY <1>3, <1>11 DEF Heard
  <2>2. s = peer /\ call'[id] \in {"fresh", "twice"} => call'[id] = call[id]
    BY <1>11
  <2> QED BY <1>1, <1>3, <1>4, <1>6, <2>1, <2>2 DEF InOnePlace
<1> QED BY <1>9, <1>10, <1>11

\* The phone speaks: what it asks for, it asks for with an id that is fresh.
LEMMA SayTurn ==
    ASSUME IInv, OwedOnce, NEW t, NEW b \in Ids, NEW last, Say(t, b, last),
           [t |-> t, s |-> peer', id |-> b, last |-> last] \in Frame,
           UNCHANGED peer, NEW to, call' = [call EXCEPT ![b] = to],
           to \notin {"fresh", "answered", "twice"},
           t \in {"http-req", "http-post"} => call[b] = "fresh"
    PROVE  OwedOnce'
<1> SUFFICES ASSUME NEW s \in 1..MaxSessions, NEW id \in Ids
             PROVE  InOnePlace(s, id)'
  BY DEF OwedOnce
<1>1. InOnePlace(s, id)
  BY DEF OwedOnce
<1>2. PICK f : f = [t |-> t, s |-> peer', id |-> b, last |-> last]
  OBVIOUS
<1>3. /\ up' = Append(up, f) /\ up \in Seq(Frame) /\ f \in Frame
      /\ f.t = t /\ f.s = peer /\ f.id = b
      /\ UNCHANGED <<down, session, requests, work, resets>>
  BY <1>2 DEF Say, maps, IInv, Typed
<1>4. Asks(f, s, id) => s = peer /\ id = b /\ call[id] = "fresh"
  BY <1>3 DEF Asks
<1>5. Asks(f, s, id) =>
         /\ ~Asked(up, s, id) /\ ~Uploading(session, requests, s, id)
         /\ ~Forwarded(work, s, id) /\ ~Answered(down, s, id)
  BY <1>1, <1>4 DEF InOnePlace
<1>6. /\ OneAsks(up', s, id)
      /\ Asked(up', s, id) => Asked(up, s, id) \/ Asks(f, s, id)
  <2>1. OneAsks(up, s, id)
    BY <1>1 DEF InOnePlace
  <2> QED BY <1>3, <1>5, <2>1, FrameAdded
<1>7. call'[id] = IF id = b THEN to ELSE call[id]
  BY DEF IInv, Typed
<1>8. /\ Heard(s, id)' => Heard(s, id)
      /\ Asks(f, s, id) => ~Heard(s, id)'
      /\ call'[id] = "fresh" => call[id] = "fresh" /\ ~Asks(f, s, id)
      /\ call'[id] = "twice" => call[id] = "twice"
  BY <1>4, <1>7 DEF Heard
<1>9. WasReset(s, id)' <=> WasReset(s, id)
  BY <1>3 DEF WasReset
<1> QED BY <1>1, <1>3, <1>5, <1>6, <1>8, <1>9 DEF InOnePlace

\* A new hello: nothing is under way for it, or for any later one.
LEMMA HelloTurn == ASSUME IInv, OwedOnce, SayHello PROVE OwedOnce'
<1> SUFFICES ASSUME NEW s \in 1..MaxSessions, NEW id \in Ids
             PROVE  InOnePlace(s, id)'
  BY DEF OwedOnce
<1>1. InOnePlace(s, id)
  BY DEF OwedOnce
<1>2. /\ peer' = peer + 1 /\ call' = Fresh /\ peer \in Nat /\ peer < MaxSessions
      /\ session \in Nat /\ session <= peer /\ MaxSessions \in Nat
  BY Bounds DEF SayHello, IInv, Typed
<1>3. PICK f : f = [t |-> Hello, s |-> peer', id |-> NoId, last |-> FALSE]
  OBVIOUS
<1>4. /\ up' = Append(up, f) /\ up \in Seq(Frame) /\ f \in Frame /\ f.t = Hello
      /\ UNCHANGED <<down, session, requests, work, resets>>
  <2>1. peer' \in 1..MaxSessions
    BY <1>2
  <2> QED BY <1>3, <2>1 DEF SayHello, Say, maps, IInv, Typed, Frame
<1>5. /\ OneAsks(up', s, id)
      /\ Asked(up', s, id) => Asked(up, s, id)
  <2>1. OneAsks(up, s, id) /\ ~Asks(f, s, id)
    BY <1>1, <1>4 DEF InOnePlace, Asks, Hello
  <2> QED BY <1>4, <2>1, FrameAdded
<1>6. s = peer' =>
         /\ ~Asked(up, s, id) /\ ~Uploading(session, requests, s, id)
         /\ ~Forwarded(work, s, id) /\ ~Answered(down, s, id)
  <2> SUFFICES ASSUME s = peer + 1
               PROVE  /\ ~Asked(up, s, id) /\ ~Uploading(session, requests, s, id)
                      /\ ~Forwarded(work, s, id) /\ ~Answered(down, s, id)
    BY <1>2
  <2>1. \A i \in DOMAIN up : up[i].s <= peer
    BY DEF IInv, FramesInOrder
  <2>2. \A j \in work : j.s <= peer
    BY DEF IInv, WorkTyped
  <2>3. \A i \in DOMAIN down : down[i].t = "http-res" => down[i].s <= session
    BY DEF IInv, DownOrdered, UpTo
  <2> QED BY <1>2, <2>1, <2>2, <2>3
          DEF Asked, Asks, Uploading, Forwarded, Forwards, Answered, Answers
<1>7. ~Heard(s, id)' /\ call'[id] = "fresh"
  BY <1>2 DEF Heard, Fresh
<1>8. WasReset(s, id)' <=> WasReset(s, id)
  BY <1>4 DEF WasReset
<1>9. ~WasReset(s, id) => OneAnswers(down, s, id)
  BY <1>1 DEF InOnePlace
<1>10. CASE s = peer'
  BY <1>1, <1>4, <1>5, <1>6, <1>7, <1>8, <1>10 DEF InOnePlace
<1>11. CASE s # peer'
  BY <1>1, <1>4, <1>5, <1>7, <1>8, <1>11 DEF InOnePlace
<1> QED BY <1>10, <1>11
LEMMA PhoneTurn ==
    ASSUME IInv, OwedOnce,
           \/ SayHello
           \/ \E id \in Ids : \/ Ask(id) \/ Post(id) \/ Open(id) \/ Speak(id) \/ Leave(id)
                              \/ \E last \in BOOLEAN : Upload(id, last)
    PROVE  OwedOnce'
<1>1. ASSUME NEW b \in Ids, NEW from, NEW to, Turn(b, from, to),
             to \notin {"fresh", "answered", "twice"}, NEW last \in BOOLEAN,
             NEW t \in {"http-req", "http-post", "http-data", "ws-open", "ws-msg", "ws-close"},
             Say(t, b, last), t \in {"http-req", "http-post"} => from = {"fresh"}
      PROVE  OwedOnce'
  <2>1. /\ UNCHANGED peer /\ call' = [call EXCEPT ![b] = to] /\ call[b] \in from /\ joined
    BY <1>1 DEF Turn
  <2>2. peer' \in 1..MaxSessions
    BY <2>1, Bounds DEF IInv, Typed
  <2>3. [t |-> t, s |-> peer', id |-> b, last |-> last] \in Frame
    BY <1>1, <2>2 DEF Frame
  <2> QED BY <1>1, <2>1, <2>3, SayTurn
<1>2. ASSUME NEW id \in Ids,
             \/ Ask(id) \/ Post(id) \/ Open(id) \/ Speak(id) \/ Leave(id)
             \/ \E last \in BOOLEAN : Upload(id, last)
      PROVE  OwedOnce'
  <2>1. CASE Ask(id)
    BY <1>1, <2>1 DEF Ask
  <2>2. CASE Post(id)
    BY <1>1, <2>2 DEF Post
  <2>3. CASE Open(id)
    BY <1>1, <2>3 DEF Open
  <2>4. CASE Speak(id)
    BY <1>1, <2>4 DEF Speak
  <2>5. CASE Leave(id)
    <3>1. PICK from : Turn(id, from, "left")
      BY <2>5 DEF Leave
    <3> QED BY <1>1, <2>5, <3>1 DEF Leave
  <2>6. ASSUME NEW last \in BOOLEAN, Upload(id, last) PROVE OwedOnce'
    <3>1. PICK to : to \in {"asked", "uploading"} /\ Turn(id, {"uploading"}, to)
      BY <2>6 DEF Upload
    <3> QED BY <1>1, <2>6, <3>1 DEF Upload
  <2> QED BY <1>2, <2>1, <2>2, <2>3, <2>4, <2>5, <2>6
<1> QED BY <1>2, HelloTurn

LEMMA AskedIsHttpStep == ASSUME IInv, AskedIsHttp, [Next]_vars PROVE AskedIsHttp'
<1>1. \A j \in Job : /\ Closed(j).at \in {"asked", "begun"} => Closed(j) = j
                     /\ j.kind \in {"http", "ws"}
  BY DEF Closed, Job
<1>2. work \subseteq Job
  BY DEF IInv, Typed
<1>3. CASE UNCHANGED work
  BY <1>3 DEF AskedIsHttp
<1>4. ASSUME NEW j \in work, Done(j) \/ \E at : Become(j, at) /\ (at \in {"asked", "begun"} => j.kind = "http")
      PROVE  AskedIsHttp'
  <2>1. CASE Done(j)
    BY <2>1 DEF Done, AskedIsHttp
  <2>2. ASSUME NEW at, Become(j, at), at \in {"asked", "begun"} => j.kind = "http"
        PROVE  AskedIsHttp'
    <3>1. PICK n : n = [j EXCEPT !.at = at]
      OBVIOUS
    <3>2. n.at = at /\ n.kind = j.kind /\ work' = (work \ {j}) \cup {n}
      BY <1>2, <2>2, <3>1 DEF Become, Job
    <3> QED BY <2>2, <3>2 DEF AskedIsHttp
  <2> QED BY <1>4, <2>1, <2>2
<1>5. CASE work' = TornDown
  BY <1>1, <1>2, <1>5 DEF TornDown, AskedIsHttp
<1>6. CASE OnFrame
  <2>1. PICK f : \/ AdoptSession(f) \/ RejectHello(f) \/ HttpReq(f) \/ HttpData(f)
                 \/ WsOpen(f) \/ RefusePath(f) \/ WsMsg(f) \/ WsClose(f)
    BY <1>6 DEF OnFrame
  <2>2. \/ UNCHANGED work \/ work' = TornDown
        \/ work' = {IF j.s = session /\ j.id = f.id THEN Closed(j) ELSE j : j \in work}
        \/ \E n : work' = work \cup {n} /\ n.at = "cookie"
    <3>1. ASSUME NEW n, work' = work \cup {n}, n.at = "cookie"
          PROVE  \E m : work' = work \cup {m} /\ m.at = "cookie"
      BY <3>1
    <3>2. CASE HttpReq(f) \/ HttpData(f) \/ WsOpen(f)
      <4>1. PICK n, m : /\ n = [s |-> session, id |-> f.id, kind |-> "http", at |-> "cookie"]
                        /\ m = [s |-> session, id |-> f.id, kind |-> "ws", at |-> "cookie"]
        OBVIOUS
      <4>2. UNCHANGED work \/ work' = work \cup {n} \/ work' = work \cup {m}
        BY <3>2, <4>1 DEF HttpReq, HttpData, WsOpen, CloseTransport, Forward
      <4> QED BY <3>1, <4>1, <4>2
    <3>3. CASE WsClose(f)
      BY <3>3 DEF WsClose, CloseTransport
    <3>4. CASE AdoptSession(f) \/ RejectHello(f) \/ RefusePath(f) \/ WsMsg(f)
      BY <3>4 DEF AdoptSession, RejectHello, RefusePath, WsMsg, CloseTransport
    <3> QED BY <2>1, <3>2, <3>3, <3>4
  <2>3. CASE work' = {IF j.s = session /\ j.id = f.id THEN Closed(j) ELSE j : j \in work}
    BY <1>1, <1>2, <2>3 DEF AskedIsHttp
  <2>4. CASE \E n : work' = work \cup {n} /\ n.at = "cookie"
    BY <2>4 DEF AskedIsHttp
  <2> QED BY <1>3, <1>5, <2>2, <2>3, <2>4
<1>7. ASSUME NEW j \in work, Upstream(j) PROVE AskedIsHttp'
  <2>1. \/ UNCHANGED work \/ Done(j)
        \/ \E at : Become(j, at) /\ (at \in {"asked", "begun"} => j.kind = "http")
    BY <1>7 DEF Upstream, Cookie, Begin, Respond, Connected, Failed, Ended, Said, Reset,
           Gone, AskedIsHttp
  <2> QED BY <1>3, <1>4, <2>1
<1>8. UNCHANGED work \/ work' = TornDown \/ OnFrame \/ \E j \in work : Upstream(j)
  BY DEF Next, vars, SayHello, Ask, Post, Open, Speak, Leave, Upload, Say, Hear, Close
<1> QED BY <1>3, <1>5, <1>6, <1>7, <1>8

LEMMA OwedStep ==
    ASSUME IInv, AskedIsHttp, OwedOnce, [Next]_vars PROVE OwedOnce'
<1>1. CASE UNCHANGED vars
  <2>1. UNCHANGED <<up, work, session, requests, down, resets, peer, call>>
    BY <1>1 DEF vars, phone, maps
  <2> SUFFICES ASSUME NEW s \in 1..MaxSessions, NEW id \in Ids PROVE InOnePlace(s, id)'
    BY DEF OwedOnce
  <2>2. InOnePlace(s, id)
    BY DEF OwedOnce
  <2>3. (WasReset(s, id)' <=> WasReset(s, id)) /\ (Heard(s, id)' <=> Heard(s, id))
    BY <2>1 DEF WasReset, Heard
  <2> QED BY <2>1, <2>2, <2>3 DEF InOnePlace
<1>2. CASE Hear
  BY <1>2, HearTurn
<1>3. CASE OnFrame
  BY <1>3, FrameTurn
<1>4. CASE \E j \in work : Upstream(j)
  BY <1>4, UpstreamTurn
<1>5. CASE Close
  BY <1>5, CloseTurn
<1> QED BY <1>1, <1>2, <1>3, <1>4, <1>5, PhoneTurn DEF Next

-----------------------------------------------------------------------------
\* TypeOK: what Typed leaves out.
LEMMA SequenceLengths ==
    ASSUME NEW S, NEW q \in Seq(S)
    PROVE  /\ Len(q) \in Nat
           /\ \A e \in S : Len(Append(q, e)) = Len(q) + 1
           /\ q # <<>> => Len(Tail(q)) = Len(q) - 1
           /\ \A r \in Seq(S) : Len(q \o r) = Len(q) + Len(r)
OBVIOUS
LEMMA MessagesLength ==
    ASSUME NEW a \in 1..MaxSessions, NEW b \in Ids \cup {NoId}, NEW ts \in Seq(MessageNames)
    PROVE  Messages(a, b, ts) \in Seq(Message) /\ Len(Messages(a, b, ts)) = Len(ts)
<1>1. PICK m : m = Messages(a, b, ts)
  OBVIOUS
<1>2. m \in Seq(Message) /\ DOMAIN m = DOMAIN ts
  BY <1>1, MessagesTyped
<1>3. /\ DOMAIN m = 1..Len(m) /\ Len(m) \in Nat
      /\ DOMAIN ts = 1..Len(ts) /\ Len(ts) \in Nat
  BY <1>2
<1>4. PICK k \in Nat, n \in Nat : k = Len(m) /\ n = Len(ts) /\ 1..k = 1..n
  BY <1>2, <1>3
<1>5. k = n
  <2>1. ~(k < n) /\ ~(n < k)
    <3>1. k < n => n \in 1..n /\ n \notin 1..k
      OBVIOUS
    <3>2. n < k => k \in 1..k /\ k \notin 1..n
      OBVIOUS
    <3> QED BY <1>4, <3>1, <3>2
  <2> QED BY <2>1
<1> QED BY <1>1, <1>2, <1>4, <1>5

\* The bounds of the two queues.
Within(q) == Len(q) \in 0..MaxFlight

LEMMA SendWithin ==
    ASSUME IInv, Within(down), NEW a \in 1..MaxSessions, NEW b \in Ids,
           NEW ts \in Seq(MessageNames), Send(a, b, ts)
    PROVE  Within(down')
<1>1. CASE a # session
  BY <1>1 DEF Send
<1>2. CASE a = session
  <2>1. PICK m : m = Messages(a, b, ts)
    OBVIOUS
  <2>2. m \in Seq(Message) /\ Len(m) = Len(ts) /\ Len(ts) \in Nat
    BY <2>1, MessagesLength
  <2>3. /\ down' = down \o m /\ Len(down) + Len(ts) <= MaxFlight
        /\ down \in Seq(Message)
    BY <1>2, <2>1 DEF Send, IInv, Typed
  <2> QED BY <2>2, <2>3, SequenceLengths, Bounds DEF Within
<1> QED BY <1>1, <1>2

\* What TypeOK says of the variables that no answer depends on.
Flags ==
    /\ authenticated \in BOOLEAN /\ joined \in BOOLEAN
    /\ carrier \in {"open", "closing", "closed"}

Maps ==
    /\ DOMAIN requests \subseteq Ids /\ \A id \in DOMAIN requests : requests[id] \in 0..MaxBody
    /\ bridges \cup closedBridges \subseteq Ids

Counts ==
    /\ sent \in [Ids -> 0..MaxUpload]
    /\ resets \subseteq [s : 1..MaxSessions, id : Ids]

Rest == Within(up) /\ Within(down) /\ Flags /\ Maps /\ Counts

LEMMA TypedAndRest == Typed /\ Rest => TypeOK
BY DEF TypeOK, Typed, Rest, Within, Flags, Maps, Counts

LEMMA SameRest ==
    ASSUME Rest, UNCHANGED <<up, down, authenticated, joined, carrier, maps, sent, resets>>
    PROVE  Rest'
BY DEF Rest, Within, Flags, Maps, Counts, maps

LEMMA PhoneRest ==
    ASSUME IInv, Rest,
           \/ SayHello
           \/ \E id \in Ids : \/ Ask(id) \/ Post(id) \/ Open(id) \/ Speak(id) \/ Leave(id)
                              \/ \E last \in BOOLEAN : Upload(id, last)
    PROVE  Rest'
<1>1. /\ UNCHANGED <<down, carrier, maps, resets, authenticated>>
      /\ Len(up) < MaxFlight /\ \E f : up' = Append(up, f)
      /\ joined' \in {joined, FALSE}
      /\ \/ UNCHANGED sent \/ sent' = [id \in Ids |-> 0]
         \/ \E id \in Ids : sent[id] < MaxUpload /\ sent' = [sent EXCEPT ![id] = @ + 1]
  BY DEF SayHello, Ask, Post, Open, Speak, Leave, Upload, Turn, Say, phone
<1>2. Within(up')
  <2>1. up \in Seq(Frame) /\ Len(up) \in Nat
    BY DEF IInv, Typed
  <2>2. PICK f : up' = Append(up, f)
    BY <1>1
  <2>3. Len(up') = Len(up) + 1
    BY <2>1, <2>2
  <2> QED BY <1>1, <2>1, <2>3, Bounds DEF Within
<1>3. sent' \in [Ids -> 0..MaxUpload]
  BY <1>1, Bounds DEF Rest, Counts
<1> QED BY <1>1, <1>2, <1>3 DEF Rest, Within, Flags, Maps, Counts, maps

LEMMA HearRest == ASSUME IInv, Rest, Hear PROVE Rest'
<1>1. /\ UNCHANGED <<up, carrier, maps, resets, authenticated, sent>>
      /\ joined' \in BOOLEAN
      /\ down # <<>> /\ down' = Tail(down) /\ down \in Seq(Message)
  BY DEF Hear, Rest, Flags, IInv, Typed
<1>2. Len(down) \in Nat /\ Len(down') = Len(down) - 1 /\ Len(down') \in Nat
  <2>1. Len(Tail(down)) \in Nat
    BY <1>1, Removed, SequenceLengths
  <2> QED BY <1>1, <2>1, SequenceLengths
<1> QED BY <1>1, <1>2, Bounds DEF Rest, Within, Flags, Maps, Counts, maps

LEMMA CloseRest == ASSUME IInv, Rest, Close PROVE Rest'
<1>1. /\ UNCHANGED <<authenticated, joined, sent, resets>> /\ carrier' = "closed"
      /\ requests' = Nothing /\ bridges' = {} /\ closedBridges' = {}
      /\ up' = <<>> /\ down' = <<>>
  BY DEF Close, NoMaps, phone
<1> QED BY <1>1, Bounds DEF Rest, Within, Flags, Maps, Counts, Nothing

LEMMA FrameRest == ASSUME IInv, Rest, OnFrame PROVE Rest'
<1>1. PICK f : f = Head(up)
  OBVIOUS
<1>2. /\ up # <<>> /\ up' = Tail(up)
      /\ UNCHANGED <<authenticated, joined, sent, resets>>
      /\ \/ AdoptSession(f) \/ RejectHello(f)
         \/ /\ f.s = session
            /\ \/ HttpReq(f) \/ HttpData(f) \/ WsOpen(f) \/ RefusePath(f)
               \/ WsMsg(f) \/ WsClose(f)
  BY <1>1 DEF OnFrame, phone
<1>3. /\ f.s \in 1..MaxSessions /\ (f.t # Hello => f.id \in Ids)
  <2>1. f \in Frame /\ f = up[1] /\ 1 \in DOMAIN up
    BY <1>1, <1>2, Removed DEF IInv, Typed
  <2> QED BY <2>1 DEF Frame, IInv, FramesInOrder
<1>4. Within(up')
  <2>1. up \in Seq(Frame) /\ Len(up) \in Nat
    BY DEF IInv, Typed
  <2>2. Len(Tail(up)) \in Nat /\ Len(Tail(up)) = Len(up) - 1
    BY <1>2, <2>1, Removed, SequenceLengths
  <2> QED BY <1>2, <2>1, <2>2, Bounds DEF Rest, Within
<1>5. ASSUME Within(down'), Maps', carrier' \in {carrier, "closing"}
      PROVE  Rest'
  BY <1>2, <1>4, <1>5 DEF Rest, Flags, Counts
<1>6. ASSUME UNCHANGED <<down, maps>>, carrier' \in {carrier, "closing"}
      PROVE  Rest'
  BY <1>5, <1>6 DEF Rest, Within, Maps, maps
<1>7. CASE CloseTransport
  BY <1>6, <1>7 DEF CloseTransport
<1>8. ASSUME NEW t \in MessageNames, Len(down) < MaxFlight,
             down' = down \o Messages(f.s, NoId, <<t>>)
      PROVE  Within(down')
  <2>1. PICK m : m = Messages(f.s, NoId, <<t>>)
    OBVIOUS
  <2>2. <<t>> \in Seq(MessageNames) /\ Len(<<t>>) = 1
    OBVIOUS
  <2>3. m \in Seq(Message) /\ Len(m) = 1
    BY <1>3, <2>1, <2>2, MessagesLength
  <2>4. down \in Seq(Message) /\ down' = down \o m
    BY <1>8, <2>1 DEF IInv, Typed
  <2>5. Len(down) \in Nat /\ Len(down') = Len(down) + 1
    BY <2>3, <2>4, SequenceLengths
  <2> QED BY <1>8, <2>5, Bounds DEF Within
<1>9. ASSUME NEW t \in MessageNames, f.s = session, f.id \in Ids, Send(session, f.id, <<t>>)
      PROVE  Within(down')
  <2>1. <<t>> \in Seq(MessageNames) /\ session \in 1..MaxSessions
    BY <1>3, <1>9
  <2> QED BY <1>9, <2>1, SendWithin DEF Rest
<1>10. {"ack", "error", "http-res", "ws-err"} \subseteq MessageNames
  BY DEF MessageNames
<1>11. CASE AdoptSession(f)
  <2>1. Within(down')
    BY <1>8, <1>10, <1>11 DEF AdoptSession
  <2>2. Maps' /\ carrier' = carrier
    BY <1>11 DEF AdoptSession, NoMaps, Nothing, Maps
  <2> QED BY <1>5, <2>1, <2>2
<1>12. CASE RejectHello(f)
  <2>1. Within(down')
    BY <1>8, <1>10, <1>12 DEF RejectHello
  <2>2. Maps' /\ carrier' = carrier
    BY <1>12 DEF RejectHello, Rest, Maps, maps
  <2> QED BY <1>5, <2>1, <2>2
<1>13. CASE f.s = session /\ HttpReq(f) /\ ~CloseTransport
  <2>1. /\ UNCHANGED <<down, carrier, bridges, closedBridges>> /\ f.id \in Ids
        /\ \/ UNCHANGED requests
           \/ requests' = [i \in DOMAIN requests \cup {f.id} |->
                              IF i = f.id THEN 0 ELSE requests[i]]
    BY <1>3, <1>13 DEF HttpReq, Hello
  <2>2. Maps'
    BY <2>1, Bounds DEF Rest, Maps
  <2>3. Within(down')
    BY <2>1 DEF Rest, Within
  <2> QED BY <1>5, <2>1, <2>2, <2>3
<1>14. CASE f.s = session /\ HttpData(f) /\ ~CloseTransport
  <2>1. /\ UNCHANGED <<carrier, bridges, closedBridges>> /\ f.id \in Ids
        /\ f.id \in DOMAIN requests
        /\ UNCHANGED down \/ Send(session, f.id, <<"http-res">>)
        /\ \/ requests' = Without(requests, f.id)
           \/ /\ ~(requests[f.id] + 1 > MaxBody)
              /\ requests' = [requests EXCEPT ![f.id] = requests[f.id] + 1]
    BY <1>3, <1>14 DEF HttpData, Hello
  <2>2. Within(down')
    BY <1>9, <1>10, <1>14, <2>1 DEF Rest, Within
  <2>3. DOMAIN requests \subseteq Ids /\ \A id \in DOMAIN requests : requests[id] \in 0..MaxBody
    BY DEF Rest, Maps
  <2>4. DOMAIN requests' \subseteq Ids /\ \A id \in DOMAIN requests' : requests'[id] \in 0..MaxBody
    <3>1. CASE requests' = Without(requests, f.id)
      BY <2>3, <3>1 DEF Without
    <3>2. CASE /\ ~(requests[f.id] + 1 > MaxBody)
               /\ requests' = [requests EXCEPT ![f.id] = requests[f.id] + 1]
      <4>1. requests[f.id] + 1 \in 0..MaxBody
        BY <2>1, <2>3, <3>2, Bounds
      <4> QED BY <2>3, <3>2, <4>1
    <3> QED BY <2>1, <3>1, <3>2
  <2>5. Maps'
    BY <2>1, <2>4 DEF Rest, Maps
  <2> QED BY <1>5, <2>1, <2>2, <2>5
<1>15. CASE f.s = session /\ RefusePath(f)
  <2>1. f.id \in Ids
    BY <1>3, <1>15, SessionAssumption DEF RefusePath, Hello
  <2>2. Within(down')
    BY <1>9, <1>10, <1>15, <2>1 DEF RefusePath
  <2>3. Maps' /\ carrier' = carrier
    BY <1>15, <2>1 DEF RefusePath, Rest, Maps
  <2> QED BY <1>5, <2>2, <2>3
<1>16. CASE f.s = session /\ (WsOpen(f) \/ WsMsg(f)) /\ ~CloseTransport
  BY <1>6, <1>16 DEF WsOpen, WsMsg, maps
<1>17. CASE f.s = session /\ WsClose(f) /\ ~CloseTransport
  <2>1. CASE UNCHANGED <<down, carrier, maps>>
    BY <1>6, <2>1
  <2>2. CASE /\ bridges' = bridges \ {f.id} /\ closedBridges' = closedBridges \cup {f.id}
             /\ f.id \in bridges /\ UNCHANGED <<down, carrier, requests>>
    <3>1. Maps'
      BY <2>2 DEF Rest, Maps
    <3> QED BY <1>5, <2>2, <3>1 DEF Rest, Within
  <2> QED BY <1>17, <2>1, <2>2 DEF WsClose
<1> QED BY <1>2, <1>7, <1>11, <1>12, <1>13, <1>14, <1>15, <1>16, <1>17

LEMMA UpstreamRest == ASSUME IInv, Rest, NEW j \in work, Upstream(j) PROVE Rest'
<1>1. UNCHANGED <<authenticated, joined, sent, up, carrier>>
  BY DEF Upstream, phone
<1>2. j.s \in 1..MaxSessions /\ j.id \in Ids
  BY DEF IInv, Typed, Job
<1>3. \/ UNCHANGED down
      \/ \E t \in MessageNames : Send(j.s, j.id, <<t>>)
      \/ \E t, u \in MessageNames : Send(j.s, j.id, <<t, u>>)
  <2>1. {"http-res", "ws-ack", "ws-err", "ws-msg", "ws-close"} \subseteq MessageNames
    BY DEF MessageNames
  <2> QED BY <2>1 DEF Upstream, Cookie, Begin, Respond, Connected, Failed, Ended, Said, Reset, Gone
<1>4. Within(down')
  <2>1. CASE UNCHANGED down
    BY <2>1 DEF Rest, Within
  <2>2. ASSUME NEW ts \in Seq(MessageNames), Send(j.s, j.id, ts) PROVE Within(down')
    BY <1>2, <2>2, SendWithin DEF Rest
  <2>3. \A t, u \in MessageNames : <<t>> \in Seq(MessageNames) /\ <<t, u>> \in Seq(MessageNames)
    OBVIOUS
  <2> QED BY <1>3, <2>1, <2>2, <2>3
<1>5. /\ UNCHANGED requests
      /\ bridges' \subseteq bridges \cup {j.id} /\ closedBridges' \subseteq closedBridges \cup {j.id}
  BY DEF Upstream, Cookie, Begin, Respond, Connected, Failed, Ended, Said, Reset, Gone, maps
<1>6. Maps'
  BY <1>2, <1>5 DEF Rest, Maps
<1>7. resets' \subseteq [s : 1..MaxSessions, id : Ids]
  <2>1. UNCHANGED resets \/ resets' = resets \cup {[s |-> j.s, id |-> j.id]}
    BY DEF Upstream
  <2> QED BY <1>2, <2>1 DEF Rest, Counts
<1> QED BY <1>1, <1>4, <1>6, <1>7 DEF Rest, Within, Flags, Counts

\* Who has said no hello has asked for nothing.
Silent == peer = 0 => call = Fresh

LEMMA SilentStep == ASSUME IInv, Silent, [Next]_vars PROVE Silent'
<1> SUFFICES ASSUME peer' = 0 PROVE call' = Fresh
  BY DEF Silent
<1>1. ~SayHello
  <2>1. peer \in Nat
    BY Bounds DEF IInv, Typed
  <2>2. SayHello => peer' = peer + 1
    BY DEF SayHello
  <2>3. peer + 1 # 0
    BY <2>1
  <2> QED BY <2>2, <2>3
<1>2. peer = 0
  BY <1>1 DEF Next, vars, Ask, Post, Open, Speak, Leave, Upload, Turn, Hear, OnFrame,
         Upstream, Close, phone
<1>3. ~joined
  BY <1>2 DEF IInv, Typed
<1>4. CASE Hear
  <2>1. PICK m : m = Head(down) /\ m \in Message
    BY <1>4, Removed DEF Hear, IInv, Typed
  <2>2. m.s # peer
    BY <1>2, <2>1 DEF Message
  <2>3. UNCHANGED call
    BY <1>4, <2>1, <2>2 DEF Hear
  <2> QED BY <1>2, <2>3 DEF Silent
<1>5. UNCHANGED call \/ Hear
  BY <1>1, <1>3 DEF Next, vars, Ask, Post, Open, Speak, Leave, Upload, Turn, OnFrame,
         Upstream, Close, phone
<1> QED BY <1>2, <1>4, <1>5 DEF Silent

LEMMA RestStep == ASSUME IInv, Rest, [Next]_vars PROVE Rest'
<1>1. CASE UNCHANGED vars
  BY <1>1, SameRest DEF vars, phone
<1> QED BY <1>1, PhoneRest, HearRest, FrameRest, UpstreamRest, CloseRest DEF Next

LEMMA OwedInit == Init => OwedOnce /\ AskedIsHttp /\ Silent /\ Rest
<1> SUFFICES ASSUME Init PROVE OwedOnce /\ AskedIsHttp /\ Silent /\ Rest
  OBVIOUS
<1>1. AskedIsHttp /\ Silent
  BY DEF Init, AskedIsHttp, Silent
<1>2. Rest
  BY Bounds DEF Init, Rest, Within, Flags, Maps, Counts, Nothing
<1>3. OwedOnce
  BY DEF Init, OwedOnce, InOnePlace, OneAsks, OneForwards, OneAnswers, Asked, Uploading,
         Forwarded, Answered, Heard, Fresh, Nothing
<1> QED BY <1>1, <1>2, <1>3

\* Whatever a phone asks for is answered at most once in its session, for any
\* number of ids, hellos and frames under way, and any limits: a request that
\* is refused, forwarded, too long or failed upstream comes to one end only
\* (forwardRequest and onHttpData of tunnel-server.ts).  The exception is a
\* response that is reset in its middle.
THEOREM SessionAnsweredOnce == Spec => []AnsweredOnce
<1>1. Init => IInv /\ OwedOnce /\ AskedIsHttp /\ Silent /\ Rest
  BY SessionInit, OwedInit
<1>2. IInv /\ OwedOnce /\ AskedIsHttp /\ Silent /\ Rest /\ [Next]_vars
      => (IInv /\ OwedOnce /\ AskedIsHttp /\ Silent /\ Rest)'
  BY SessionNext, OwedStep, AskedIsHttpStep, SilentStep, RestStep
<1>3. IInv /\ OwedOnce /\ AskedIsHttp /\ Silent /\ Rest => AnsweredOnce
  <2> SUFFICES ASSUME IInv, OwedOnce, Silent, Rest PROVE AnsweredOnce
    OBVIOUS
  <2>1. TypeOK
    BY TypedAndRest DEF IInv
  <2>2. ASSUME NEW id \in Ids, call[id] = "twice"
        PROVE  [s |-> peer, id |-> id] \in resets
    <3>1. CASE peer = 0
      BY <2>2, <3>1 DEF Silent, Fresh
    <3>2. CASE peer # 0
      <4>1. PICK s \in 1..MaxSessions : s = peer
        BY <3>2, Bounds DEF IInv, Typed
      <4> QED BY <2>2, <4>1 DEF OwedOnce, InOnePlace, WasReset
    <3> QED BY <3>1, <3>2
  <2> QED BY <2>1, <2>2 DEF AnsweredOnce
<1> QED BY <1>1, <1>2, <1>3, PTL DEF Spec
-----------------------------------------------------------------------------
(***************************************************************************)
(* KeepsCarrier.  Each frame under way finds in the maps what it needs: one *)
(* that asks for something finds nothing of its id, what is uploaded finds  *)
(* its request, or comes after it, and what is said to a bridge finds the   *)
(* bridge, or that it was closed.  The frames of an upload are numbered,    *)
(* for only the last may be the one that is too long.                      *)
(***************************************************************************)

Openings == {"http-req", "http-post", "ws-open"}

\* The bridges the session knows of; and all ids it has something of.
Known == bridges \cup closedBridges
Touched == DOMAIN requests \cup Known \cup {j.id : j \in {k \in work : k.s = session}}

\* The uploads the Host has, or will have when it comes to the frame n.
Posted(n) ==
    DOMAIN requests \cup
        {up[k].id : k \in {i \in DOMAIN up : i < n /\ up[i].t = "http-post"}}

\* All frames are of the session in force, but for hellos of later ones.
Placed ==
    /\ joined => session = peer
    /\ \A i \in DOMAIN up :
          /\ up[i].t = Hello => session < up[i].s /\ up[i].id = NoId
          /\ up[i].t # Hello => up[i].s = session
          /\ up[i].t = "http-req" => up[i].last
          /\ up[i].t = "http-post" => ~up[i].last
    /\ \A i, k \in DOMAIN up : i < k /\ up[k].t = Hello => up[i].s < up[k].s
    /\ \A j \in work : j.s <= session

FirstIsFirst ==
    \A i \in DOMAIN up : up[i].t \in Openings =>
        /\ up[i].id \notin Touched
        /\ \A k \in DOMAIN up : k < i => up[k].id # up[i].id

FreshIsUntouched ==
    \A id \in Ids : call[id] = "fresh" /\ session = peer =>
        id \notin Touched /\ \A i \in DOMAIN up : up[i].id # id

UploadsHeard ==
    /\ \A i \in DOMAIN up : up[i].t = "http-data" =>
          /\ up[i].id \in Posted(i)
          /\ \A k \in DOMAIN up :
                k < i /\ up[k].t = "http-data" /\ up[k].id = up[i].id => ~up[k].last
    /\ \A id \in Ids : call[id] = "uploading" =>
          /\ session = peer /\ id \in Posted(Len(up) + 1)
          /\ \A k \in DOMAIN up : up[k].t = "http-data" /\ up[k].id = id => ~up[k].last

BridgesKnown ==
    /\ \A i \in DOMAIN up : up[i].t \in {"ws-msg", "ws-close"} => up[i].id \in Known
    /\ \A i \in DOMAIN down :
          down[i].t = "ws-ack" /\ down[i].s = session => down[i].id \in Known
    /\ \A id \in Ids : call[id] = "open" => session = peer /\ id \in Known

Numbered(g) ==
    /\ \A i \in DOMAIN up : up[i].t = "http-data" =>
          /\ g[i] \in 1..MaxUpload /\ (~up[i].last => g[i] < MaxUpload)
          /\ up[i].id \in DOMAIN requests => requests[up[i].id] < g[i]
          /\ call[up[i].id] = "uploading" => g[i] <= sent[up[i].id]
          /\ \A k \in DOMAIN up :
                k < i /\ up[k].t = "http-data" /\ up[k].id = up[i].id => g[k] < g[i]
    /\ \A id \in Ids :
          call[id] = "uploading" /\ id \in DOMAIN requests => requests[id] <= sent[id]

Counted == \E g : Numbered(g)

Orderly ==
    /\ Placed /\ FirstIsFirst /\ FreshIsUntouched
    /\ UploadsHeard /\ BridgesKnown /\ Counted

Lawful ==
    /\ carrier \in {"open", "closed"}
    /\ carrier = "closed" => up = <<>>
    /\ carrier = "open" => Orderly

-----------------------------------------------------------------------------
\* The first frame is taken: the others move up.
LEMMA Shifted ==
    ASSUME NEW q \in Seq(Frame), q # <<>>
    PROVE  /\ Tail(q) \in Seq(Frame) /\ 1 \in DOMAIN q /\ Head(q) = q[1]
           /\ Len(q) \in Nat /\ Len(Tail(q)) \in Nat /\ Len(q) = Len(Tail(q)) + 1
           /\ DOMAIN q = 1..Len(q)
           /\ \A i \in DOMAIN Tail(q) :
                 /\ i \in Nat /\ i + 1 \in DOMAIN q /\ 1 < i + 1
                 /\ Tail(q)[i] = q[i + 1]
           /\ \A k \in DOMAIN q : k # 1 =>
                 k \in Nat /\ k - 1 \in DOMAIN Tail(q) /\ Tail(q)[k - 1] = q[k]
<1>1. /\ Tail(q) \in Seq(Frame) /\ Head(q) = q[1]
      /\ Len(q) \in Nat /\ Len(q) # 0 /\ Len(Tail(q)) = Len(q) - 1
      /\ DOMAIN q = 1..Len(q) /\ DOMAIN Tail(q) = 1..(Len(q) - 1)
      /\ \A i \in 1..(Len(q) - 1) : Tail(q)[i] = q[i + 1]
    OBVIOUS
<1> QED BY <1>1

\* A Host step that leaves the frames alone.
LEMMA QuietTurn ==
    ASSUME IInv, Orderly, UNCHANGED <<phone, up, session, requests>>,
           Known \subseteq Known', Touched' \subseteq Touched,
           \A j \in work' : \E k \in work : k.s = j.s,
           \A i \in DOMAIN down' :
              down'[i].t = "ws-ack" /\ down'[i].s = session => down'[i].id \in Known'
    PROVE  Orderly'
<1>1. UNCHANGED <<peer, joined, call, sent>>
    BY DEF phone
<1>2. Placed'
    BY <1>1 DEF Orderly, Placed
<1>3. FirstIsFirst' /\ FreshIsUntouched'
    BY <1>1 DEF Orderly, FirstIsFirst, FreshIsUntouched
<1>4. UploadsHeard'
    BY <1>1 DEF Orderly, UploadsHeard, Posted
<1>5. BridgesKnown'
    BY <1>1 DEF Orderly, BridgesKnown
<1>6. Counted'
    BY <1>1 DEF Orderly, Counted, Numbered
<1> QED BY <1>2, <1>3, <1>4, <1>5, <1>6 DEF Orderly

\* A Host step that takes the first frame f: it touches nothing but f.id, and
\* the request of f.id as f says.
Taken(f) ==
    /\ up # <<>> /\ f = Head(up) /\ up' = Tail(up)
    /\ UNCHANGED <<phone, session>>
    /\ Known \subseteq Known'
    /\ Touched' \subseteq Touched \cup {f.id}
    /\ \A j \in work' : j.s <= session
    /\ \A id \in DOMAIN requests :
          id \in DOMAIN requests' \/ (f.t = "http-data" /\ f.id = id /\ f.last)
    /\ f.t = "http-post" => f.id \in DOMAIN requests'
    /\ \A id \in DOMAIN requests' :
          \/ id \in DOMAIN requests /\ requests'[id] = requests[id]
          \/ f.t = "http-post" /\ f.id = id /\ requests'[id] = 0
          \/ /\ f.t = "http-data" /\ f.id = id
             /\ id \in DOMAIN requests /\ requests'[id] = requests[id] + 1
    /\ \A i \in DOMAIN down' :
          down'[i].t = "ws-ack" /\ down'[i].s = session => down'[i].id \in Known'

LEMMA TakenTurn ==
    ASSUME IInv, Rest, Orderly, NEW f, Taken(f)
    PROVE  Orderly'
<1>1. UNCHANGED <<peer, joined, call, sent, session>>
    BY DEF Taken, phone
<1>2. /\ up' \in Seq(Frame) /\ 1 \in DOMAIN up /\ f = up[1]
      /\ Len(up) \in Nat /\ Len(up') \in Nat /\ Len(up) = Len(up') + 1
      /\ DOMAIN up = 1..Len(up)
      /\ \A i \in DOMAIN up' :
            i \in Nat /\ i + 1 \in DOMAIN up /\ 1 < i + 1 /\ up'[i] = up[i + 1]
      /\ \A k \in DOMAIN up : k # 1 =>
            k \in Nat /\ k - 1 \in DOMAIN up' /\ up'[k - 1] = up[k]
    BY Shifted DEF Taken, IInv, Typed
<1>3. \A i, k \in DOMAIN up' : k < i => k + 1 < i + 1
    BY <1>2
<1>4. Placed'
    <2>1. \A i, k \in DOMAIN up' : i < k /\ up'[k].t = Hello => up'[i].s < up'[k].s
        BY <1>2, <1>3 DEF Orderly, Placed
    <2>2. \A i \in DOMAIN up' :
             /\ up'[i].t = Hello => session < up'[i].s /\ up'[i].id = NoId
             /\ up'[i].t # Hello => up'[i].s = session
             /\ up'[i].t = "http-req" => up'[i].last
             /\ up'[i].t = "http-post" => ~up'[i].last
        BY <1>2 DEF Orderly, Placed
    <2> QED BY <1>1, <2>1, <2>2 DEF Orderly, Placed, Taken
<1>5. FirstIsFirst'
    <2> SUFFICES ASSUME NEW i \in DOMAIN up', up'[i].t \in Openings
                 PROVE  /\ up'[i].id \notin Touched'
                        /\ \A k \in DOMAIN up' : k < i => up'[k].id # up'[i].id
        BY DEF FirstIsFirst
    <2>1. /\ up'[i].id \notin Touched
          /\ \A k \in DOMAIN up : k < i + 1 => up[k].id # up'[i].id
        BY <1>2 DEF Orderly, FirstIsFirst
    <2>2. up'[i].id # f.id
        BY <1>2, <2>1
    <2> QED BY <1>2, <1>3, <2>1, <2>2 DEF Taken
<1>6. FreshIsUntouched'
    <2> SUFFICES ASSUME NEW id \in Ids, call[id] = "fresh", session = peer
                 PROVE  id \notin Touched' /\ \A i \in DOMAIN up' : up'[i].id # id
        BY <1>1 DEF FreshIsUntouched
    <2>1. id \notin Touched /\ \A i \in DOMAIN up : up[i].id # id
        BY DEF Orderly, FreshIsUntouched
    <2>2. id # f.id
        BY <1>2, <2>1
    <2> QED BY <1>2, <2>1, <2>2 DEF Taken
<1>7. ASSUME NEW id, NEW n \in Nat, id \in Posted(n + 1),
             ~(f.t = "http-data" /\ f.id = id /\ f.last)
      PROVE  id \in Posted(n)'
    <2>1. CASE id \in DOMAIN requests
        BY <1>7, <2>1 DEF Taken, Posted
    <2>2. ASSUME NEW k \in DOMAIN up, k < n + 1, up[k].t = "http-post", up[k].id = id
          PROVE  id \in Posted(n)'
        <3>1. CASE k = 1
            BY <1>2, <2>2, <3>1 DEF Taken, Posted
        <3>2. CASE k # 1
            <4>1. /\ k - 1 \in DOMAIN up' /\ k - 1 < n
                  /\ up'[k - 1].t = "http-post" /\ up'[k - 1].id = id
                BY <1>2, <2>2, <3>2
            <4> QED BY <4>1 DEF Posted
        <3> QED BY <3>1, <3>2
    <2> QED BY <1>7, <2>1, <2>2 DEF Posted
<1>8. UploadsHeard'
    <2>1. ASSUME NEW i \in DOMAIN up', up'[i].t = "http-data"
          PROVE  /\ up'[i].id \in Posted(i)'
                 /\ \A k \in DOMAIN up' :
                       k < i /\ up'[k].t = "http-data" /\ up'[k].id = up'[i].id => ~up'[k].last
        <3>1. /\ up'[i].id \in Posted(i + 1)
              /\ \A k \in DOMAIN up :
                    k < i + 1 /\ up[k].t = "http-data" /\ up[k].id = up'[i].id => ~up[k].last
            BY <1>2, <2>1 DEF Orderly, UploadsHeard
        <3>2. ~(f.t = "http-data" /\ f.id = up'[i].id /\ f.last)
            BY <1>2, <3>1
        <3>3. PICK id : id = up'[i].id
            OBVIOUS
        <3>4. id \in Posted(i)'
            BY <1>2, <1>7, <3>1, <3>2, <3>3
        <3> QED BY <1>2, <1>3, <3>1, <3>3, <3>4
    <2>2. ASSUME NEW id \in Ids, call[id] = "uploading"
          PROVE  /\ session = peer /\ id \in Posted(Len(up) + 1)'
                 /\ \A k \in DOMAIN up' : up'[k].t = "http-data" /\ up'[k].id = id => ~up'[k].last
        <3>1. /\ session = peer /\ id \in Posted(Len(up) + 1)
              /\ \A k \in DOMAIN up : up[k].t = "http-data" /\ up[k].id = id => ~up[k].last
            BY <2>2 DEF Orderly, UploadsHeard
        <3>2. PICK n \in Nat : n = Len(up)
            BY <1>2
        <3>3. id \in Posted(n)'
            BY <1>2, <1>7, <3>1, <3>2
        <3>4. n = Len(up') + 1
            BY <1>2, <3>2
        <3>5. id \in Posted(Len(up) + 1)'
            BY <3>3, <3>4 DEF Posted
        <3> QED BY <1>2, <3>1, <3>5
    <2> QED BY <1>1, <2>1, <2>2 DEF UploadsHeard
<1>9. BridgesKnown'
    <2>1. \A i \in DOMAIN up' : up'[i].t \in {"ws-msg", "ws-close"} => up'[i].id \in Known'
        BY <1>2 DEF Taken, Orderly, BridgesKnown
    <2> QED BY <1>1, <2>1 DEF Taken, Orderly, BridgesKnown
<1>10. Counted'
    <2>1. PICK g : Numbered(g)
        BY DEF Orderly, Counted
    <2>2. PICK h : h = [i \in DOMAIN up' |-> g[i + 1]]
        OBVIOUS
    <2>3. \A id \in DOMAIN requests : requests[id] \in Nat
        BY Bounds DEF Rest, Maps
    <2>4. \A id \in Ids : sent[id] \in Nat
        BY Bounds DEF Rest, Counts
    <2>5. f.t = "http-data" =>
             /\ g[1] \in Nat /\ (f.id \in DOMAIN requests => requests[f.id] < g[1])
             /\ call[f.id] = "uploading" => g[1] <= sent[f.id]
        BY <1>2, <2>1, Bounds DEF Numbered
    <2>6. ASSUME NEW i \in DOMAIN up', up'[i].t = "http-data"
          PROVE  /\ h[i] \in 1..MaxUpload /\ (~up'[i].last => h[i] < MaxUpload)
                 /\ up'[i].id \in DOMAIN requests' => requests'[up'[i].id] < h[i]
                 /\ call[up'[i].id] = "uploading" => h[i] <= sent[up'[i].id]
                 /\ \A k \in DOMAIN up' :
                       k < i /\ up'[k].t = "http-data" /\ up'[k].id = up'[i].id => h[k] < h[i]
        <3>1. PICK id : id = up'[i].id
            OBVIOUS
        <3>2. /\ h[i] = g[i + 1] /\ i + 1 \in DOMAIN up /\ up[i + 1] = up'[i]
              /\ \A k \in DOMAIN up' : h[k] = g[k + 1]
            BY <1>2, <2>2
        <3>3. /\ h[i] \in 1..MaxUpload /\ (~up'[i].last => h[i] < MaxUpload)
              /\ id \in DOMAIN requests => requests[id] < h[i]
              /\ call[id] = "uploading" => h[i] <= sent[id]
              /\ \A k \in DOMAIN up :
                    k < i + 1 /\ up[k].t = "http-data" /\ up[k].id = id => g[k] < h[i]
            BY <2>1, <2>6, <3>1, <3>2 DEF Numbered
        <3>4. \A k \in DOMAIN up' : k < i /\ up'[k].t = "http-data" /\ up'[k].id = id => h[k] < h[i]
            BY <1>2, <1>3, <3>2, <3>3
        <3>5. h[i] \in Nat /\ 0 < h[i]
            BY <3>3, Bounds
        <3>6. id \in DOMAIN requests' => requests'[id] < h[i]
            <4>1. CASE f.t = "http-data" /\ f.id = id /\ id \in DOMAIN requests
                <5>1. g[1] < h[i]
                    BY <1>2, <3>3, <3>5, <4>1
                <5> QED BY <2>3, <2>5, <3>3, <3>5, <4>1, <5>1 DEF Taken
            <4>2. CASE ~(f.t = "http-data" /\ f.id = id /\ id \in DOMAIN requests)
                BY <3>3, <3>5, <4>2 DEF Taken
            <4> QED BY <4>1, <4>2
        <3> QED BY <3>1, <3>3, <3>4, <3>6
    <2>7. ASSUME NEW id \in Ids, call[id] = "uploading", id \in DOMAIN requests'
          PROVE  requests'[id] <= sent[id]
        <3>1. id \in DOMAIN requests => requests[id] <= sent[id]
            BY <2>1, <2>7 DEF Numbered
        <3> QED BY <2>3, <2>4, <2>5, <2>7, <3>1 DEF Taken
    <2>8. Numbered(h)'
        BY <1>1, <2>6, <2>7 DEF Numbered
    <2> QED BY <2>8 DEF Counted
<1> QED BY <1>4, <1>5, <1>6, <1>8, <1>9, <1>10 DEF Orderly

-----------------------------------------------------------------------------
\* The phone adds the frame f, which its call allows, and the call goes on.
Added(f) ==
    /\ joined /\ f \in Frame /\ up' = Append(up, f)
    /\ f.s = peer /\ f.id \in Ids /\ f.t # Hello
    /\ UNCHANGED <<peer, joined, down, session, requests, bridges, closedBridges, work>>
    /\ \A id \in Ids : id # f.id => call'[id] = call[id] /\ sent'[id] = sent[id]
    /\ f.t \in Openings => call[f.id] = "fresh" /\ (f.last <=> f.t = "http-req")
    /\ f.t = "http-data" =>
          /\ call[f.id] = "uploading" /\ sent'[f.id] = sent[f.id] + 1
          /\ sent'[f.id] <= MaxUpload /\ (~f.last => sent'[f.id] < MaxUpload)
    /\ f.t \in {"ws-msg", "ws-close"} => call[f.id] = "open"
    /\ call'[f.id] # "fresh" /\ (call'[f.id] = "open" => call[f.id] = "open")
    /\ call'[f.id] = "uploading" => \/ f.t = "http-post"
                                    \/ f.t = "http-data" /\ ~f.last

LEMMA AddedTurn ==
    ASSUME IInv, Rest, Orderly, NEW f, Added(f)
    PROVE  Orderly'
<1>1. /\ UNCHANGED <<peer, joined, down, session, requests, bridges, closedBridges, work>>
      /\ Known' = Known /\ Touched' = Touched /\ session = peer
    BY DEF Added, Known, Touched, Orderly, Placed
<1>2. PICK n \in Nat : n = Len(up)
    BY DEF IInv, Typed
<1>3. /\ DOMAIN up = 1..n /\ DOMAIN up' = 1..(n + 1) /\ Len(up') = n + 1
      /\ \A i \in 1..n : up'[i] = up[i]
      /\ up'[n + 1] = f
    <2>1. up \in Seq(Frame) /\ f \in Frame /\ up' = Append(up, f)
        BY DEF IInv, Typed, Added
    <2> QED BY <1>2, <2>1
<1>4. \A i \in DOMAIN up' : i = n + 1 \/ (i \in DOMAIN up /\ i < n + 1)
    BY <1>3
<1>5. \A i \in DOMAIN up : i \in DOMAIN up' /\ i < n + 1 /\ i \in Nat
    BY <1>3
<1>6. f.t # Hello /\ f.s = peer /\ f.id \in Ids /\ joined
    BY DEF Added
<1>7. Placed'
    <2>1. f.t \in {"http-req", "http-post"} => (f.last <=> f.t = "http-req")
        BY DEF Added, Openings
    <2>2. \A i \in DOMAIN up' :
             /\ up'[i].t = Hello => session < up'[i].s /\ up'[i].id = NoId
             /\ up'[i].t # Hello => up'[i].s = session
             /\ up'[i].t = "http-req" => up'[i].last
             /\ up'[i].t = "http-post" => ~up'[i].last
        BY <1>1, <1>3, <1>4, <1>6, <2>1 DEF Orderly, Placed
    <2>3. \A i, k \in DOMAIN up' : i < k /\ up'[k].t = Hello => up'[i].s < up'[k].s
        BY <1>3, <1>4, <1>5, <1>6 DEF Orderly, Placed
    <2> QED BY <1>1, <2>2, <2>3 DEF Orderly, Placed
<1>8. FirstIsFirst'
    <2>1. f.t \in Openings =>
             f.id \notin Touched /\ \A k \in DOMAIN up : up[k].id # f.id
        BY <1>1 DEF Added, Orderly, FreshIsUntouched
    <2> QED BY <1>1, <1>3, <1>4, <1>5, <2>1 DEF Orderly, FirstIsFirst
<1>9. FreshIsUntouched'
    BY <1>1, <1>3, <1>4 DEF Added, Orderly, FreshIsUntouched
<1>10. \A k \in Nat : Posted(k) \subseteq Posted(k)'
    BY <1>1, <1>3, <1>5 DEF Posted
<1>11. f.t = "http-post" => f.id \in Posted(n + 2)'
    BY <1>1, <1>3 DEF Posted
<1>12. UploadsHeard'
    <2>1. ASSUME NEW i \in DOMAIN up', up'[i].t = "http-data"
          PROVE  /\ up'[i].id \in Posted(i)'
                 /\ \A k \in DOMAIN up' :
                       k < i /\ up'[k].t = "http-data" /\ up'[k].id = up'[i].id => ~up'[k].last
        <3>1. CASE i \in DOMAIN up
            <4>1. /\ up[i].id \in Posted(i)
                  /\ \A k \in DOMAIN up :
                        k < i /\ up[k].t = "http-data" /\ up[k].id = up[i].id => ~up[k].last
                BY <1>3, <2>1, <3>1 DEF Orderly, UploadsHeard
            <4>2. \A k \in DOMAIN up' : k < i => k \in DOMAIN up
                BY <1>3, <3>1
            <4> QED BY <1>3, <1>5, <1>10, <3>1, <4>1, <4>2
        <3>2. CASE i = n + 1
            <4>1. call[f.id] = "uploading"
                BY <1>3, <2>1, <3>2 DEF Added
            <4>2. /\ f.id \in Posted(n + 1)
                  /\ \A k \in DOMAIN up : up[k].t = "http-data" /\ up[k].id = f.id => ~up[k].last
                BY <1>2, <1>6, <4>1 DEF Orderly, UploadsHeard
            <4>3. \A k \in DOMAIN up' : k < n + 1 => k \in DOMAIN up
                BY <1>3
            <4> QED BY <1>3, <1>10, <3>2, <4>2, <4>3
        <3> QED BY <1>4, <3>1, <3>2
    <2>2. ASSUME NEW id \in Ids, call'[id] = "uploading"
          PROVE  /\ id \in Posted(n + 2)'
                 /\ \A k \in DOMAIN up' : up'[k].t = "http-data" /\ up'[k].id = id => ~up'[k].last
        <3>1. CASE call[id] = "uploading" /\ (f.id = id => f.t = "http-data" /\ ~f.last)
            <4>1. /\ id \in Posted(n + 1)
                  /\ \A k \in DOMAIN up : up[k].t = "http-data" /\ up[k].id = id => ~up[k].last
                BY <1>2, <3>1 DEF Orderly, UploadsHeard
            <4>2. id \in Posted(n + 2)'
                BY <1>1, <1>3, <1>5, <4>1 DEF Posted
            <4> QED BY <1>3, <1>4, <3>1, <4>1, <4>2
        <3>2. CASE f.id = id /\ f.t = "http-post"
            <4>1. \A k \in DOMAIN up : up[k].id # id
                BY <1>1, <3>2 DEF Added, Openings, Orderly, FreshIsUntouched
            <4> QED BY <1>3, <1>4, <1>11, <3>2, <4>1
        <3> QED BY <2>2, <3>1, <3>2 DEF Added
    <2>3. \A id \in Ids : call'[id] = "uploading" =>
             /\ session' = peer' /\ id \in Posted(Len(up) + 1)'
             /\ \A k \in DOMAIN up' : up'[k].t = "http-data" /\ up'[k].id = id => ~up'[k].last
        <3>1. n + 2 = Len(up') + 1
            BY <1>3
        <3> QED BY <1>1, <2>2, <3>1 DEF Posted
    <2> QED BY <2>1, <2>3 DEF UploadsHeard
<1>13. BridgesKnown'
    BY <1>1, <1>3, <1>4 DEF Added, Orderly, BridgesKnown
<1>14. Counted'
    <2>1. PICK g : Numbered(g)
        BY DEF Orderly, Counted
    <2>2. PICK h : h = [i \in 1..(n + 1) |-> IF i = n + 1 THEN sent'[f.id] ELSE g[i]]
        OBVIOUS
    <2>3. /\ \A i \in DOMAIN up : h[i] = g[i] /\ up'[i] = up[i]
          /\ h[n + 1] = sent'[f.id]
        BY <1>3, <1>5, <2>2
    <2>4. /\ \A id \in Ids : sent[id] \in Nat
          /\ \A id \in DOMAIN requests : id \in Ids /\ requests[id] \in Nat
        BY Bounds DEF Rest, Counts, Maps
    <2>5. ASSUME NEW i \in DOMAIN up', up'[i].t = "http-data"
          PROVE  /\ h[i] \in 1..MaxUpload /\ (~up'[i].last => h[i] < MaxUpload)
                 /\ up'[i].id \in DOMAIN requests => requests[up'[i].id] < h[i]
                 /\ call'[up'[i].id] = "uploading" => h[i] <= sent'[up'[i].id]
                 /\ \A k \in DOMAIN up' :
                       k < i /\ up'[k].t = "http-data" /\ up'[k].id = up'[i].id => h[k] < h[i]
        <3>1. CASE i \in DOMAIN up
            <4>1. PICK id \in Ids : id = up[i].id
                BY <1>3, <2>5, <3>1 DEF IInv, FramesInOrder, Hello
            <4>2. /\ h[i] \in 1..MaxUpload /\ (~up[i].last => h[i] < MaxUpload)
                  /\ id \in DOMAIN requests => requests[id] < h[i]
                  /\ call[id] = "uploading" => h[i] <= sent[id]
                  /\ \A k \in DOMAIN up :
                        k < i /\ up[k].t = "http-data" /\ up[k].id = id => g[k] < h[i]
                BY <1>3, <2>1, <2>3, <2>5, <3>1, <4>1 DEF Numbered
            <4>3. \A k \in DOMAIN up' : k < i => k \in DOMAIN up
                BY <1>3, <3>1
            <4>4. call'[id] = "uploading" => h[i] <= sent'[id]
                <5>1. CASE id # f.id
                    BY <4>1, <4>2, <5>1 DEF Added
                <5>2. CASE id = f.id /\ f.t \in Openings
                    BY <1>1, <3>1, <4>1, <5>2 DEF Added, Orderly, FreshIsUntouched
                <5>3. CASE id = f.id /\ f.t = "http-data"
                    <6>1. h[i] <= sent[id] /\ sent'[id] = sent[id] + 1
                        BY <4>2, <5>3 DEF Added
                    <6> QED BY <2>4, <4>2, <6>1, Bounds
                <5> QED BY <5>1, <5>2, <5>3 DEF Added, Openings
            <4> QED BY <1>3, <2>3, <3>1, <4>1, <4>2, <4>3, <4>4
        <3>2. CASE i = n + 1
            <4>1. /\ call[f.id] = "uploading" /\ h[i] = sent[f.id] + 1
                  /\ h[i] <= MaxUpload /\ (~f.last => h[i] < MaxUpload)
                  /\ f.id \in Ids /\ h[i] = sent'[f.id] /\ up'[i] = f
                BY <1>3, <1>6, <2>3, <2>5, <3>2 DEF Added
            <4>2. sent[f.id] \in Nat /\ h[i] \in 1..MaxUpload
                BY <2>4, <4>1, Bounds
            <4>3. f.id \in DOMAIN requests => requests[f.id] < h[i]
                BY <2>1, <2>4, <4>1, <4>2 DEF Numbered
            <4>4. \A k \in DOMAIN up' : k < i => k \in DOMAIN up
                BY <1>3, <3>2
            <4>5. \A k \in DOMAIN up : up[k].t = "http-data" /\ up[k].id = f.id =>
                     h[k] \in 1..MaxUpload /\ h[k] <= sent[f.id]
                BY <2>1, <2>3, <4>1 DEF Numbered
            <4>6. \A k \in DOMAIN up : up[k].t = "http-data" /\ up[k].id = f.id => h[k] < h[i]
                BY <4>1, <4>2, <4>5, Bounds
            <4> QED BY <2>3, <4>1, <4>2, <4>3, <4>4, <4>6
        <3> QED BY <1>4, <3>1, <3>2
    <2>6. ASSUME NEW id \in Ids, call'[id] = "uploading", id \in DOMAIN requests
          PROVE  requests[id] <= sent'[id]
        <3>1. CASE call[id] = "uploading" /\ (id = f.id => f.t = "http-data")
            <4>1. requests[id] <= sent[id]
                BY <2>1, <2>6, <3>1 DEF Numbered
            <4>2. sent'[id] = sent[id] \/ sent'[id] = sent[id] + 1
                BY <3>1 DEF Added
            <4> QED BY <2>4, <2>6, <4>1, <4>2
        <3>2. CASE id = f.id /\ f.t = "http-post"
            BY <1>1, <2>6, <3>2 DEF Added, Openings, Orderly, FreshIsUntouched, Touched
        <3> QED BY <2>6, <3>1, <3>2 DEF Added
    <2>7. Numbered(h)'
        BY <1>1, <2>5, <2>6 DEF Numbered
    <2> QED BY <2>7 DEF Counted
<1> QED BY <1>7, <1>8, <1>9, <1>12, <1>13, <1>14 DEF Orderly

LEMMA PhoneAdds ==
    ASSUME IInv, Rest, Orderly, PhoneKeepsRules, NEW id \in Ids,
           \/ Ask(id) \/ Post(id) \/ Open(id) \/ Speak(id) \/ Leave(id)
           \/ \E last \in BOOLEAN : Upload(id, last)
    PROVE  Orderly'
<1>1. joined => peer \in 1..MaxSessions
    BY Bounds DEF IInv, Typed
<1>2. /\ DOMAIN call = Ids /\ DOMAIN sent = Ids
      /\ sent \in [Ids -> 0..MaxUpload] /\ {MaxUpload} \subseteq Nat \ {0}
    BY Bounds DEF IInv, Typed, Rest, Counts
<1>3. ASSUME NEW t \in {"http-req", "http-post", "ws-open", "ws-msg", "ws-close"},
             NEW last \in BOOLEAN, NEW from, NEW to,
             Turn(id, from, to), UNCHANGED sent, Say(t, id, last),
             t \in Openings => from = {"fresh"} /\ (last <=> t = "http-req"),
             t \in {"ws-msg", "ws-close"} => from = {"open"},
             to # "fresh", to = "open" => from = {"open"},
             to = "uploading" => t = "http-post"
      PROVE  Orderly'
    <2>1. PICK f : f = [t |-> t, s |-> peer, id |-> id, last |-> last]
        OBVIOUS
    <2>2. f \in Frame /\ f.t = t /\ f.s = peer /\ f.id = id /\ f.last = last
        BY <1>1, <1>3, <2>1 DEF Frame, Turn
    <2>3. /\ call'[id] = to /\ call[id] \in from
          /\ \A i \in Ids : i # id => call'[i] = call[i]
        BY <1>2, <1>3 DEF Turn
    <2>4. /\ joined /\ up' = Append(up, f)
          /\ UNCHANGED <<peer, joined, down, session, requests, bridges, closedBridges, work, sent>>
        BY <1>3, <2>1 DEF Turn, Say, maps
    <2>5. Added(f)
        BY <1>3, <2>2, <2>3, <2>4 DEF Added, Hello, Openings
    <2> QED BY <2>5, AddedTurn
<1>4. ASSUME NEW last \in BOOLEAN, Upload(id, last)
      PROVE  Orderly'
    <2>1. PICK f : f = [t |-> "http-data", s |-> peer, id |-> id, last |-> last]
        OBVIOUS
    <2>2. f \in Frame /\ f.t = "http-data" /\ f.s = peer /\ f.id = id /\ f.last = last
        BY <1>1, <1>4, <2>1 DEF Frame, Upload, Turn
    <2>3. /\ call'[id] = (IF last THEN "asked" ELSE "uploading") /\ call[id] = "uploading"
          /\ \A i \in Ids : i # id => call'[i] = call[i]
        BY <1>2, <1>4 DEF Upload, Turn
    <2>4. /\ sent'[id] = sent[id] + 1 /\ sent[id] < MaxUpload
          /\ sent[id] = MaxUpload - 1 => last
          /\ \A i \in Ids : i # id => sent'[i] = sent[i]
        BY <1>2, <1>4 DEF Upload
    <2>5. /\ sent'[id] <= MaxUpload
          /\ ~last => sent'[id] < MaxUpload
        BY <1>2, <2>4
    <2>6. /\ joined /\ up' = Append(up, f)
          /\ UNCHANGED <<peer, joined, down, session, requests, bridges, closedBridges, work>>
        BY <1>4, <2>1 DEF Upload, Turn, Say, maps
    <2>7. Added(f)
        BY <2>2, <2>3, <2>4, <2>5, <2>6 DEF Added, Hello, Openings
    <2> QED BY <2>7, AddedTurn
<1>5. CASE Ask(id)
    BY <1>3, <1>5 DEF Ask, Openings
<1>6. CASE Post(id)
    BY <1>3, <1>6 DEF Post, Openings
<1>7. CASE Open(id)
    BY <1>3, <1>7 DEF Open, Openings
<1>8. CASE Speak(id)
    BY <1>3, <1>8 DEF Speak, Openings
<1>9. CASE Leave(id)
    <2>1. Turn(id, {"open"}, "left") /\ UNCHANGED sent /\ Say("ws-close", id, FALSE)
        <3>1. {"open"} \cup (IF Eager THEN {"opening"} ELSE {}) = {"open"}
            BY DEF PhoneKeepsRules
        <3> QED BY <1>9, <3>1 DEF Leave
    <2> QED BY <1>3, <2>1 DEF Openings
<1> QED BY <1>4, <1>5, <1>6, <1>7, <1>8, <1>9

\* The phone begins anew: nothing of what it said before was said of the
\* session to come.
LEMMA HelloAdds == ASSUME IInv, Orderly, SayHello PROVE Orderly'
<1>1. /\ UNCHANGED <<down, session, requests, bridges, closedBridges, work>>
      /\ Known' = Known /\ Touched' = Touched
      /\ peer' = peer + 1 /\ joined' = FALSE /\ call' = Fresh
      /\ session \in Nat /\ peer \in Nat /\ session <= peer
    BY Bounds DEF SayHello, Say, maps, Known, Touched, IInv, Typed
<1>2. PICK n \in Nat : n = Len(up)
    BY DEF IInv, Typed
<1>3. PICK f : f = [t |-> Hello, s |-> peer', id |-> NoId, last |-> FALSE]
    OBVIOUS
<1>4. f.t = Hello /\ f.s = peer + 1 /\ f.id = NoId
    BY <1>1, <1>3
<1>5. f.t \notin Openings \cup {"http-data", "http-post", "ws-msg", "ws-close"}
    BY <1>4 DEF Openings, Hello
<1>6. /\ DOMAIN up = 1..n /\ DOMAIN up' = 1..(n + 1) /\ Len(up') = n + 1
      /\ \A i \in 1..n : up'[i] = up[i]
      /\ up'[n + 1] = f
    <2>1. up \in Seq(Frame) /\ up' = Append(up, f)
        BY <1>3 DEF IInv, Typed, SayHello, Say
    <2> QED BY <1>2, <2>1
<1>7. /\ \A i \in DOMAIN up' : i = n + 1 \/ (i \in DOMAIN up /\ i < n + 1)
      /\ \A i \in DOMAIN up : i \in DOMAIN up' /\ i < n + 1 /\ i \in Nat
    BY <1>6
<1>8. \A i \in DOMAIN up : up[i].s <= peer /\ up[i].s \in Nat
    BY FramesNumbered DEF IInv, FramesInOrder
<1>9. Placed'
    <2>1. \A i \in DOMAIN up' :
             /\ up'[i].t = Hello => session < up'[i].s /\ up'[i].id = NoId
             /\ up'[i].t # Hello => up'[i].s = session
             /\ up'[i].t = "http-req" => up'[i].last
             /\ up'[i].t = "http-post" => ~up'[i].last
        BY <1>1, <1>4, <1>5, <1>6, <1>7 DEF Orderly, Placed, Openings
    <2>2. \A i, k \in DOMAIN up' : i < k /\ up'[k].t = Hello => up'[i].s < up'[k].s
        BY <1>1, <1>4, <1>6, <1>7, <1>8 DEF Orderly, Placed
    <2> QED BY <1>1, <2>1, <2>2 DEF Orderly, Placed
<1>10. FirstIsFirst'
    BY <1>1, <1>5, <1>6, <1>7 DEF Orderly, FirstIsFirst
<1>11. FreshIsUntouched'
    BY <1>1 DEF FreshIsUntouched
<1>12. \A id \in Ids : call'[id] = "fresh"
    BY <1>1 DEF Fresh
<1>13. UploadsHeard'
    <2>1. ASSUME NEW i \in DOMAIN up', up'[i].t = "http-data"
          PROVE  /\ up'[i].id \in Posted(i)'
                 /\ \A k \in DOMAIN up' :
                       k < i /\ up'[k].t = "http-data" /\ up'[k].id = up'[i].id => ~up'[k].last
        <3>1. i \in DOMAIN up
            BY <1>5, <1>6, <1>7, <2>1
        <3>2. /\ up[i].id \in Posted(i)
              /\ \A k \in DOMAIN up :
                    k < i /\ up[k].t = "http-data" /\ up[k].id = up[i].id => ~up[k].last
            BY <1>6, <2>1, <3>1 DEF Orderly, UploadsHeard
        <3>3. \A k \in DOMAIN up' : k < i => k \in DOMAIN up
            BY <1>6, <3>1
        <3>4. Posted(i) \subseteq Posted(i)'
            BY <1>1, <1>6, <1>7 DEF Posted
        <3> QED BY <1>6, <3>1, <3>2, <3>3, <3>4
    <2> QED BY <1>12, <2>1 DEF UploadsHeard
<1>14. BridgesKnown'
    BY <1>1, <1>5, <1>6, <1>7, <1>12 DEF Orderly, BridgesKnown
<1>15. Counted'
    <2>1. PICK g : Numbered(g)
        BY DEF Orderly, Counted
    <2>2. ASSUME NEW i \in DOMAIN up', up'[i].t = "http-data"
          PROVE  /\ g[i] \in 1..MaxUpload /\ (~up'[i].last => g[i] < MaxUpload)
                 /\ up'[i].id \in DOMAIN requests => requests[up'[i].id] < g[i]
                 /\ call'[up'[i].id] # "uploading"
                 /\ \A k \in DOMAIN up' :
                       k < i /\ up'[k].t = "http-data" /\ up'[k].id = up'[i].id => g[k] < g[i]
        <3>1. i \in DOMAIN up /\ up'[i] = up[i]
            BY <1>5, <1>6, <1>7, <2>2
        <3>2. up[i].id \in Ids
            BY <2>2, <3>1 DEF IInv, FramesInOrder, Hello
        <3>3. \A k \in DOMAIN up' : k < i => k \in DOMAIN up /\ up'[k] = up[k]
            BY <1>6, <3>1
        <3> QED BY <1>12, <2>1, <2>2, <3>1, <3>2, <3>3 DEF Numbered
    <2>3. Numbered(g)'
        BY <1>1, <1>12, <2>2 DEF Numbered
    <2> QED BY <2>3 DEF Counted
<1> QED BY <1>9, <1>10, <1>11, <1>13, <1>14, <1>15 DEF Orderly

\* The phone hears a message: that a bridge is open, of the session in force.
LEMMA HearKeeps == ASSUME IInv, Orderly, Hear PROVE Orderly'
<1>1. /\ UNCHANGED <<peer, sent, up, session, requests, bridges, closedBridges, work>>
      /\ Known' = Known /\ Touched' = Touched /\ \A n : Posted(n)' = Posted(n)
      /\ down # <<>> /\ down' = Tail(down)
    BY DEF Hear, maps, Known, Touched, Posted
<1>2. PICK m \in Message : m = Head(down)
    BY <1>1, Removed DEF IInv, Typed
<1>3. /\ 1 \in DOMAIN down /\ m = down[1]
      /\ \A i \in DOMAIN down' : i + 1 \in DOMAIN down /\ down'[i] = down[i + 1]
    BY <1>1, <1>2, Removed DEF IInv, Typed
<1>4. session \in Nat /\ peer \in Nat /\ session <= peer /\ m.s \in Nat
    BY Bounds DEF IInv, Typed, Message
<1>5. m.s = peer /\ m.t # "error" => session = peer
    <2>1. m.t # "error" => m.s <= session
        BY <1>3 DEF IInv, DownOrdered, UpTo
    <2> QED BY <1>4, <2>1
<1>6. joined' => session = peer
    BY <1>2, <1>5 DEF Hear, Orderly, Placed
<1>7. \A id \in Ids :
          \/ call'[id] = call[id]
          \/ m.s = peer /\ m.id = id /\ call'[id] = Learnt(call[id], m.t)
    BY <1>2 DEF Hear, IInv, Typed
<1>8. ASSUME NEW id \in Ids
      PROVE  /\ call'[id] = "fresh" => call[id] = "fresh"
             /\ call'[id] = "uploading" => call[id] = "uploading"
             /\ call'[id] = "open" =>
                   call[id] = "open" \/ (m.s = peer /\ m.id = id /\ m.t = "ws-ack")
    BY <1>7 DEF Learnt
<1>9. Placed'
    BY <1>1, <1>6 DEF Orderly, Placed
<1>10. FirstIsFirst' /\ FreshIsUntouched' /\ UploadsHeard'
    BY <1>1, <1>8 DEF Orderly, FirstIsFirst, FreshIsUntouched, UploadsHeard
<1>11. BridgesKnown'
    <2>1. \A id \in Ids : call'[id] = "open" => session = peer /\ id \in Known
        BY <1>3, <1>5, <1>8 DEF Orderly, BridgesKnown
    <2> QED BY <1>1, <1>3, <2>1 DEF Orderly, BridgesKnown
<1>12. Counted'
    <2>1. PICK g : Numbered(g)
        BY DEF Orderly, Counted
    <2>2. \A i \in DOMAIN up : up[i].t = "http-data" => up[i].id \in Ids
        BY DEF IInv, FramesInOrder, Hello
    <2>3. Numbered(g)'
        BY <1>1, <1>8, <2>1, <2>2 DEF Numbered
    <2> QED BY <2>3 DEF Counted
<1> QED BY <1>9, <1>10, <1>11, <1>12 DEF Orderly

-----------------------------------------------------------------------------
\* The Host's messages: those before, and what it sends.
OnlyAdds(id, ts) ==
    \A i \in DOMAIN down' :
        \/ \E k \in DOMAIN down : down'[i] = down[k]
        \/ down'[i].id = id /\ \E k \in DOMAIN ts : down'[i].t = ts[k]

LEMMA Sends ==
    ASSUME Typed, NEW s \in 1..MaxSessions, NEW id \in Ids \cup {NoId},
           NEW ts \in Seq(MessageNames),
           Send(s, id, ts) \/ down' = down \o Messages(s, id, ts)
    PROVE  OnlyAdds(id, ts)
<1>1. CASE down' = down
    BY <1>1 DEF OnlyAdds
<1>2. CASE down' = down \o Messages(s, id, ts)
    <2>0. PICK m : m = Messages(s, id, ts)
        OBVIOUS
    <2>1. /\ m \in Seq(Message) /\ m = Messages(s, id, ts) /\ DOMAIN m = DOMAIN ts
          /\ \A k \in DOMAIN m : m[k].t = ts[k]
        <3>1. /\ Messages(s, id, ts) \in Seq(Message)
              /\ \A i \in DOMAIN Messages(s, id, ts) : Messages(s, id, ts)[i].t = ts[i]
              /\ DOMAIN Messages(s, id, ts) = DOMAIN ts
            BY MessagesTyped
        <3> QED BY <2>0, <3>1
    <2>2. \A k \in DOMAIN m : m[k].id = id
        BY <2>0 DEF Messages
    <2>3. down \in Seq(Message) /\ down' = down \o m
        BY <1>2, <2>1 DEF Typed
    <2>4. \A i \in DOMAIN down' :
             \/ i \in DOMAIN down /\ down'[i] = down[i]
             \/ i - Len(down) \in DOMAIN m /\ down'[i] = m[i - Len(down)]
        BY <2>1, <2>3
    <2> QED BY <2>1, <2>2, <2>4 DEF OnlyAdds
<1> QED BY <1>1, <1>2 DEF Send

\* Jobs of the same session and id as before.
SameTopics == \A j \in work' : \E k \in work : k.s = j.s /\ k.id = j.id

LEMMA ClosedTopics ==
    ASSUME IInv, NEW P, work' = {IF j \in P THEN Closed(j) ELSE j : j \in work}
    PROVE  SameTopics
<1>1. \A j \in work : Closed(j).s = j.s /\ Closed(j).id = j.id
    BY DEF Closed, IInv, Typed, Job
<1> QED BY <1>1 DEF SameTopics

LEMMA TornDownTopics == ASSUME IInv, work' = TornDown PROVE SameTopics
<1>1. PICK P : P = {j \in work : j.s = session /\ j.id \in bridges}
    OBVIOUS
<1>2. \A j \in work : j \in P <=> j.s = session /\ j.id \in bridges
    BY <1>1
<1>3. work' = {IF j \in P THEN Closed(j) ELSE j : j \in work}
    BY <1>2 DEF TornDown
<1> QED BY <1>3, ClosedTopics

LEMMA UpstreamKeeps == ASSUME IInv, Orderly, NEW j \in work, Upstream(j) PROVE Orderly'
<1>1. j \in Job /\ j.s \in 1..MaxSessions /\ j.id \in Ids /\ work \subseteq Job
    BY DEF IInv, Typed, Job
<1>2. UNCHANGED <<phone, up, session, requests>>
    BY DEF Upstream, Cookie, Begin, Respond, Connected, Failed, Ended, Gone, Said, Reset, maps
<1>3. SameTopics
    <2>1. ASSUME NEW at, Become(j, at) PROVE SameTopics
        <3>1. [j EXCEPT !.at = at].s = j.s /\ [j EXCEPT !.at = at].id = j.id
            BY <1>1 DEF Job
        <3> QED BY <2>1, <3>1 DEF Become, SameTopics
    <2>2. Done(j) \/ UNCHANGED work \/ \E at : Become(j, at)
        BY DEF Upstream, Cookie, Begin, Respond, Connected, Failed, Ended, Gone, Said, Reset
    <2>3. Done(j) \/ UNCHANGED work => SameTopics
        BY DEF Done, SameTopics
    <2> QED BY <2>1, <2>2, <2>3
<1>4. /\ Known \subseteq Known'
      /\ Known' \subseteq Known \cup (IF j.s = session THEN {j.id} ELSE {})
    BY DEF Upstream, Cookie, Begin, Respond, Connected, Failed, Ended, Gone, Said, Reset,
           maps, Known
<1>5. Touched' \subseteq Touched
    BY <1>2, <1>3, <1>4 DEF Touched, SameTopics
<1>6. \A i \in DOMAIN down' :
         \/ \E k \in DOMAIN down : down'[i] = down[k]
         \/ down'[i].id = j.id /\ (down'[i].t = "ws-ack" => j.at = "connecting")
    <2>1. ASSUME NEW ts \in Seq(MessageNames), Send(j.s, j.id, ts),
                 (\E k \in DOMAIN ts : ts[k] = "ws-ack") => j.at = "connecting"
          PROVE  \A i \in DOMAIN down' :
                    \/ \E k \in DOMAIN down : down'[i] = down[k]
                    \/ down'[i].id = j.id /\ (down'[i].t = "ws-ack" => j.at = "connecting")
        <3>1. j.id \in Ids \cup {NoId} /\ Typed
            BY <1>1 DEF IInv
        <3>2. OnlyAdds(j.id, ts)
            BY <1>1, <2>1, <3>1, Sends
        <3> QED BY <2>1, <3>2 DEF OnlyAdds
    <2>2. /\ <<"http-res">> \in Seq(MessageNames)
          /\ <<"http-res", "http-res">> \in Seq(MessageNames)
          /\ <<"ws-ack">> \in Seq(MessageNames)
          /\ <<"ws-err", "ws-close">> \in Seq(MessageNames)
          /\ <<"ws-close">> \in Seq(MessageNames)
          /\ <<"ws-msg">> \in Seq(MessageNames)
          /\ \A k \in DOMAIN <<"http-res">> : <<"http-res">>[k] # "ws-ack"
          /\ \A k \in DOMAIN <<"http-res", "http-res">> :
                <<"http-res", "http-res">>[k] # "ws-ack"
          /\ \A k \in DOMAIN <<"ws-err", "ws-close">> :
                <<"ws-err", "ws-close">>[k] # "ws-ack"
          /\ \A k \in DOMAIN <<"ws-close">> : <<"ws-close">>[k] # "ws-ack"
          /\ \A k \in DOMAIN <<"ws-msg">> : <<"ws-msg">>[k] # "ws-ack"
        BY DEF MessageNames
    <2>3. \/ UNCHANGED down \/ Send(j.s, j.id, <<"http-res">>)
          \/ Send(j.s, j.id, <<"http-res", "http-res">>)
          \/ Send(j.s, j.id, <<"ws-ack">>) /\ j.at = "connecting"
          \/ Send(j.s, j.id, <<"ws-err", "ws-close">>)
          \/ Send(j.s, j.id, <<"ws-close">>) \/ Send(j.s, j.id, <<"ws-msg">>)
        BY DEF Upstream, Cookie, Begin, Respond, Connected, Failed, Ended, Gone, Said, Reset
    <2>4. CASE UNCHANGED down
        BY <2>4
    <2>5. CASE Send(j.s, j.id, <<"http-res">>)
        BY <2>1, <2>2, <2>5
    <2>6. CASE Send(j.s, j.id, <<"http-res", "http-res">>)
        BY <2>1, <2>2, <2>6
    <2>7. CASE Send(j.s, j.id, <<"ws-ack">>) /\ j.at = "connecting"
        BY <2>1, <2>2, <2>7
    <2>8. CASE Send(j.s, j.id, <<"ws-err", "ws-close">>)
        BY <2>1, <2>2, <2>8
    <2>9. CASE Send(j.s, j.id, <<"ws-close">>)
        BY <2>1, <2>2, <2>9
    <2>10. CASE Send(j.s, j.id, <<"ws-msg">>)
        BY <2>1, <2>2, <2>10
    <2> QED BY <2>3, <2>4, <2>5, <2>6, <2>7, <2>8, <2>9, <2>10
<1>7. j.at = "connecting" => j.id \in Known
    BY DEF IInv, OpenIsInMaps, Known
<1>8. \A i \in DOMAIN down' :
         down'[i].t = "ws-ack" /\ down'[i].s = session => down'[i].id \in Known'
    BY <1>4, <1>6, <1>7 DEF Orderly, BridgesKnown
<1>9. \A x \in work' : \E k \in work : k.s = x.s
    BY <1>3 DEF SameTopics
<1> QED BY <1>2, <1>4, <1>5, <1>8, <1>9, QuietTurn

-----------------------------------------------------------------------------
\* The next frame.

\* A hello that is accepted: only hellos follow it, and the phone that said it
\* has said nothing since.
LEMMA AdoptKeeps ==
    ASSUME IInv, Orderly, NEW f, f = Head(up), up # <<>>, up' = Tail(up), AdoptSession(f),
           UNCHANGED phone
    PROVE  Orderly'
<1>1. UNCHANGED <<peer, joined, call, sent>>
    BY DEF phone
<1>2. /\ up' \in Seq(Frame) /\ 1 \in DOMAIN up /\ f = up[1] /\ f \in Frame
      /\ \A i \in DOMAIN up' :
            i \in Nat /\ i + 1 \in DOMAIN up /\ 1 < i + 1 /\ up'[i] = up[i + 1]
    BY Shifted, Removed DEF IInv, Typed
<1>3. /\ session' = f.s /\ f.t = Hello /\ session < f.s /\ f.s <= peer
      /\ f.s \in 1..MaxSessions /\ f.s \in Nat /\ session \in Nat /\ peer \in Nat
    BY <1>2, Bounds DEF AdoptSession, Orderly, Placed, IInv, FramesInOrder, Frame, Typed
<1>4. requests' = Nothing /\ Known' = {} /\ work' = TornDown
    BY DEF AdoptSession, NoMaps, Known
<1>5. \A i \in DOMAIN up' : up'[i].t = Hello
    <2> SUFFICES ASSUME NEW i \in DOMAIN up', up'[i].t # Hello PROVE FALSE
        OBVIOUS
    <2>1. up[i + 1].s = session
        BY <1>2 DEF Orderly, Placed
    <2>2. f.s <= up[i + 1].s
        BY <1>2 DEF IInv, FramesInOrder
    <2> QED BY <1>3, <2>1, <2>2
<1>6. \A i \in DOMAIN up' : f.s < up'[i].s /\ up'[i].id = NoId
    BY <1>2, <1>5 DEF Orderly, Placed
<1>7. \A j \in work' : j.s \in Nat /\ j.s <= session /\ j.s < f.s /\ j.s # f.s
    <2>1. SameTopics
        BY <1>4, TornDownTopics
    <2>2. \A j \in work' : j.s <= session /\ j.s \in Nat
        BY <2>1, Bounds DEF SameTopics, Orderly, Placed, IInv, Typed, Job
    <2> QED BY <1>3, <2>2
<1>8. Touched' = {}
    BY <1>3, <1>4, <1>7 DEF Touched, Nothing
<1>9. session # peer
    BY <1>3
<1>10. Placed'
    <2>1. ~joined
        BY <1>9 DEF Orderly, Placed
    <2>2. \A i, k \in DOMAIN up' : i < k => up'[i].s < up'[k].s
        BY <1>2, <1>5 DEF Orderly, Placed
    <2>3. \A j \in work' : j.s <= f.s
        BY <1>3, <1>7
    <2> QED BY <1>1, <1>3, <1>5, <1>6, <2>1, <2>2, <2>3 DEF Placed, Hello
<1>11. FirstIsFirst'
    BY <1>5 DEF FirstIsFirst, Openings, Hello
<1>12. FreshIsUntouched'
    BY <1>6, <1>8, SessionAssumption DEF FreshIsUntouched
<1>13. UploadsHeard'
    BY <1>1, <1>5, <1>9 DEF UploadsHeard, Orderly, Hello
<1>14. BridgesKnown'
    <2>1. \A i \in DOMAIN down' : down'[i].t = "ws-ack" => down'[i].s <= session
        <3>1. PICK ts \in Seq(MessageNames) : ts = <<"ack">>
            <4>1. <<"ack">> \in Seq(MessageNames)
                BY DEF MessageNames
            <4> QED BY <4>1
        <3>2. PICK s \in 1..MaxSessions, id \in Ids \cup {NoId} : s = f.s /\ id = NoId
            BY <1>3
        <3>3. Typed /\ (Send(s, id, ts) \/ down' = down \o Messages(s, id, ts))
            BY <3>1, <3>2 DEF AdoptSession, IInv
        <3>4. \A k \in DOMAIN ts : ts[k] # "ws-ack"
            BY <3>1
        <3>5. \A i \in DOMAIN down' :
                 down'[i].t = "ws-ack" => \E k \in DOMAIN down : down'[i] = down[k]
            <4>1. OnlyAdds(id, ts)
                BY <3>3, Sends
            <4> QED BY <3>4, <4>1 DEF OnlyAdds
        <3> QED BY <3>5 DEF IInv, DownOrdered, UpTo
    <2>2. \A i \in DOMAIN down' : down'[i].t = "ws-ack" => down'[i].s # f.s
        <3>1. \A m \in Message : m.s \in Nat
            BY Bounds DEF Message
        <3> QED BY <1>3, <2>1, <3>1
    <2> QED BY <1>1, <1>3, <1>5, <1>9, <2>2 DEF BridgesKnown, Orderly, Hello
<1>15. Counted'
    <2>1. Numbered([i \in {} |-> 0])'
        BY <1>1, <1>4, <1>5, <1>9 DEF Numbered, Orderly, UploadsHeard, Hello, Nothing
    <2> QED BY <2>1 DEF Counted
<1> QED BY <1>10, <1>11, <1>12, <1>13, <1>14, <1>15 DEF Orderly

\* Any other frame finds what it needs, and touches its own id only.
LEMMA FrameTakes ==
    ASSUME IInv, Rest, Orderly, PhoneKeepsRules, carrier = "open",
           NEW f, f = Head(up), up # <<>>, up' = Tail(up), UNCHANGED phone,
           \/ RejectHello(f)
           \/ f.s = session /\ (HttpReq(f) \/ HttpData(f) \/ WsOpen(f) \/ RefusePath(f)
                                  \/ WsMsg(f) \/ WsClose(f))
    PROVE  Taken(f) /\ carrier' = "open"
<1>1. 1 \in DOMAIN up /\ f = up[1] /\ f \in Frame
    BY Shifted, Removed DEF IInv, Typed
<1>2. /\ \A k \in DOMAIN up : k \in Nat /\ ~(k < 1)
      /\ session \in Nat /\ \A j \in work : j.s <= session
      /\ Typed
    BY DEF IInv, Typed, Orderly, Placed
<1>3. \A i \in DOMAIN down :
         down[i].t = "ws-ack" /\ down[i].s = session => down[i].id \in Known
    BY DEF Orderly, BridgesKnown
<1>4. CASE RejectHello(f)
    <2>1. UNCHANGED <<session, requests, bridges, closedBridges, work, carrier>>
        BY <1>4 DEF RejectHello, maps
    <2>2. Known' = Known /\ Touched' = Touched
        BY <2>1 DEF Known, Touched
    <2>3. \A i \in DOMAIN down' :
             down'[i].t = "ws-ack" => \E k \in DOMAIN down : down'[i] = down[k]
        <3>1. PICK ts \in Seq(MessageNames) : ts = <<"error">>
            <4>1. <<"error">> \in Seq(MessageNames)
                BY DEF MessageNames
            <4> QED BY <4>1
        <3>2. PICK s \in 1..MaxSessions, id \in Ids \cup {NoId} : s = f.s /\ id = NoId
            BY <1>1 DEF Frame
        <3>3. Send(s, id, ts) \/ down' = down \o Messages(s, id, ts)
            BY <1>4, <3>1, <3>2 DEF RejectHello
        <3>4. \A k \in DOMAIN ts : ts[k] # "ws-ack"
            BY <3>1
        <3>5. OnlyAdds(id, ts)
            BY <1>2, <3>3, Sends
        <3> QED BY <3>4, <3>5 DEF OnlyAdds
    <2>4. f.t # "http-post"
        BY <1>4 DEF RejectHello, Hello
    <2> QED BY <1>2, <1>3, <2>1, <2>2, <2>3, <2>4 DEF Taken
<1>5. CASE f.s = session /\ HttpReq(f)
    <2>1. /\ f.id \notin Touched
          /\ f.t = "http-req" => f.last
          /\ f.t = "http-post" => ~f.last
        BY <1>1, <1>5 DEF HttpReq, Orderly, FirstIsFirst, Placed, Openings
    <2>2. f.id \notin DOMAIN requests /\ f.t # "http-data"
        BY <1>5, <2>1 DEF Touched, HttpReq
    <2>3. UNCHANGED <<down, carrier, session, bridges, closedBridges>>
        BY <1>5, <2>2 DEF HttpReq
    <2>4. Known' = Known
        BY <2>3 DEF Known
    <2>5. \/ work' = work
          \/ work' = work \cup {[s |-> session, id |-> f.id, kind |-> "http", at |-> "cookie"]}
        BY <1>5, <2>2 DEF HttpReq, Forward
    <2>6. \/ f.t = "http-req" /\ requests' = requests
          \/ /\ f.t = "http-post"
             /\ requests' = [i \in DOMAIN requests \cup {f.id} |->
                                IF i = f.id THEN 0 ELSE requests[i]]
        BY <1>5, <2>1, <2>2 DEF HttpReq
    <2>7. /\ \A id \in DOMAIN requests : id \in DOMAIN requests'
          /\ f.t = "http-post" => f.id \in DOMAIN requests'
          /\ \A id \in DOMAIN requests' :
                \/ id \in DOMAIN requests /\ requests'[id] = requests[id]
                \/ f.t = "http-post" /\ f.id = id /\ requests'[id] = 0
        BY <2>2, <2>6
    <2>8. Touched' \subseteq Touched \cup {f.id} /\ \A j \in work' : j.s <= session
        BY <1>2, <2>3, <2>4, <2>5, <2>7 DEF Touched
    <2> QED BY <1>3, <2>2, <2>3, <2>4, <2>7, <2>8 DEF Taken
<1>6. CASE f.s = session /\ HttpData(f)
    <2>1. f.t = "http-data" /\ f.id \in DOMAIN requests
        BY <1>1, <1>2, <1>6 DEF HttpData, Orderly, UploadsHeard, Posted
    <2>2. requests[f.id] \in Nat
        BY <2>1, Bounds DEF Rest, Maps
    <2>3. ~f.last => requests[f.id] + 1 <= MaxBody
        <3>1. PICK g : Numbered(g)
            BY DEF Orderly, Counted
        <3>2. /\ g[1] \in 1..MaxUpload /\ (~f.last => g[1] < MaxUpload)
              /\ requests[f.id] < g[1]
            BY <1>1, <2>1, <3>1 DEF Numbered
        <3> QED BY <2>2, <3>2, Bounds DEF PhoneKeepsRules
    <2>4. UNCHANGED <<carrier, session, bridges, closedBridges>>
        BY <1>6, <2>1 DEF HttpData
    <2>5. \/ requests' = Without(requests, f.id) /\ f.last
          \/ requests' = [requests EXCEPT ![f.id] = requests[f.id] + 1]
        BY <1>6, <2>1, <2>2, <2>3, Bounds DEF HttpData
    <2>6. /\ \A id \in DOMAIN requests : id \in DOMAIN requests' \/ (f.id = id /\ f.last)
          /\ \A id \in DOMAIN requests' :
                \/ id \in DOMAIN requests /\ requests'[id] = requests[id]
                \/ f.id = id /\ id \in DOMAIN requests /\ requests'[id] = requests[id] + 1
        BY <2>1, <2>5 DEF Without
    <2>7. \/ work' = work
          \/ work' = work \cup {[s |-> session, id |-> f.id, kind |-> "http", at |-> "cookie"]}
        BY <1>6, <2>1 DEF HttpData, Forward
    <2>8. Known' = Known
        BY <2>4 DEF Known
    <2>9. Touched' \subseteq Touched \cup {f.id} /\ \A j \in work' : j.s <= session
        BY <1>2, <2>4, <2>6, <2>7, <2>8 DEF Touched
    <2>10. \A i \in DOMAIN down' :
             down'[i].t = "ws-ack" => \E k \in DOMAIN down : down'[i] = down[k]
        <3>1. CASE UNCHANGED down
            BY <3>1
        <3>2. CASE Send(session, f.id, <<"http-res">>)
            <4>1. PICK ts \in Seq(MessageNames) : ts = <<"http-res">>
                <5>1. <<"http-res">> \in Seq(MessageNames)
                    BY DEF MessageNames
                <5> QED BY <5>1
            <4>2. PICK s \in 1..MaxSessions, id \in Ids \cup {NoId} : s = f.s /\ id = f.id
                BY <1>1 DEF Frame
            <4>3. Send(s, id, ts)
                BY <1>6, <3>2, <4>1, <4>2
            <4>4. \A k \in DOMAIN ts : ts[k] # "ws-ack"
                BY <4>1
            <4>5. OnlyAdds(id, ts)
                BY <1>2, <4>3, Sends
            <4> QED BY <4>4, <4>5 DEF OnlyAdds
        <3> QED BY <1>6, <2>1, <3>1, <3>2 DEF HttpData
    <2> QED BY <1>3, <2>1, <2>4, <2>6, <2>8, <2>9, <2>10 DEF Taken
<1>7. CASE f.s = session /\ WsOpen(f)
    <2>1. f.t = "ws-open" /\ f.id \notin Known
        BY <1>1, <1>7 DEF WsOpen, Orderly, FirstIsFirst, Openings, Touched
    <2>2. /\ UNCHANGED <<down, carrier, session, requests, bridges, closedBridges>>
          /\ work' = work \cup {[s |-> session, id |-> f.id, kind |-> "ws", at |-> "cookie"]}
        BY <1>7, <2>1 DEF WsOpen, Known, maps
    <2>3. Known' = Known
        BY <2>2 DEF Known
    <2>4. Touched' \subseteq Touched \cup {f.id} /\ \A j \in work' : j.s <= session
        BY <1>2, <2>2, <2>3 DEF Touched
    <2> QED BY <1>3, <2>1, <2>2, <2>3, <2>4 DEF Taken
<1>8. CASE f.s = session /\ RefusePath(f)
    <2>1. f.t \notin {"http-post", "http-data"}
        BY <1>8, SessionAssumption DEF RefusePath, PhoneKeepsRules
    <2>2. /\ UNCHANGED <<carrier, session, requests, bridges, work>>
          /\ Known \subseteq Known' /\ Known' \subseteq Known \cup {f.id}
        BY <1>8 DEF RefusePath, Known
    <2>3. Touched' \subseteq Touched \cup {f.id}
        BY <2>2 DEF Touched
    <2>4. \A i \in DOMAIN down' :
             down'[i].t = "ws-ack" => \E k \in DOMAIN down : down'[i] = down[k]
        <3>1. PICK ts \in Seq(MessageNames) :
                 ts \in {<<"http-res">>, <<"ws-err">>} /\ Send(session, f.id, ts)
            <4>1. <<"http-res">> \in Seq(MessageNames) /\ <<"ws-err">> \in Seq(MessageNames)
                BY DEF MessageNames
            <4> QED BY <1>8, <4>1 DEF RefusePath
        <3>2. PICK s \in 1..MaxSessions, id \in Ids \cup {NoId} : s = f.s /\ id = f.id
            BY <1>1 DEF Frame
        <3>3. Send(s, id, ts)
            BY <1>8, <3>1, <3>2
        <3>4. \A k \in DOMAIN ts : ts[k] # "ws-ack"
            <4>1. CASE ts = <<"http-res">>
                BY <4>1
            <4>2. CASE ts = <<"ws-err">>
                BY <4>2
            <4> QED BY <3>1, <4>1, <4>2
        <3>5. OnlyAdds(id, ts)
            BY <1>2, <3>3, Sends
        <3> QED BY <3>4, <3>5 DEF OnlyAdds
    <2> QED BY <1>2, <1>3, <2>1, <2>2, <2>3, <2>4 DEF Taken
<1>9. CASE f.s = session /\ WsMsg(f)
    <2>1. f.t = "ws-msg" /\ f.id \in Known
        BY <1>1, <1>9 DEF WsMsg, Orderly, BridgesKnown
    <2>2. UNCHANGED <<down, carrier, session, requests, bridges, closedBridges, work>>
        BY <1>9, <2>1 DEF WsMsg, Known, maps
    <2>3. Known' = Known /\ Touched' = Touched
        BY <2>2 DEF Known, Touched
    <2> QED BY <1>2, <1>3, <2>1, <2>2, <2>3 DEF Taken
<1>10. CASE f.s = session /\ WsClose(f)
    <2>1. f.t = "ws-close" /\ f.id \in Known
        BY <1>1, <1>10 DEF WsClose, Orderly, BridgesKnown
    <2>2. UNCHANGED <<down, carrier, session, requests>> /\ Known' = Known
        BY <1>10, <2>1 DEF WsClose, Known, maps
    <2>3. SameTopics
        <3>1. PICK P : P = {j \in work : j.s = session /\ j.id = f.id}
            OBVIOUS
        <3>2. \A j \in work : j \in P <=> j.s = session /\ j.id = f.id
            BY <3>1
        <3>3. \/ work' = work
              \/ work' = {IF j \in P THEN Closed(j) ELSE j : j \in work}
            BY <1>10, <2>1, <3>2 DEF WsClose, Known
        <3>4. work' = work => SameTopics
            BY DEF SameTopics
        <3> QED BY <3>3, <3>4, ClosedTopics
    <2>4. Touched' \subseteq Touched /\ \A j \in work' : j.s <= session
        BY <1>2, <2>2, <2>3 DEF Touched, SameTopics
    <2> QED BY <1>3, <2>1, <2>2, <2>4 DEF Taken
<1> QED BY <1>4, <1>5, <1>6, <1>7, <1>8, <1>9, <1>10

LEMMA LawfulStep ==
    ASSUME IInv, Rest, PhoneKeepsRules, Lawful, [Next]_vars PROVE Lawful'
<1>1. CASE UNCHANGED vars
    <2>1. UNCHANGED <<authenticated, peer, joined, call, sent, up, down, carrier, session,
                      requests, bridges, closedBridges, work>>
        BY <1>1 DEF vars, phone, maps
    <2>2. Known' = Known /\ Touched' = Touched /\ \A n : Posted(n)' = Posted(n)
        BY <2>1 DEF Known, Touched, Posted
    <2>3. Orderly => Orderly'
        BY <2>1, <2>2 DEF Orderly, Placed, FirstIsFirst, FreshIsUntouched, UploadsHeard,
               BridgesKnown, Counted, Numbered
    <2> QED BY <2>1, <2>3 DEF Lawful
<1>2. CASE SayHello
    <2>1. carrier = "open" /\ UNCHANGED carrier
        BY <1>2 DEF SayHello, Say, Lawful
    <2> QED BY <1>2, <2>1, HelloAdds DEF Lawful
<1>3. ASSUME NEW id \in Ids,
             \/ Ask(id) \/ Post(id) \/ Open(id) \/ Speak(id) \/ Leave(id)
             \/ \E last \in BOOLEAN : Upload(id, last)
      PROVE  Lawful'
    <2>1. carrier = "open" /\ UNCHANGED carrier
        BY <1>3 DEF Ask, Post, Open, Speak, Leave, Upload, Turn, Say, Lawful
    <2> QED BY <1>3, <2>1, PhoneAdds DEF Lawful
<1>4. CASE Hear
    BY <1>4, HearKeeps DEF Lawful, Hear
<1>5. CASE OnFrame
    <2>1. PICK f : f = Head(up)
        OBVIOUS
    <2>2. up # <<>> /\ up' = Tail(up) /\ carrier = "open" /\ UNCHANGED phone
        BY <1>5 DEF OnFrame, Lawful
    <2>3. CASE AdoptSession(f)
        <3>1. UNCHANGED carrier
            BY <2>3 DEF AdoptSession
        <3> QED BY <2>1, <2>2, <2>3, <3>1, AdoptKeeps DEF Lawful
    <2>4. CASE ~AdoptSession(f)
        <3>1. \/ RejectHello(f)
              \/ f.s = session /\ (HttpReq(f) \/ HttpData(f) \/ WsOpen(f) \/ RefusePath(f)
                                     \/ WsMsg(f) \/ WsClose(f))
            BY <1>5, <2>1, <2>4 DEF OnFrame
        <3>2. Taken(f) /\ carrier' = "open"
            BY <2>1, <2>2, <3>1, FrameTakes DEF Lawful
        <3> QED BY <2>2, <3>2, TakenTurn DEF Lawful
    <2> QED BY <2>3, <2>4
<1>6. ASSUME NEW j \in work, Upstream(j) PROVE Lawful'
    BY <1>6, UpstreamKeeps DEF Lawful, Upstream
<1>7. CASE Close
    BY <1>7 DEF Close, Lawful
<1> QED BY <1>1, <1>2, <1>3, <1>4, <1>5, <1>6, <1>7 DEF Next

LEMMA LawfulInit == Init => Lawful
<1> SUFFICES ASSUME Init PROVE Orderly
    BY DEF Init, Lawful
<1>1. Known = {} /\ Touched = {}
    BY DEF Init, Known, Touched, Nothing
<1>2. UploadsHeard /\ BridgesKnown
    BY <1>1 DEF Init, UploadsHeard, BridgesKnown, Fresh
<1>3. Numbered([i \in {} |-> 0])
    BY DEF Init, Numbered, Fresh
<1>4. Placed /\ FirstIsFirst /\ FreshIsUntouched
    BY <1>1 DEF Init, Placed, FirstIsFirst, FreshIsUntouched, AttachAuthenticated,
           AttachHandshake
<1> QED BY <1>2, <1>3, <1>4 DEF Orderly, Counted

\* The Host never closes the carrier of a phone that keeps these rules: it says
\* nothing to a bridge that is not open yet, uploads nothing to a path of the
\* Host's administration, and passes the limit, if at all, with the last frame
\* of an upload.  Each of the three is needed (onWsClose, onHttpReq and
\* onHttpData of tunnel-server.ts); for the rest any number of ids, hellos,
\* frames under way and bridges may overlap.
THEOREM SessionKeepsCarrier == Spec => []KeepsCarrier
<1> DEFINE J == IInv /\ Rest /\ (PhoneKeepsRules => Lawful)
<1>1. Init => J
    BY SessionInit, OwedInit, LawfulInit
<1>2. J /\ [Next]_vars => J'
    <2> SUFFICES ASSUME J, [Next]_vars PROVE J'
        OBVIOUS
    <2>1. (IInv /\ Rest)'
        BY SessionNext, RestStep
    <2>2. PhoneKeepsRules => Lawful'
        BY LawfulStep
    <2>3. PhoneKeepsRules' <=> PhoneKeepsRules
        BY DEF PhoneKeepsRules
    <2> QED BY <2>1, <2>2, <2>3
<1>3. J => KeepsCarrier
    BY DEF Lawful, KeepsCarrier
<1> HIDE DEF J
<1> QED BY <1>1, <1>2, <1>3, PTL DEF Spec
-----------------------------------------------------------------------------
(***************************************************************************)
(* ImplementsRequestContract.  What is under way about an id of the session *)
(* the phone is in, in either direction or upstream, is of the kind of      *)
(* thing that the phone asked for by it: an answer never meets a bridge,    *)
(* nor an id that the phone has not used since its last hello.              *)
(***************************************************************************)
HttpFrames == {"http-req", "http-post", "http-data"}
HttpCalls == {"asked", "uploading", "answered", "twice"}
WsCalls == {"opening", "open", "left", "ended"}
Calls(kind) == IF kind = "http" THEN HttpCalls ELSE WsCalls

FrameKind(f) == IF f.t \in HttpFrames THEN "http" ELSE "ws"
NameKind(t) == IF t = "http-res" THEN "http" ELSE "ws"

FrameFits(f, p, c) == f.t # Hello /\ f.s = p => c[f.id] \in Calls(FrameKind(f))
JobFits(j, p, c) == j.s = p => c[j.id] \in Calls(j.kind)
MessageFits(m, p, c) ==
    m.id # NoId => m.s <= p /\ (m.s = p => c[m.id] \in Calls(NameKind(m.t)))

Fits ==
    /\ \A i \in DOMAIN up : FrameFits(up[i], peer, call)
    /\ \A j \in work : JobFits(j, peer, call)
    /\ \A id \in DOMAIN requests : session = peer => call[id] \in HttpCalls
    /\ \A i \in DOMAIN down : MessageFits(down[i], peer, call)
    /\ \A r \in resets : r.s <= peer

\* The Host does not touch what the phone knows: what it adds has to fit.
LEMMA HostFits ==
    ASSUME IInv, Fits, FewerFrames, UNCHANGED <<peer, call>>,
           \A j \in work' :
              JobFits(j, peer, call) \/ \E k \in work : k.s = j.s /\ k.id = j.id /\ k.kind = j.kind,
           \A id \in DOMAIN requests' : session' = peer => call[id] \in HttpCalls,
           \A i \in DOMAIN down' :
              MessageFits(down'[i], peer, call) \/ \E k \in DOMAIN down : down'[i] = down[k],
           \A r \in resets' : r.s <= peer
    PROVE  Fits'
<1>1. \A i \in DOMAIN up' : \E k \in DOMAIN up : up'[i] = up[k]
    <2>1. CASE up' = up
        BY <2>1
    <2>2. CASE up' = <<>>
        BY <2>2
    <2>3. CASE up # <<>> /\ up' = Tail(up)
        BY <2>3, Removed DEF IInv, Typed
    <2> QED BY <2>1, <2>2, <2>3 DEF FewerFrames
<1>2. \A i \in DOMAIN up' : FrameFits(up'[i], peer, call)
    BY <1>1 DEF Fits
<1>3. \A j \in work' : JobFits(j, peer, call)
    BY DEF Fits, JobFits
<1>4. \A i \in DOMAIN down' : MessageFits(down'[i], peer, call)
    BY DEF Fits
<1> QED BY <1>2, <1>3, <1>4 DEF Fits, FrameFits, JobFits, MessageFits

LEMMA Joined ==
    ASSUME NEW q \in Seq(Message), NEW m \in Seq(Message), NEW r, r = q \o m
    PROVE  \A i \in DOMAIN r :
              (\E k \in DOMAIN q : r[i] = q[k]) \/ (\E k \in DOMAIN m : r[i] = m[k])
<1>1. /\ DOMAIN q = 1..Len(q) /\ DOMAIN m = 1..Len(m)
      /\ Len(q) \in Nat /\ Len(m) \in Nat
      /\ DOMAIN r = 1..(Len(q) + Len(m))
      /\ \A i \in DOMAIN r : r[i] = IF i <= Len(q) THEN q[i] ELSE m[i - Len(q)]
    OBVIOUS
<1>2. \A i \in DOMAIN r : ~(i <= Len(q)) => i - Len(q) \in DOMAIN m
    BY <1>1
<1> QED BY <1>1, <1>2

\* What the Host says about an id, to whichever session.
LEMMA SaysFit ==
    ASSUME IInv, Fits, NEW a \in 1..MaxSessions, NEW b \in Ids,
           NEW ts \in Seq(MessageNames), Send(a, b, ts), a <= peer,
           \A i \in DOMAIN ts : a = peer => call[b] \in Calls(NameKind(ts[i]))
    PROVE  \A i \in DOMAIN down' :
              MessageFits(down'[i], peer, call) \/ \E k \in DOMAIN down : down'[i] = down[k]
<1>1. CASE a # session
    BY <1>1 DEF Send
<1>2. CASE a = session
    <2>1. PICK m : m = Messages(a, b, ts)
        OBVIOUS
    <2>2. m \in Seq(Message) /\ down \in Seq(Message) /\ down' = down \o m
        BY <1>2, <2>1, MessagesTyped DEF Send, IInv, Typed
    <2>3. \A k \in DOMAIN m : m[k] = [t |-> ts[k], s |-> a, id |-> b] /\ k \in DOMAIN ts
        BY <2>1 DEF Messages
    <2>4. \A k \in DOMAIN m : MessageFits(m[k], peer, call)
        BY <2>3 DEF MessageFits
    <2> QED BY <2>2, <2>4, Joined
<1> QED BY <1>1, <1>2

\* ... in one message, or in two of a kind.
LEMMA OneSaidFits ==
    ASSUME IInv, Fits, NEW a \in 1..MaxSessions, NEW b \in Ids, a <= peer,
           NEW t \in MessageNames, Send(a, b, <<t>>),
           a = peer => call[b] \in Calls(NameKind(t))
    PROVE  \A i \in DOMAIN down' :
              MessageFits(down'[i], peer, call) \/ \E k \in DOMAIN down : down'[i] = down[k]
<1>1. <<t>> \in Seq(MessageNames) /\ \A i \in DOMAIN <<t>> : <<t>>[i] = t
    OBVIOUS
<1> QED BY <1>1, SaysFit

LEMMA TwoSaidFit ==
    ASSUME IInv, Fits, NEW a \in 1..MaxSessions, NEW b \in Ids, a <= peer,
           NEW t \in MessageNames, NEW u \in MessageNames, Send(a, b, <<t, u>>),
           a = peer => call[b] \in Calls(NameKind(t)),
           a = peer => call[b] \in Calls(NameKind(u))
    PROVE  \A i \in DOMAIN down' :
              MessageFits(down'[i], peer, call) \/ \E k \in DOMAIN down : down'[i] = down[k]
<1>1. <<t, u>> \in Seq(MessageNames) /\ \A i \in DOMAIN <<t, u>> : <<t, u>>[i] \in {t, u}
    OBVIOUS
<1> QED BY <1>1, SaysFit

\* Messages about no id.
LEMMA OthersFit ==
    ASSUME IInv, NEW m \in Seq(Message), \A k \in DOMAIN m : MessageFits(m[k], peer, call),
           down' = down \o m
    PROVE  \A i \in DOMAIN down' :
              MessageFits(down'[i], peer, call) \/ \E k \in DOMAIN down : down'[i] = down[k]
BY Joined DEF IInv, Typed

\* An answer to a hello is about no id.
LEMMA HelloFits ==
    ASSUME IInv, NEW s \in 1..MaxSessions, NEW t \in {"ack", "error"},
           down' = down \o Messages(s, NoId, <<t>>)
    PROVE  \A i \in DOMAIN down' :
              MessageFits(down'[i], peer, call) \/ \E k \in DOMAIN down : down'[i] = down[k]
<1>1. PICK m : m = Messages(s, NoId, <<t>>)
    OBVIOUS
<1>2. m \in Seq(Message)
    BY <1>1, HelloMessage
<1>3. \A k \in DOMAIN m : m[k].id = NoId
    <2>1. \A ts : \A k \in DOMAIN Messages(s, NoId, ts) :
              Messages(s, NoId, ts)[k] = [t |-> ts[k], s |-> s, id |-> NoId]
        BY DEF Messages
    <2> QED BY <1>1, <2>1
<1>4. \A k \in DOMAIN m : MessageFits(m[k], peer, call)
    BY <1>3 DEF MessageFits
<1>5. down' = down \o m
    BY <1>1
<1> QED BY <1>2, <1>4, <1>5, OthersFit

LEMMA ClosedFits ==
    ASSUME IInv, NEW P, work' = {IF j \in P THEN Closed(j) ELSE j : j \in work}
    PROVE  \A j \in work' : \E k \in work : k.s = j.s /\ k.id = j.id /\ k.kind = j.kind
<1>1. \A k \in Job : /\ Closed(k).kind = k.kind /\ Closed(k).s = k.s
                     /\ Closed(k).id = k.id
    BY DEF Job, Closed
<1> QED BY <1>1 DEF IInv, Typed

\* The messages under way are of a session, and about an id or the session.
LEMMA MessagesNamed ==
    ASSUME IInv
    PROVE  \A i \in DOMAIN down :
              down[i].s \in Nat /\ (down[i].id # NoId => down[i].id \in Ids)
<1>1. \A i \in DOMAIN down : down[i] \in Message
    BY DEF IInv, Typed
<1>2. \A m \in Message : m.s \in 1..MaxSessions /\ (m.id # NoId => m.id \in Ids)
    BY DEF Message
<1> QED BY <1>1, <1>2, Bounds

\* The phone speaks about an id that is fresh, or goes on with what it is.
LEMMA SayFits ==
    ASSUME IInv, Fits, NEW b \in Ids, NEW to, NEW kind \in {"http", "ws"},
           NEW t, NEW last, Say(t, b, last), t # Hello, UNCHANGED peer,
           kind = IF t \in HttpFrames THEN "http" ELSE "ws",
           call[b] \in {"fresh"} \cup Calls(kind), to \in Calls(kind),
           call' = [call EXCEPT ![b] = to]
    PROVE  Fits'
<1>1. /\ UNCHANGED <<down, session, requests, work, resets>>
      /\ up' = Append(up, [t |-> t, s |-> peer, id |-> b, last |-> last])
    BY DEF Say, maps
<1>2. \A id \in Ids : \A k \in {"http", "ws"} : call[id] \in Calls(k) => call'[id] \in Calls(k)
    BY DEF IInv, Typed, Calls, HttpCalls, WsCalls
<1>3. \A i \in DOMAIN up : FrameFits(up[i], peer', call')
    <2>1. \A i \in DOMAIN up : up[i].t # Hello => up[i].id \in Ids
        BY DEF IInv, FramesInOrder
    <2> QED BY <1>2, <2>1 DEF Fits, FrameFits, FrameKind
<1>4. \A i \in DOMAIN up' : FrameFits(up'[i], peer', call')
    <2>1. PICK f : f = [t |-> t, s |-> peer, id |-> b, last |-> last]
        OBVIOUS
    <2>2. up' = Append(up, f) /\ f.t = t /\ f.id = b
        BY <1>1, <2>1
    <2>3. call'[b] \in Calls(kind)
        BY DEF IInv, Typed
    <2>4. FrameFits(f, peer', call')
        BY <2>2, <2>3 DEF FrameFits, FrameKind
    <2>5. \A i \in DOMAIN up' : up'[i] = f \/ (i \in DOMAIN up /\ up'[i] = up[i])
        BY <2>2 DEF IInv, Typed
    <2> QED BY <1>3, <2>4, <2>5
<1>5. \A j \in work' : JobFits(j, peer', call')
    BY <1>1, <1>2 DEF Fits, JobFits, IInv, Typed, Job
<1>6. \A id \in DOMAIN requests' : session' = peer' => call'[id] \in HttpCalls
    BY <1>1 DEF Fits, IInv, Typed, Calls, HttpCalls, WsCalls
<1>7. \A i \in DOMAIN down' : MessageFits(down'[i], peer', call')
    <2>1. \A i \in DOMAIN down : down[i].id # NoId => down[i].id \in Ids
        BY MessagesNamed
    <2> QED BY <1>1, <1>2, <2>1 DEF Fits, MessageFits, NameKind
<1>8. \A r \in resets' : r.s <= peer'
    BY <1>1 DEF Fits
<1> QED BY <1>4, <1>5, <1>6, <1>7, <1>8 DEF Fits

\* A hello: nothing under way is of the session that it asks for.
LEMMA SayHelloFits == ASSUME IInv, Fits, Rest, SayHello PROVE Fits'
<1>1. /\ UNCHANGED <<down, session, requests, work, resets>>
      /\ \E f : up' = Append(up, f) /\ f.t = Hello
      /\ peer' = peer + 1 /\ peer \in Nat /\ session \in 0..peer
    BY Bounds DEF SayHello, Say, maps, IInv, Typed
<1>2. \A i \in DOMAIN up' : FrameFits(up'[i], peer', call')
    <2>1. PICK f : up' = Append(up, f) /\ f.t = Hello
        BY <1>1
    <2>2. \A i \in DOMAIN up' : up'[i] = f \/ (i \in DOMAIN up /\ up'[i] = up[i])
        BY <2>1 DEF IInv, Typed
    <2>3. \A i \in DOMAIN up : up[i].s \in Nat /\ up[i].s <= peer
        BY FramesNumbered DEF IInv, FramesInOrder
    <2> QED BY <1>1, <2>1, <2>2, <2>3 DEF FrameFits
<1>3. \A j \in work' : JobFits(j, peer', call')
    <2>1. \A j \in work : j.s \in Nat /\ j.s <= peer
        BY Bounds DEF IInv, Typed, Job, WorkTyped
    <2> QED BY <1>1, <2>1 DEF JobFits
<1>4. \A i \in DOMAIN down' : MessageFits(down'[i], peer', call')
    <2>1. \A i \in DOMAIN down : down[i].s \in Nat
        BY MessagesNamed
    <2> QED BY <1>1, <2>1 DEF Fits, MessageFits
<1>5. \A r \in resets' : r.s <= peer'
    BY <1>1, Bounds DEF Fits, Rest, Counts
<1> QED BY <1>1, <1>2, <1>3, <1>4, <1>5 DEF Fits

LEMMA PhoneFits ==
    ASSUME IInv, Fits, Rest,
           \/ SayHello
           \/ \E id \in Ids : \/ Ask(id) \/ Post(id) \/ Open(id) \/ Speak(id) \/ Leave(id)
                              \/ \E last \in BOOLEAN : Upload(id, last)
    PROVE  Fits'
<1> SUFFICES ASSUME NEW id \in Ids,
                    \/ Ask(id) \/ Post(id) \/ Open(id) \/ Speak(id) \/ Leave(id)
                    \/ \E last \in BOOLEAN : Upload(id, last)
             PROVE  Fits'
    BY SayHelloFits
<1>1. \A from, to : Turn(id, from, to) =>
          call[id] \in from /\ call' = [call EXCEPT ![id] = to] /\ UNCHANGED peer
    BY DEF Turn
<1> USE DEF HttpFrames, Calls, HttpCalls, WsCalls, Hello
<1>2. CASE Ask(id)
    BY <1>1, <1>2, SayFits DEF Ask
<1>3. CASE Post(id)
    BY <1>1, <1>3, SayFits DEF Post
<1>4. CASE Open(id)
    BY <1>1, <1>4, SayFits DEF Open
<1>5. CASE Speak(id)
    BY <1>1, <1>5, SayFits DEF Speak
<1>6. CASE Leave(id)
    <2>1. PICK from : /\ from = {"open"} \cup (IF Eager THEN {"opening"} ELSE {})
                      /\ Turn(id, from, "left") /\ Say("ws-close", id, FALSE)
        BY <1>6 DEF Leave
    <2>2. from \subseteq {"open", "opening"}
        BY <2>1
    <2>3. call[id] \in from /\ call' = [call EXCEPT ![id] = "left"] /\ UNCHANGED peer
        BY <1>1, <2>1
    <2> QED BY <2>1, <2>2, <2>3, SayFits
<1>7. ASSUME NEW last \in BOOLEAN, Upload(id, last) PROVE Fits'
    <2>1. PICK to : to = IF last THEN "asked" ELSE "uploading"
        OBVIOUS
    <2>2. call[id] = "uploading" /\ call' = [call EXCEPT ![id] = to]
          /\ UNCHANGED peer /\ Say("http-data", id, last)
        BY <1>1, <1>7, <2>1 DEF Upload
    <2> QED BY <2>1, <2>2, SayFits
<1> QED BY <1>2, <1>3, <1>4, <1>5, <1>6, <1>7

\* What the phone hears leaves a call what it is, a request or a bridge.
LEMMA HearFits == ASSUME IInv, Fits, Rest, Hear PROVE Fits'
<1>1. PICK m : m = Head(down)
    OBVIOUS
<1>2. /\ down' = Tail(down) /\ m \in Message /\ m = down[1] /\ 1 \in DOMAIN down
      /\ \A i \in DOMAIN down' : \E k \in DOMAIN down : down'[i] = down[k]
      /\ UNCHANGED <<peer, up, session, requests, work, resets>>
    BY <1>1, Removed DEF Hear, IInv, Typed, maps
<1>3. \/ UNCHANGED call
      \/ /\ m.s = peer /\ m.id \in Ids
         /\ call' = [call EXCEPT ![m.id] = Learnt(@, m.t)]
    BY <1>1, <1>2 DEF Hear, Message
<1>4. \A id \in Ids : \A k \in {"http", "ws"} : call[id] \in Calls(k) => call'[id] \in Calls(k)
    <2>1. CASE UNCHANGED call
        BY <2>1
    <2>2. CASE m.s = peer /\ m.id \in Ids /\ call' = [call EXCEPT ![m.id] = Learnt(@, m.t)]
        <3>1. call[m.id] \in Calls(NameKind(m.t))
            BY <1>2, <2>2, SessionAssumption DEF Fits, MessageFits
        <3>2. call'[m.id] = Learnt(call[m.id], m.t)
            BY <2>2 DEF IInv, Typed
        <3>3. Learnt(call[m.id], m.t) \in Calls(NameKind(m.t))
            BY <3>1 DEF Learnt, Calls, NameKind, HttpCalls, WsCalls
        <3>4. HttpCalls \cap WsCalls = {}
            BY DEF HttpCalls, WsCalls
        <3>5. ASSUME NEW id \in Ids, NEW k \in {"http", "ws"}, call[id] \in Calls(k)
              PROVE  call'[id] \in Calls(k)
            <4>1. CASE id # m.id
                BY <2>2, <3>5, <4>1 DEF IInv, Typed
            <4>2. CASE id = m.id
                BY <3>1, <3>2, <3>3, <3>4, <3>5, <4>2 DEF Calls, NameKind
            <4> QED BY <4>1, <4>2
        <3> QED BY <3>5
    <2> QED BY <1>3, <2>1, <2>2
<1>5. \A i \in DOMAIN up' : FrameFits(up'[i], peer', call')
    <2>1. \A i \in DOMAIN up : up[i].t # Hello => up[i].id \in Ids
        BY DEF IInv, FramesInOrder
    <2> QED BY <1>2, <1>4, <2>1 DEF Fits, FrameFits, FrameKind
<1>6. \A j \in work' : JobFits(j, peer', call')
    BY <1>2, <1>4 DEF Fits, JobFits, IInv, Typed, Job
<1>7. \A id \in DOMAIN requests' : session' = peer' => call'[id] \in HttpCalls
    <2>1. ASSUME NEW id \in DOMAIN requests, session = peer PROVE call'[id] \in HttpCalls
        <3>1. call[id] \in HttpCalls
            BY <2>1 DEF Fits
        <3> QED BY <1>4, <2>1, <3>1 DEF Calls, Rest, Maps
    <2> QED BY <1>2, <2>1
<1>8. \A i \in DOMAIN down' : MessageFits(down'[i], peer', call')
    <2>1. \A i \in DOMAIN down : down[i].id # NoId => down[i].id \in Ids
        BY MessagesNamed
    <2>2. \A i \in DOMAIN down : MessageFits(down[i], peer', call')
        BY <1>2, <1>4, <2>1 DEF Fits, MessageFits, NameKind
    <2> QED BY <1>2, <2>2
<1> QED BY <1>2, <1>5, <1>6, <1>7, <1>8 DEF Fits

LEMMA TornDownFits ==
    ASSUME IInv, work' = TornDown
    PROVE  \A j \in work' : \E k \in work : k.s = j.s /\ k.id = j.id /\ k.kind = j.kind
<1>1. PICK P : P = {j \in work : j.s = session /\ j.id \in bridges}
    OBVIOUS
<1>2. work' = {IF j \in P THEN Closed(j) ELSE j : j \in work}
    BY <1>1 DEF TornDown
<1> QED BY <1>2, ClosedFits

LEMMA CloseFits == ASSUME IInv, Fits, Close PROVE Fits'
<1>1. /\ UNCHANGED <<peer, call, resets>> /\ FewerFrames /\ work' = TornDown
      /\ DOMAIN requests' = {} /\ down' = <<>>
    BY DEF Close, NoMaps, Nothing, phone, FewerFrames
<1> QED BY <1>1, TornDownFits, HostFits DEF Fits

\* A frame of a later session than the phone's is of none: the Host acts on
\* what fits, and adds what fits.
LEMMA FrameLeavesFit == ASSUME IInv, Fits, OnFrame PROVE Fits'
<1>1. PICK f : f = Head(up)
    OBVIOUS
<1>2. /\ up # <<>> /\ up' = Tail(up) /\ UNCHANGED <<peer, call, resets>>
      /\ \/ AdoptSession(f) \/ RejectHello(f)
         \/ /\ f.s = session
            /\ \/ HttpReq(f) \/ HttpData(f) \/ WsOpen(f) \/ RefusePath(f)
               \/ WsMsg(f) \/ WsClose(f)
    BY <1>1 DEF OnFrame, phone
<1>3. FewerFrames
    BY <1>2 DEF FewerFrames
<1>4. f \in Frame /\ f = up[1] /\ 1 \in DOMAIN up
    BY <1>1, <1>2, Removed DEF IInv, Typed
<1>5. f.s \in 1..MaxSessions /\ (f.t # Hello => f.id \in Ids)
    BY <1>4 DEF Frame, IInv, FramesInOrder
<1>6. f.t # Hello /\ f.s = peer => call[f.id] \in Calls(FrameKind(f))
    BY <1>4 DEF Fits, FrameFits
<1>7. session <= peer
    BY Bounds DEF IInv, Typed
<1> DEFINE JobsFit == \A j \in work' : \/ JobFits(j, peer, call)
                                       \/ \E k \in work : k.s = j.s /\ k.id = j.id /\ k.kind = j.kind
           MapsFit == \A id \in DOMAIN requests' : session' = peer => call[id] \in HttpCalls
           DownFits == \A i \in DOMAIN down' : \/ MessageFits(down'[i], peer, call)
                                               \/ \E k \in DOMAIN down : down'[i] = down[k]
<1>8. JobsFit /\ MapsFit /\ DownFits => Fits'
    BY <1>2, <1>3, HostFits DEF Fits
<1>9. /\ UNCHANGED work => JobsFit
      /\ UNCHANGED <<requests, session>> => MapsFit
      /\ UNCHANGED down => DownFits
    BY DEF Fits
<1> HIDE DEF JobsFit, MapsFit, DownFits
<1>10. CASE CloseTransport
    BY <1>8, <1>9, <1>10 DEF CloseTransport, maps
<1>11. CASE AdoptSession(f)
    <2>1. /\ work' = TornDown /\ DOMAIN requests' = {}
          /\ down' = down \o Messages(f.s, NoId, <<"ack">>)
        BY <1>11 DEF AdoptSession, NoMaps, Nothing
    <2>2. JobsFit
        BY <2>1, TornDownFits DEF JobsFit
    <2>3. DownFits
        <3>1. PICK s \in 1..MaxSessions : s = f.s
            BY <1>5
        <3> QED BY <2>1, <3>1, HelloFits DEF DownFits
    <2> QED BY <1>8, <2>1, <2>2, <2>3 DEF MapsFit
<1>12. CASE RejectHello(f)
    <2>1. PICK s \in 1..MaxSessions : s = f.s
        BY <1>5
    <2>2. /\ down' = down \o Messages(s, NoId, <<"error">>)
          /\ UNCHANGED <<session, work, requests>>
        BY <1>12, <2>1 DEF RejectHello, maps
    <2>3. DownFits
        BY <2>2, HelloFits DEF DownFits
    <2> QED BY <1>8, <1>9, <2>2, <2>3
<1>13. ASSUME f.s = session, f.t # Hello, NEW kind, kind = FrameKind(f),
              NEW at, work' = work \cup {[s |-> session, id |-> f.id, kind |-> kind, at |-> at]}
       PROVE  JobsFit
    <2>1. PICK n : n = [s |-> session, id |-> f.id, kind |-> kind, at |-> at]
        OBVIOUS
    <2>2. work' = work \cup {n} /\ n.s = session /\ n.id = f.id /\ n.kind = kind
        BY <1>13, <2>1
    <2>3. JobFits(n, peer, call)
        BY <1>6, <1>13, <2>2 DEF JobFits
    <2> QED BY <2>2, <2>3 DEF JobsFit
<1>14. ASSUME f.s = session, f.t # Hello, NEW t \in MessageNames, Send(session, f.id, <<t>>),
              FrameKind(f) = NameKind(t)
       PROVE  DownFits
    <2>1. PICK a \in 1..MaxSessions, b \in Ids : a = session /\ b = f.id
        BY <1>5, <1>14
    <2>2. Send(a, b, <<t>>) /\ a <= peer /\ (a = peer => call[b] \in Calls(NameKind(t)))
        BY <1>6, <1>7, <1>14, <2>1
    <2> QED BY <2>2, OneSaidFits DEF DownFits
<1>15. /\ {"http-res", "ws-err"} \subseteq MessageNames
       /\ NameKind("http-res") = "http" /\ NameKind("ws-err") = "ws"
    BY DEF MessageNames, NameKind
<1>16. /\ f.t \in HttpFrames => FrameKind(f) = "http" /\ f.t # Hello
       /\ f.t \in {"ws-open", "ws-msg", "ws-close"} => FrameKind(f) = "ws" /\ f.t # Hello
    BY DEF FrameKind, HttpFrames, Hello
<1>17. \A id : Forward(id) =>
          work' = work \cup {[s |-> session, id |-> id, kind |-> "http", at |-> "cookie"]}
    BY DEF Forward
<1>18. CASE f.s = session /\ HttpReq(f) /\ ~CloseTransport
    <2>1. /\ UNCHANGED <<down, session>> /\ f.t \in HttpFrames
          /\ \/ Forward(f.id) /\ UNCHANGED requests
             \/ UNCHANGED work /\ DOMAIN requests' = DOMAIN requests \cup {f.id}
        BY <1>18 DEF HttpReq, HttpFrames
    <2>2. JobsFit
        BY <1>9, <1>13, <1>16, <1>17, <1>18, <2>1
    <2>3. MapsFit
        BY <1>6, <1>16, <1>18, <2>1 DEF MapsFit, Fits, Calls
    <2> QED BY <1>8, <1>9, <2>1, <2>2, <2>3
<1>19. CASE f.s = session /\ HttpData(f) /\ ~CloseTransport
    <2>1. /\ UNCHANGED session /\ f.t \in HttpFrames
          /\ UNCHANGED down \/ Send(session, f.id, <<"http-res">>)
          /\ UNCHANGED work \/ Forward(f.id)
          /\ DOMAIN requests' \subseteq DOMAIN requests
        BY <1>19 DEF HttpData, HttpFrames, Without
    <2>2. JobsFit
        BY <1>9, <1>13, <1>16, <1>17, <1>19, <2>1
    <2>3. DownFits
        BY <1>9, <1>14, <1>15, <1>16, <1>19, <2>1
    <2>4. MapsFit
        BY <2>1 DEF MapsFit, Fits
    <2> QED BY <1>8, <2>2, <2>3, <2>4
<1>20. CASE f.s = session /\ WsOpen(f) /\ ~CloseTransport
    <2>1. /\ f.t = "ws-open" /\ UNCHANGED <<down, session, requests>>
          /\ work' = work \cup {[s |-> session, id |-> f.id, kind |-> "ws", at |-> "cookie"]}
        BY <1>20 DEF WsOpen, maps
    <2>2. JobsFit
        BY <1>13, <1>16, <1>20, <2>1
    <2> QED BY <1>8, <1>9, <2>1, <2>2
<1>21. CASE f.s = session /\ RefusePath(f)
    <2>1. /\ \/ f.t \in HttpFrames /\ Send(session, f.id, <<"http-res">>)
             \/ f.t = "ws-open" /\ Send(session, f.id, <<"ws-err">>)
          /\ UNCHANGED <<session, requests, work>>
        BY <1>21, SessionAssumption DEF RefusePath, HttpFrames
    <2>2. DownFits
        BY <1>14, <1>15, <1>16, <1>21, <2>1
    <2> QED BY <1>8, <1>9, <2>1, <2>2
<1>22. CASE f.s = session /\ WsMsg(f) /\ ~CloseTransport
    BY <1>8, <1>9, <1>22 DEF WsMsg, maps
<1>23. CASE f.s = session /\ WsClose(f) /\ ~CloseTransport
    <2>1. CASE UNCHANGED <<down, session, work, maps>>
        BY <1>8, <1>9, <2>1 DEF maps
    <2>2. CASE /\ UNCHANGED <<down, session, requests>>
               /\ work' = {IF j.s = session /\ j.id = f.id THEN Closed(j) ELSE j : j \in work}
        <3>1. PICK P : P = {j \in work : j.s = session /\ j.id = f.id}
            OBVIOUS
        <3>2. work' = {IF j \in P THEN Closed(j) ELSE j : j \in work}
            BY <2>2, <3>1
        <3>3. JobsFit
            BY <3>2, ClosedFits DEF JobsFit
        <3> QED BY <1>8, <1>9, <2>2, <3>3
    <2> QED BY <1>23, <2>1, <2>2 DEF WsClose
<1> QED BY <1>2, <1>10, <1>11, <1>12, <1>18, <1>19, <1>20, <1>21, <1>22, <1>23

\* A job says what its kind is asked for.
LEMMA UpstreamFits ==
    ASSUME IInv, Fits, AskedIsHttp, NEW j \in work, Upstream(j)
    PROVE  Fits'
<1>1. /\ UNCHANGED <<peer, call, up, session, requests>>
      /\ \/ Cookie(j) \/ Begin(j) \/ Respond(j) \/ Connected(j) \/ Failed(j)
         \/ Ended(j) \/ Said(j) \/ Reset(j)
    BY DEF Upstream, phone, Cookie, Begin, Respond, Connected, Failed, Ended, Said,
           Reset, Gone, maps
<1>2. /\ j \in Job /\ j.s \in 1..MaxSessions /\ j.id \in Ids /\ j.kind \in {"http", "ws"}
      /\ j.s <= peer /\ JobFits(j, peer, call)
    BY DEF IInv, Typed, Job, WorkTyped, Fits
<1>3. work' \subseteq work \/ \E at : Become(j, at)
    BY <1>1 DEF Cookie, Begin, Respond, Connected, Failed, Ended, Said, Reset, Gone, Done, maps
<1>4. \/ UNCHANGED down
      \/ /\ j.kind = "http"
         /\ Send(j.s, j.id, <<"http-res">>) \/ Send(j.s, j.id, <<"http-res", "http-res">>)
      \/ /\ j.kind = "ws"
         /\ \/ \E t \in {"ws-ack", "ws-msg", "ws-close"} : Send(j.s, j.id, <<t>>)
            \/ Send(j.s, j.id, <<"ws-err", "ws-close">>)
    <2>1. /\ j.at \in {"asked", "begun"} => j.kind = "http"
          /\ j.at \in {"connecting", "open", "closing", "aborting"} => j.kind = "ws"
        BY DEF AskedIsHttp, IInv, WorkTyped
    <2>2. CASE Cookie(j) \/ Begin(j)
        BY <2>2 DEF Cookie, Begin
    <2>3. CASE Respond(j) \/ Reset(j)
        BY <2>1, <2>3 DEF Respond, Reset
    <2>4. CASE Connected(j) \/ Said(j)
        BY <2>1, <2>4 DEF Connected, Said
    <2>5. CASE Failed(j) \/ Ended(j)
        BY <2>1, <2>5 DEF Failed, Ended, Gone
    <2> QED BY <1>1, <2>2, <2>3, <2>4, <2>5
<1>5. \A k \in work' : \E l \in work : l.s = k.s /\ l.id = k.id /\ l.kind = k.kind
    <2>1. CASE work' \subseteq work
        BY <2>1
    <2>2. ASSUME NEW at, Become(j, at)
          PROVE  \A k \in work' : \E l \in work : l.s = k.s /\ l.id = k.id /\ l.kind = k.kind
        <3>1. PICK n : n = [j EXCEPT !.at = at]
            OBVIOUS
        <3>2. work' = (work \ {j}) \cup {n} /\ n.s = j.s /\ n.id = j.id /\ n.kind = j.kind
            BY <1>2, <2>2, <3>1 DEF Become, Job
        <3> QED BY <3>2
    <2> QED BY <1>3, <2>1, <2>2
<1>6. \A i \in DOMAIN down' :
          MessageFits(down'[i], peer, call) \/ \E k \in DOMAIN down : down'[i] = down[k]
    <2>1. /\ {"http-res", "ws-ack", "ws-err", "ws-msg", "ws-close"} \subseteq MessageNames
          /\ NameKind("http-res") = "http" /\ NameKind("ws-err") = "ws"
          /\ \A t \in {"ws-ack", "ws-msg", "ws-close"} : NameKind(t) = "ws"
        BY DEF MessageNames, NameKind
    <2>2. PICK a \in 1..MaxSessions, b \in Ids : a = j.s /\ b = j.id
        BY <1>2
    <2>3. a <= peer /\ (a = peer => call[b] \in Calls(j.kind))
        BY <1>2, <2>2 DEF JobFits
    <2>4. CASE UNCHANGED down
        BY <2>4
    <2>5. CASE j.kind = "http" /\ Send(a, b, <<"http-res">>)
        BY <2>1, <2>3, <2>5, OneSaidFits
    <2>6. CASE j.kind = "http" /\ Send(a, b, <<"http-res", "http-res">>)
        BY <2>1, <2>3, <2>6, TwoSaidFit
    <2>7. ASSUME j.kind = "ws", NEW t \in {"ws-ack", "ws-msg", "ws-close"}, Send(a, b, <<t>>)
          PROVE  \A i \in DOMAIN down' :
                    \/ MessageFits(down'[i], peer, call)
                    \/ \E k \in DOMAIN down : down'[i] = down[k]
        BY <2>1, <2>3, <2>7, OneSaidFits
    <2>8. CASE j.kind = "ws" /\ Send(a, b, <<"ws-err", "ws-close">>)
        BY <2>1, <2>3, <2>8, TwoSaidFit
    <2> QED BY <1>4, <2>2, <2>4, <2>5, <2>6, <2>7, <2>8
<1>7. \A r \in resets' : r.s <= peer
    <2>1. UNCHANGED resets \/ resets' = resets \cup {[s |-> j.s, id |-> j.id]}
        BY DEF Upstream
    <2> QED BY <1>2, <2>1 DEF Fits
<1>8. FewerFrames
    BY <1>1 DEF FewerFrames
<1>9. \A id \in DOMAIN requests' : session' = peer => call[id] \in HttpCalls
    BY <1>1 DEF Fits
<1> QED BY <1>1, <1>5, <1>6, <1>7, <1>8, <1>9, HostFits

LEMMA FitsInit == Init => Fits
BY DEF Init, Fits, Nothing

LEMMA FitsStep ==
    ASSUME IInv, Fits, AskedIsHttp, Rest, [Next]_vars
    PROVE  Fits'
<1>1. CASE \/ SayHello
           \/ \E id \in Ids : \/ Ask(id) \/ Post(id) \/ Open(id) \/ Speak(id) \/ Leave(id)
                              \/ \E last \in BOOLEAN : Upload(id, last)
    BY <1>1, PhoneFits
<1>2. CASE Hear
    BY <1>2, HearFits
<1>3. CASE OnFrame
    BY <1>3, FrameLeavesFit
<1>4. CASE \E j \in work : Upstream(j)
    BY <1>4, UpstreamFits
<1>5. CASE Close
    BY <1>5, CloseFits
<1>6. CASE UNCHANGED vars
    <2>1. UNCHANGED <<peer, call, up, down, session, requests, work, resets>>
        BY <1>6 DEF vars, phone, maps
    <2> QED BY <2>1 DEF Fits, FrameFits, JobFits, MessageFits
<1> QED BY <1>1, <1>2, <1>3, <1>4, <1>5, <1>6 DEF Next

\* What a turn of the phone is to the contract.
LEMMA SeenTurn ==
    ASSUME IInv, NEW id \in Ids, NEW to, call' = [call EXCEPT ![id] = to],
           UNCHANGED <<peer, resets>>
    PROVE  /\ Seen[id] = Outcome(call[id])
           /\ Seen' = [Seen EXCEPT ![id] = Outcome(to)]
           /\ Doubled' = Doubled
BY DEF Seen, Doubled, IInv, Typed

LEMMA SeenTurned ==
    ASSUME IInv, NEW id \in Ids, NEW to, call' = [call EXCEPT ![id] = to],
           UNCHANGED <<peer, resets>>,
           NEW from, Outcome(call[id]) \in from
    PROVE  Contract!Turn(id, from, Outcome(to))
BY SeenTurn DEF Contract!Turn

\* A turn that the contract does not see.
LEMMA SeenSame ==
    ASSUME IInv, NEW id \in Ids, NEW to, call' = [call EXCEPT ![id] = to],
           UNCHANGED <<peer, resets>>, Outcome(to) = Outcome(call[id])
    PROVE  UNCHANGED <<peer, Seen, Doubled>>
<1>1. Seen[id] = Outcome(to) /\ Seen' = [Seen EXCEPT ![id] = Outcome(to)] /\ Doubled' = Doubled
    BY SeenTurn
<1>2. Seen' = Seen
    BY <1>1 DEF Seen
<1> QED BY <1>1, <1>2

LEMMA HelloRenews == ASSUME IInv, Fits, Rest, SayHello PROVE Contract!Renew
<1>1. /\ peer' = peer + 1 /\ call' = Fresh /\ UNCHANGED resets /\ peer \in Nat
    BY Bounds DEF SayHello, Say, IInv, Typed
<1>2. Seen' = Contract!Fresh
    BY <1>1 DEF Seen, Fresh, Outcome, Contract!Fresh
<1>3. \A r \in resets : r.s \in Nat /\ r.s <= peer
    BY Bounds DEF Fits, Rest, Counts
<1>4. Doubled' = {}
    <2>1. ASSUME NEW id \in Ids, [s |-> peer + 1, id |-> id] \in resets PROVE FALSE
        BY <1>1, <1>3, <2>1
    <2> QED BY <1>1, <2>1 DEF Doubled
<1> QED BY <1>1, <1>2, <1>4 DEF Contract!Renew

LEMMA PhoneTurns ==
    ASSUME IInv, NEW id \in Ids,
           \/ Ask(id) \/ Post(id) \/ Open(id) \/ Speak(id) \/ Leave(id)
           \/ \E last \in BOOLEAN : Upload(id, last)
    PROVE  Contract!Next \/ UNCHANGED <<peer, Seen, Doubled>>
<1>1. \A from, to : Turn(id, from, to) =>
          call[id] \in from /\ call' = [call EXCEPT ![id] = to] /\ UNCHANGED peer
    BY DEF Turn
<1>2. UNCHANGED resets
    BY DEF Ask, Post, Open, Speak, Leave, Upload, Say
<1>3. /\ Outcome("fresh") = "fresh" /\ Outcome("asked") = "asked"
      /\ Outcome("uploading") = "asked" /\ Outcome("opening") = "opening"
      /\ Outcome("open") = "open" /\ Outcome("left") = "over"
    BY DEF Outcome
<1>4. CASE Ask(id) \/ Post(id)
    <2>1. PICK to \in {"asked", "uploading"} : Turn(id, {"fresh"}, to)
        BY <1>4 DEF Ask, Post
    <2>2. Contract!Turn(id, {"fresh"}, Outcome(to))
        BY <1>1, <1>2, <1>3, <2>1, SeenTurned
    <2>3. Contract!Ask(id)
        BY <1>3, <2>1, <2>2 DEF Contract!Ask
    <2> QED BY <2>3 DEF Contract!Next
<1>5. CASE Open(id)
    <2>1. Contract!Turn(id, {"fresh"}, Outcome("opening"))
        BY <1>1, <1>2, <1>3, <1>5, SeenTurned DEF Open
    <2>2. Contract!Open(id)
        BY <1>3, <2>1 DEF Contract!Open
    <2> QED BY <2>2 DEF Contract!Next
<1>6. CASE Speak(id)
    <2>1. call[id] = "open" /\ call' = [call EXCEPT ![id] = "open"] /\ UNCHANGED peer
        BY <1>1, <1>6 DEF Speak
    <2> QED BY <1>2, <2>1, SeenSame
<1>7. CASE Leave(id)
    <2>1. PICK from : /\ from = {"open"} \cup (IF Eager THEN {"opening"} ELSE {})
                      /\ Turn(id, from, "left")
        BY <1>7 DEF Leave
    <2>2. call[id] \in {"opening", "open"}
        BY <1>1, <2>1
    <2>3. Outcome(call[id]) \in {"opening", "open"}
        BY <1>3, <2>2
    <2>4. Contract!Turn(id, {"opening", "open"}, Outcome("left"))
        BY <1>1, <1>2, <2>1, <2>3, SeenTurned
    <2>5. Contract!Over(id)
        BY <1>3, <2>4 DEF Contract!Over
    <2> QED BY <2>5 DEF Contract!Next
<1>8. ASSUME NEW last \in BOOLEAN, Upload(id, last)
      PROVE  UNCHANGED <<peer, Seen, Doubled>>
    <2>1. PICK to \in {"asked", "uploading"} : Turn(id, {"uploading"}, to)
        BY <1>8 DEF Upload
    <2>2. Outcome(call[id]) = Outcome(to)
        BY <1>1, <1>3, <2>1
    <2> QED BY <1>1, <1>2, <2>1, <2>2, SeenSame
<1> QED BY <1>4, <1>5, <1>6, <1>7, <1>8

\* An answer is the first, or one of the two of a reset.
LEMMA HearTurns ==
    ASSUME IInv, Fits, OwedOnce, Hear
    PROVE  Contract!Next \/ UNCHANGED <<peer, Seen, Doubled>>
<1>1. PICK m : m = Head(down)
    OBVIOUS
<1>2. /\ m \in Message /\ m = down[1] /\ 1 \in DOMAIN down /\ UNCHANGED <<peer, resets>>
    BY <1>1, Removed DEF Hear, IInv, Typed
<1>3. \/ UNCHANGED call
      \/ /\ m.s = peer /\ m.id \in Ids
         /\ call' = [call EXCEPT ![m.id] = Learnt(@, m.t)]
    BY <1>1, <1>2 DEF Hear, Message
<1>4. CASE UNCHANGED call
    BY <1>2, <1>4 DEF Seen, Doubled
<1>5. CASE m.s = peer /\ m.id \in Ids /\ call' = [call EXCEPT ![m.id] = Learnt(@, m.t)]
    <2>1. PICK id \in Ids : id = m.id
        BY <1>5
    <2>2. PICK was, to : id = m.id /\ was = call[id] /\ to = Learnt(was, m.t)
        BY <2>1
    <2>3. call' = [call EXCEPT ![id] = to]
        BY <1>5, <2>2 DEF IInv, Typed
    <2>4. was \in Calls(NameKind(m.t))
        BY <1>2, <1>5, <2>2, SessionAssumption DEF Fits, MessageFits
    <2>5. CASE Outcome(to) = Outcome(was)
        BY <1>2, <2>2, <2>3, <2>5, SeenSame
    <2>6. CASE m.t = "http-res"
        <3>1. /\ was \in HttpCalls
              /\ to = IF was \in {"answered", "twice"} THEN "twice" ELSE "answered"
            BY <2>2, <2>4, <2>6 DEF Calls, NameKind, Learnt
        <3>2. CASE was \in {"asked", "uploading"}
            <4>1. Outcome(was) \in {"asked"} /\ to = "answered" /\ Outcome(to) = "answered"
                BY <3>1, <3>2 DEF Outcome
            <4>2. Contract!Turn(id, {"asked"}, Outcome(to))
                BY <1>2, <2>2, <2>3, <4>1, SeenTurned
            <4>3. Contract!Answer(id)
                BY <4>1, <4>2 DEF Contract!Answer
            <4> QED BY <4>3 DEF Contract!Next
        <3>3. CASE was = "answered"
            <4>1. Outcome(was) \in {"answered"} /\ to = "twice" /\ Outcome(to) = "twice"
                BY <3>1, <3>3 DEF Outcome
            <4>2. Contract!Turn(id, {"answered"}, Outcome(to))
                BY <1>2, <2>2, <2>3, <4>1, SeenTurned
            <4>3. id \in Doubled
                <5>1. PICK s \in 1..MaxSessions : s = peer
                    BY <1>2, <1>5 DEF Message
                <5>2. InOnePlace(s, id)
                    BY DEF OwedOnce
                <5>3. Answered(down, s, id) /\ Heard(s, id)
                    BY <1>2, <1>5, <2>2, <2>6, <3>3, <5>1 DEF Answered, Answers, Heard
                <5>4. WasReset(s, id)
                    BY <5>2, <5>3 DEF InOnePlace
                <5> QED BY <5>1, <5>4 DEF Doubled, WasReset
            <4>4. Contract!AnswerAgain(id)
                BY <4>1, <4>2, <4>3 DEF Contract!AnswerAgain
            <4> QED BY <4>4 DEF Contract!Next
        <3>4. CASE was = "twice"
            BY <2>5, <3>1, <3>4
        <3> QED BY <3>1, <3>2, <3>3, <3>4 DEF HttpCalls
    <2>7. CASE m.t = "ws-ack"
        <3>1. to = IF was = "opening" THEN "open" ELSE was
            BY <2>2, <2>7 DEF Learnt
        <3>2. CASE was = "opening"
            <4>1. Outcome(was) \in {"opening"} /\ Outcome(to) = "open"
                BY <3>1, <3>2 DEF Outcome
            <4>2. Contract!Turn(id, {"opening"}, Outcome(to))
                BY <1>2, <2>2, <2>3, <4>1, SeenTurned
            <4>3. Contract!Opened(id)
                BY <4>1, <4>2 DEF Contract!Opened
            <4> QED BY <4>3 DEF Contract!Next
        <3> QED BY <2>5, <3>1, <3>2
    <2>8. CASE m.t \in {"ws-err", "ws-close"}
        <3>1. was \in WsCalls /\ to = "ended"
            BY <2>2, <2>4, <2>8 DEF Calls, NameKind, Learnt
        <3>2. CASE was \in {"opening", "open"}
            <4>1. Outcome(was) \in {"opening", "open"} /\ Outcome(to) = "over"
                BY <3>1, <3>2 DEF Outcome
            <4>2. Contract!Turn(id, {"opening", "open"}, Outcome(to))
                BY <1>2, <2>2, <2>3, <4>1, SeenTurned
            <4>3. Contract!Over(id)
                BY <4>1, <4>2 DEF Contract!Over
            <4> QED BY <4>3 DEF Contract!Next
        <3>3. CASE was \in {"left", "ended"}
            <4>1. Outcome(to) = Outcome(was)
                BY <3>1, <3>3 DEF Outcome
            <4> QED BY <2>5, <4>1
        <3> QED BY <3>1, <3>2, <3>3 DEF WsCalls
    <2>9. CASE m.t \notin {"http-res", "ws-ack", "ws-err", "ws-close"}
        <3>1. to = was
            BY <2>2, <2>9 DEF Learnt
        <3> QED BY <2>5, <3>1
    <2> QED BY <2>6, <2>7, <2>8, <2>9
<1> QED BY <1>3, <1>4, <1>5

\* A response that is reset is of a request that has not been answered.
LEMMA ResetTurns ==
    ASSUME IInv, Fits, OwedOnce, AskedIsHttp, NEW j \in work, Upstream(j)
    PROVE  Contract!Next \/ UNCHANGED <<peer, Seen, Doubled>>
<1>1. UNCHANGED <<peer, call>> /\ Seen' = Seen
    BY DEF Upstream, phone, Seen
<1>2. CASE UNCHANGED resets
    BY <1>1, <1>2 DEF Doubled
<1>3. CASE Reset(j) /\ j.s = session /\ resets' = resets \cup {[s |-> j.s, id |-> j.id]}
    <2>1. PICK s \in 1..MaxSessions, id \in Ids : s = j.s /\ id = j.id
        BY DEF IInv, Typed, Job
    <2>2. resets' = resets \cup {[s |-> s, id |-> id]}
        BY <1>3, <2>1
    <2>3. CASE s # peer
        <3>1. \A i \in Ids : [s |-> peer, id |-> i] # [s |-> s, id |-> id]
            BY <2>3
        <3>2. Doubled' = Doubled
            BY <1>1, <2>2, <3>1 DEF Doubled
        <3> QED BY <1>1, <3>2
    <2>4. CASE s = peer
        <3>1. j.kind = "http"
            BY <1>3 DEF Reset, AskedIsHttp
        <3>2. call[id] \in HttpCalls
            BY <2>1, <2>4, <3>1 DEF Fits, JobFits, Calls
        <3>3. ~Heard(s, id)
            <4>1. Forwarded(work, s, id)
                BY <2>1, <3>1 DEF Forwarded, Forwards
            <4>2. InOnePlace(s, id)
                BY DEF OwedOnce
            <4> QED BY <4>1, <4>2 DEF InOnePlace
        <3>4. call[id] \in {"asked", "uploading"}
            BY <2>4, <3>2, <3>3 DEF Heard, HttpCalls
        <3>5. Seen[id] = "asked"
            BY <3>4 DEF Seen, Outcome
        <3>6. Doubled' = Doubled \cup {id}
            <4>1. \A i \in Ids : [s |-> peer, id |-> i] = [s |-> s, id |-> id] <=> i = id
                BY <2>4
            <4> QED BY <1>1, <2>2, <4>1 DEF Doubled
        <3>7. Contract!Reset(id)
            BY <1>1, <3>5, <3>6 DEF Contract!Reset
        <3> QED BY <3>7 DEF Contract!Next
    <2> QED BY <2>3, <2>4
<1> QED BY <1>2, <1>3 DEF Upstream

LEMMA SessionContractStep ==
    ASSUME IInv, Fits, OwedOnce, AskedIsHttp, Rest, [Next]_vars
    PROVE  [Contract!Next]_<<peer, Seen, Doubled>>
<1>1. CASE SayHello
    BY <1>1, HelloRenews DEF Contract!Next
<1>2. CASE \E id \in Ids : \/ Ask(id) \/ Post(id) \/ Open(id) \/ Speak(id) \/ Leave(id)
                           \/ \E last \in BOOLEAN : Upload(id, last)
    BY <1>2, PhoneTurns
<1>3. CASE Hear
    BY <1>3, HearTurns
<1>4. CASE \E j \in work : Upstream(j)
    BY <1>4, ResetTurns
<1>5. CASE OnFrame \/ Close \/ UNCHANGED vars
    <2>1. UNCHANGED <<peer, call, resets>>
        BY <1>5 DEF OnFrame, Close, vars, phone
    <2> QED BY <2>1 DEF Seen, Doubled
<1> QED BY <1>1, <1>2, <1>3, <1>4, <1>5 DEF Next

(***************************************************************************)
(* What a phone hears of an id on a carrier is about what it asked for by  *)
(* it, in the session it is in: every behaviour of the session, with its   *)
(* frames, jobs, late answers and re-handshakes, is one of the contract.   *)
(***************************************************************************)
THEOREM SessionImplementsContract == Spec => ImplementsRequestContract
<1>1. Init => Contract!Init
    <2> SUFFICES ASSUME Init PROVE Contract!Init
        OBVIOUS
    <2>1. Seen = Contract!Fresh
        BY DEF Init, Fresh, Seen, Outcome, Contract!Fresh
    <2>2. peer \in {0, 1} /\ Doubled = {}
        BY DEF Init, Doubled
    <2> QED BY <2>1, <2>2 DEF Contract!Init
<1>2. Init => IInv /\ Fits /\ OwedOnce /\ AskedIsHttp /\ Rest
    BY SessionInit, OwedInit, FitsInit
<1>3. IInv /\ Fits /\ OwedOnce /\ AskedIsHttp /\ Rest /\ [Next]_vars
      => (IInv /\ Fits /\ OwedOnce /\ AskedIsHttp /\ Rest)'
    BY SessionNext, FitsStep, OwedStep, AskedIsHttpStep, RestStep
<1>4. IInv /\ Fits /\ OwedOnce /\ AskedIsHttp /\ Rest /\ [Next]_vars
      => [Contract!Next]_<<peer, Seen, Doubled>>
    BY SessionContractStep
<1> QED BY <1>1, <1>2, <1>3, <1>4, PTL DEF Spec, ImplementsRequestContract, Contract!Spec
=============================================================================
