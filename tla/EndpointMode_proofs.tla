------------------------- MODULE EndpointMode_proofs ------------------------
(***************************************************************************)
(* What is shown and which tunnel processes run, for any addresses, ports   *)
(* and number of controllers.  Neither property is inductive.  That output  *)
(* of a tunnel never shows an address in another mode rests on there being  *)
(* no quick outside quick mode; and that no process is left over rests on   *)
(* every process being that of quick or of the controller retained, as long *)
(* as none has been forgotten, and on what is retained outside quick mode   *)
(* having been started late, by the apply() that is gone.                   *)
(***************************************************************************)
EXTENDS EndpointMode, FiniteSetTheorems, TLAPS

\* A process that is owned is not being stopped, and what it last said is the
\* address of its controller.
WellMade(c) ==
    /\ c \in Controller
    /\ c.child => ~c.stopping
    /\ c.said \in {c.endpoint, NoUrl}

Made(cs) ==
    /\ \E n \in Nat : n <= MaxControllers /\ DOMAIN cs = 1..n
    /\ \A c \in DOMAIN cs : WellMade(cs[c])

Typed ==
    /\ overlay \in Modes \cup {"none"} /\ mode \in Modes
    /\ Made(controllers)
    /\ {retained, quick, stale.quick} \subseteq DOMAIN controllers \cup {0}
    /\ endpoint \in Endpoint \cup {NoEndpoint}
    /\ (endpointState = "ready") <=> (endpoint # NoEndpoint)
    /\ listening \in {"pending", "failed", "listening"}
    /\ (listening = "listening") <=> (localGateway \in Ports)
    /\ localGateway \in Ports \cup {0}
    /\ probing \cup stale.probing \subseteq Modes
    /\ stale = [quick |-> stale.quick, local |-> stale.local, probing |-> stale.probing,
                seated |-> stale.seated, started |-> stale.started]
    /\ stale.local \in Ports \cup {0}

\* quick is of quick mode, and serves the Gateway that listens.
QuickServes ==
    /\ quick # 0 => mode = "quick" /\ listening = "listening"
    /\ quick # 0 /\ controllers[quick].child => controllers[quick].local = localGateway

\* No process is left over, unless its controller has been forgotten.
Owned ==
    \/ lost
    \/ \A c \in DOMAIN controllers : controllers[c].child => c \in {quick, retained}

\* Outside quick mode nothing is retained but what was started late.
NoneRetained ==
    listening = "listening" /\ mode # "quick"
        => retained = 0 \/ (stale.started /\ retained = stale.quick)

ShownIsOfMode == endpoint # NoEndpoint => endpoint.kind = KindOf(mode)

ShownRuns ==
    endpoint.kind = "temporary" =>
        /\ quick # 0 /\ controllers[quick].child
        /\ controllers[quick].endpoint = endpoint.url

IInv ==
    /\ Typed /\ QuickServes /\ Owned /\ NoneRetained /\ ShownIsOfMode /\ ShownRuns

-----------------------------------------------------------------------------
\* The methods of a controller.
LEMMA PortsAreNat == Ports \subseteq Nat /\ 0 \notin Ports /\ MaxControllers \in Nat
BY EndpointBoundsAssumption

LEMMA StoppedIsMade == \A c : WellMade(Stopped(c)) /\ ~Stopped(c).child
BY DEF WellMade, Stopped, Idle, Controller

LEMMA StartedIsMade ==
    ASSUME NEW local \in Nat
    PROVE  /\ WellMade(Started(Idle, local)) /\ Started(Idle, local).child
           /\ Started(Idle, local).local = local
BY DEF WellMade, Started, Idle, Controller

LEMMA HeardIsMade ==
    ASSUME NEW c, WellMade(c), NEW url \in Urls
    PROVE  /\ WellMade(Heard(c, url)) /\ Heard(c, url).child = c.child
           /\ Heard(c, url).local = c.local /\ Heard(c, url).endpoint = url
BY DEF WellMade, Heard, Controller

LEMMA RespawnedIsMade ==
    ASSUME NEW c, WellMade(c), c.child
    PROVE  WellMade(Respawned(c)) /\ Respawned(c).child /\ Respawned(c).local = c.local
BY DEF WellMade, Respawned, Controller

LEMMA EndedIsMade ==
    ASSUME NEW c, WellMade(c)
    PROVE  WellMade(Ended(c)) /\ ~Ended(c).child
BY DEF WellMade, Ended, Controller

\* One controller, if any, is stopped.
LEMMA WithStoppedIsMade ==
    ASSUME NEW cs, NEW c, Made(cs)
    PROVE  /\ Made(WithStopped(cs, c)) /\ DOMAIN WithStopped(cs, c) = DOMAIN cs
           /\ \A i \in DOMAIN cs : i # c => WithStopped(cs, c)[i] = cs[i]
           /\ c \in DOMAIN cs => ~WithStopped(cs, c)[c].child
<1>1. /\ DOMAIN WithStopped(cs, c) = DOMAIN cs
      /\ \A i \in DOMAIN cs : i # c => WithStopped(cs, c)[i] = cs[i]
      /\ c \in DOMAIN cs => WithStopped(cs, c)[c] = Stopped(cs[c])
  BY DEF WithStopped
<1>2. \A i \in DOMAIN cs : WellMade(WithStopped(cs, c)[i])
  BY <1>1, StoppedIsMade DEF Made
<1> QED
  BY <1>1, <1>2, StoppedIsMade DEF Made

\* One is written.
LEMMA WriteIsMade ==
    ASSUME NEW cs, NEW c \in DOMAIN cs, NEW new, Made(cs), WellMade(new)
    PROVE  Made([cs EXCEPT ![c] = new])
BY DEF Made

\* One is added, and is the last.
LEMMA WithStartedIsMade ==
    ASSUME NEW cs, NEW local \in Nat, Made(cs), Cardinality(DOMAIN cs) < MaxControllers
    PROVE  LET n == Cardinality(DOMAIN cs) + 1
               new == WithStarted(cs, local)
           IN  /\ Made(new) /\ DOMAIN new = DOMAIN cs \cup {n}
               /\ n \notin DOMAIN cs /\ n # 0
               /\ \A i \in DOMAIN cs : new[i] = cs[i]
               /\ new[n].child /\ new[n].local = local
<1>1. PICK m \in Nat : m <= MaxControllers /\ DOMAIN cs = 1..m
  BY DEF Made
<1>2. Cardinality(DOMAIN cs) = m
  BY <1>1, FS_Interval
<1> DEFINE new == WithStarted(cs, local)
<1>3. /\ DOMAIN new = 1..(m + 1)
      /\ \A i \in 1..m : new[i] = cs[i]
      /\ new[m + 1] = Started(Idle, local)
  BY <1>1, <1>2 DEF WithStarted
<1> HIDE DEF new
<1>4. \A i \in 1..(m + 1) : WellMade(new[i])
  BY <1>1, <1>3, StartedIsMade DEF Made
<1>5. Made(new)
  <2>1. m + 1 \in Nat /\ m + 1 <= MaxControllers
    BY <1>2, PortsAreNat
  <2> QED
    BY <1>3, <1>4, <2>1 DEF Made
<1> QED
  BY <1>1, <1>2, <1>3, <1>5, StartedIsMade DEF new

\* Alive is to own a process.
LEMMA AliveHasChild ==
    ASSUME Typed
    PROVE  \A c \in DOMAIN controllers : Alive(controllers[c]) <=> controllers[c].child
BY DEF Typed, Made, WellMade, Alive

LEMMA NotZero == ASSUME Typed PROVE 0 \notin DOMAIN controllers
BY DEF Typed, Made

\* What the mode shows at first.
LEMMA InitialIsOfMode ==
    ASSUME NEW m \in Modes
    PROVE  /\ InitialEndpoint(m) \in Endpoint \cup {NoEndpoint}
           /\ InitialEndpoint(m) # NoEndpoint <=> m # "quick"
           /\ InitialEndpoint(m).kind # "temporary"
           /\ InitialEndpoint(m) # NoEndpoint => InitialEndpoint(m).kind = KindOf(m)
BY DEF InitialEndpoint, Endpoint, NoEndpoint, Modes, KindOf

LEMMA EndpointInit == Init => IInv
<1> SUFFICES ASSUME Init PROVE IInv
  OBVIOUS
<1>1. ConfigMode \in Modes /\ mode = ConfigMode /\ endpoint = InitialEndpoint(mode)
  BY ModeAssumption DEF Init
<1>2. Made(controllers) /\ DOMAIN controllers = {}
  BY PortsAreNat DEF Init, Made
<1>3. (endpointState = "ready") <=> (endpoint # NoEndpoint)
  BY <1>1, InitialIsOfMode DEF Init
<1>4. Typed
  BY <1>1, <1>2, <1>3, InitialIsOfMode, PortsAreNat DEF Init, Typed
<1>5. ShownIsOfMode /\ ShownRuns
  BY <1>1, InitialIsOfMode DEF ShownIsOfMode, ShownRuns
<1> QED
  BY <1>2, <1>4, <1>5 DEF Init, IInv, QuickServes, Owned, NoneRetained

-----------------------------------------------------------------------------
\* What a step may show.
Shows(e, s) ==
    /\ e \in Endpoint \cup {NoEndpoint}
    /\ (s = "ready") <=> (e # NoEndpoint)

LEMMA NoEndpointShown ==
    /\ NoEndpoint.kind # "temporary" /\ Shows(NoEndpoint, "loading")
    /\ Shows(NoEndpoint, "error")
BY DEF Shows, NoEndpoint

LEMMA TemporaryShown ==
    ASSUME NEW url \in Urls
    PROVE  LET e == [kind |-> "temporary", url |-> url]
           IN  /\ Shows(e, "ready") /\ e.kind = KindOf("quick") /\ e.url = url
               /\ e # NoEndpoint
BY DEF Shows, Endpoint, NoEndpoint, KindOf

LEMMA SelectedShown ==
    ASSUME NEW m \in {"custom", "relay"}
    PROVE  LET e == [kind |-> m, url |-> NoUrl]
           IN  /\ Shows(e, "ready") /\ e.kind = KindOf(m) /\ e.kind # "temporary"
BY DEF Shows, Endpoint, NoEndpoint, KindOf

\* A tunnel is started for a Gateway, when the controllers are cs.
LEMMA StartStep ==
    ASSUME IInv, NEW cs, NEW local \in Ports, Made(cs), DOMAIN cs = DOMAIN controllers,
           lost \/ \A c \in DOMAIN cs : ~cs[c].child,
           StartTunnel(cs, local),
           localGateway' = local, listening' = "listening", mode' = "quick",
           overlay' \in Modes \cup {"none"}, probing' \subseteq probing,
           UNCHANGED <<stale, lost>>
    PROVE  IInv'
<1>1. PICK n : n = Cardinality(DOMAIN controllers) + 1
  OBVIOUS
<1>2. /\ controllers' = WithStarted(cs, local) /\ quick' = n /\ retained' = n
      /\ endpoint' = NoEndpoint /\ endpointState' = "loading"
      /\ Cardinality(DOMAIN cs) < MaxControllers
  BY <1>1 DEF StartTunnel, Show
<1>3. /\ Made(controllers') /\ DOMAIN controllers' = DOMAIN cs \cup {n}
      /\ n \notin DOMAIN cs /\ n # 0
      /\ \A i \in DOMAIN cs : controllers'[i] = cs[i]
      /\ controllers'[n].child /\ controllers'[n].local = local
  <2>1. local \in Nat /\ Made(cs) /\ Cardinality(DOMAIN cs) < MaxControllers
    BY <1>2, PortsAreNat
  <2>2. LET k == Cardinality(DOMAIN cs) + 1
            new == WithStarted(cs, local)
        IN  /\ Made(new) /\ DOMAIN new = DOMAIN cs \cup {k}
            /\ k \notin DOMAIN cs /\ k # 0
            /\ \A i \in DOMAIN cs : new[i] = cs[i]
            /\ new[k].child /\ new[k].local = local
    BY <2>1, WithStartedIsMade
  <2>3. n = Cardinality(DOMAIN cs) + 1
    BY <1>1
  <2> QED
    BY <1>2, <2>2, <2>3
<1>4. Typed'
  BY <1>2, <1>3, NoEndpointShown DEF IInv, Typed, Shows, Modes
<1>5. QuickServes' /\ NoneRetained' /\ ShownIsOfMode' /\ ShownRuns'
  BY <1>2, <1>3, NoEndpointShown DEF QuickServes, NoneRetained, ShownIsOfMode, ShownRuns
<1>6. Owned'
  BY <1>2, <1>3 DEF Owned
<1> QED
  BY <1>4, <1>5, <1>6 DEF IInv

LEMMA ListenStep == ASSUME IInv, NEW port \in Ports, Listen(port) PROVE IInv'
<1>1. /\ listening = "pending" /\ listening' = "listening" /\ localGateway' = port
      /\ ListenOther(port) \/ ListenReuse(port) \/ ListenStart(port)
      /\ UNCHANGED <<overlay, mode, probing, stale, lost>>
  BY DEF Listen
<1>2. quick = 0 /\ endpoint.kind # "temporary"
  BY <1>1 DEF IInv, QuickServes, ShownRuns
<1>3. /\ Made(WithStopped(controllers, retained))
      /\ DOMAIN WithStopped(controllers, retained) = DOMAIN controllers
      /\ \A i \in DOMAIN controllers :
            i # retained => WithStopped(controllers, retained)[i] = controllers[i]
      /\ retained \in DOMAIN controllers => ~WithStopped(controllers, retained)[retained].child
  BY WithStoppedIsMade DEF IInv, Typed
<1>4. lost \/ \A c \in DOMAIN controllers : ~WithStopped(controllers, retained)[c].child
  BY <1>2, <1>3, NotZero DEF IInv, Owned
<1>5. CASE ListenOther(port)
  <2>1. /\ controllers' = WithStopped(controllers, retained) /\ retained' = 0
        /\ UNCHANGED <<quick, endpoint, endpointState>>
    BY <1>5 DEF ListenOther, shown
  <2>2. Typed'
    BY <1>1, <1>3, <2>1 DEF IInv, Typed
  <2>3. Owned'
    BY <1>1, <1>3, <1>4, <2>1 DEF Owned
  <2> QED
    BY <1>1, <1>2, <2>1, <2>2, <2>3
    DEF IInv, QuickServes, NoneRetained, ShownIsOfMode, ShownRuns
<1>6. CASE ListenReuse(port)
  <2>1. /\ mode = "quick" /\ quick' = retained /\ UNCHANGED <<controllers, retained>>
        /\ retained # 0 /\ Alive(controllers[retained]) /\ controllers[retained].local = port
    BY <1>6 DEF ListenReuse, IsAlive
  <2>2. retained \in DOMAIN controllers /\ controllers[retained].child
    BY <2>1, AliveHasChild DEF IInv, Typed
  <2>3. controllers[retained].endpoint \in Urls \cup {NoUrl}
    BY <2>2 DEF IInv, Typed, Made, WellMade, Controller
  <2>4. \/ UNCHANGED <<endpoint, endpointState>>
        \/ \E url \in Urls :
              /\ controllers[retained].endpoint = url
              /\ endpoint' = [kind |-> "temporary", url |-> url] /\ endpointState' = "ready"
    BY <1>6, <2>3 DEF ListenReuse, Show, shown
  <2>5. /\ endpoint' \in Endpoint \cup {NoEndpoint}
        /\ (endpointState' = "ready") <=> (endpoint' # NoEndpoint)
        /\ endpoint' # NoEndpoint => endpoint'.kind = KindOf(mode)
        /\ endpoint'.kind = "temporary" => endpoint'.url = controllers[retained].endpoint
    BY <1>2, <2>1, <2>4, TemporaryShown DEF IInv, Typed, ShownIsOfMode, Shows
  <2>6. Typed'
    BY <1>1, <2>1, <2>5 DEF IInv, Typed
  <2>7. Owned'
    BY <1>1, <2>1, <1>2, NotZero DEF IInv, Owned
  <2> QED
    BY <1>1, <2>1, <2>2, <2>5, <2>6, <2>7
    DEF IInv, QuickServes, NoneRetained, ShownIsOfMode, ShownRuns
<1>7. CASE ListenStart(port)
  <2>1. mode = "quick" /\ StartTunnel(WithStopped(controllers, retained), port)
    BY <1>7 DEF ListenStart
  <2> QED
    BY <1>1, <1>3, <1>4, <2>1, StartStep DEF IInv, Typed
<1> QED
  BY <1>1, <1>5, <1>6, <1>7

\* Nothing happens but to what is being probed.
LEMMA ProbeStep ==
    ASSUME IInv, \/ ListenFails
                 \/ \E m \in Modes : Probe(m) \/ ProbeFails(m)
    PROVE  IInv'
<1>1. /\ UNCHANGED <<overlay, retained, controllers, mode, endpoint, endpointState, quick,
                     localGateway, stale, lost>>
      /\ \/ listening' = listening
         \/ listening = "pending" /\ listening' = "failed"
      /\ probing' \subseteq probing \cup Modes
  BY DEF ListenFails, Probe, ProbeFails, shown, gateway
<1>2. Typed'
  BY <1>1 DEF IInv, Typed
<1> QED
  BY <1>1, <1>2 DEF IInv, QuickServes, Owned, NoneRetained, ShownIsOfMode, ShownRuns

LEMMA SaveProbedStep == ASSUME IInv, NEW m \in Modes, SaveProbed(m) PROVE IInv'
<1>1. /\ m \in {"custom", "relay"} /\ probing' \subseteq probing /\ overlay' = m /\ mode' = m
      /\ controllers' = WithStopped(controllers, quick)
      /\ lost' = (lost \/ Forgets(quick)) /\ quick' = 0 /\ retained' = 0
      /\ endpoint' = [kind |-> m, url |-> NoUrl] /\ endpointState' = "ready"
      /\ UNCHANGED <<listening, localGateway, stale>>
  BY DEF SaveProbed, Show, gateway, Modes
<1>2. /\ Made(controllers') /\ DOMAIN controllers' = DOMAIN controllers
      /\ \A i \in DOMAIN controllers : i # quick => controllers'[i] = controllers[i]
      /\ quick \in DOMAIN controllers => ~controllers'[quick].child
  BY <1>1, WithStoppedIsMade DEF IInv, Typed
<1>3. Typed'
  BY <1>1, <1>2, SelectedShown DEF IInv, Typed, Shows, Modes
<1>4. Owned'
  <2>1. CASE lost \/ Forgets(quick)
    BY <1>1, <2>1 DEF Owned
  <2>2. CASE ~lost /\ ~Forgets(quick)
    <3>1. \A c \in DOMAIN controllers : controllers[c].child => c = quick
      BY <2>2, AliveHasChild, NotZero DEF IInv, Owned, Forgets, IsAlive
    <3> QED
      BY <1>2, <3>1 DEF Owned
  <2> QED
    BY <2>1, <2>2
<1> QED
  BY <1>1, <1>3, <1>4, SelectedShown
  DEF IInv, QuickServes, NoneRetained, ShownIsOfMode, ShownRuns

\* In the closure that is gone.
LEMMA SaveProbedLateStep == ASSUME IInv, NEW m \in Modes, SaveProbedLate(m) PROVE IInv'
<1>1. /\ m \in Modes /\ overlay' = m
      /\ controllers' = WithStopped(controllers, stale.quick)
      /\ lost' = (lost \/ (Forgets(stale.quick) /\ retained # quick))
      /\ retained' = 0
      /\ stale' = [quick |-> 0, local |-> stale.local, probing |-> stale.probing \ {m},
                   seated |-> m = "relay", started |-> FALSE]
      /\ UNCHANGED <<mode, quick, listening, localGateway, probing>>
  BY DEF SaveProbedLate, gateway, IInv, Typed
<1>2. /\ Made(controllers') /\ DOMAIN controllers' = DOMAIN controllers
      /\ \A i \in DOMAIN controllers : i # stale.quick => controllers'[i] = controllers[i]
      /\ stale.quick \in DOMAIN controllers => ~controllers'[stale.quick].child
  BY <1>1, WithStoppedIsMade DEF IInv, Typed
<1>3. \/ UNCHANGED <<endpoint, endpointState>>
      \/ endpoint' = NoEndpoint /\ endpointState' = "loading"
  BY DEF SaveProbedLate, Report, Show, shown
<1>4. quick # 0 /\ quick = stale.quick => endpoint' = NoEndpoint
  BY DEF SaveProbedLate, Report, Show, IInv, QuickServes
<1>5. Typed'
  BY <1>1, <1>2, <1>3, NoEndpointShown DEF IInv, Typed, Shows, Modes
<1>6. QuickServes' /\ NoneRetained' /\ ShownIsOfMode'
  BY <1>1, <1>2, <1>3 DEF IInv, Typed, QuickServes, NoneRetained, ShownIsOfMode
<1>7. ShownRuns'
  BY <1>1, <1>2, <1>3, <1>4, NoEndpointShown DEF IInv, Typed, ShownRuns
<1>8. Owned'
  <2>1. CASE lost \/ (Forgets(stale.quick) /\ retained # quick)
    BY <1>1, <2>1 DEF Owned
  <2>2. CASE ~lost /\ ~(Forgets(stale.quick) /\ retained # quick)
    <3>1. \A c \in DOMAIN controllers :
             controllers[c].child => c \in {quick, stale.quick}
      BY <2>2, AliveHasChild, NotZero DEF IInv, Owned, Forgets, IsAlive
    <3> QED
      BY <1>1, <1>2, <3>1 DEF Owned
  <2> QED
    BY <2>1, <2>2
<1> QED
  BY <1>5, <1>6, <1>7, <1>8 DEF IInv

LEMMA SaveQuickStep == ASSUME IInv, SaveQuick PROVE IInv'
<1>1. /\ overlay' = "quick" /\ mode' = "quick" /\ probing' \subseteq probing
      /\ UNCHANGED <<listening, localGateway, stale, lost>>
  BY DEF SaveQuick, gateway
<1>2. CASE localGateway # 0 /\ ~IsAlive(quick)
  <2>1. /\ StartTunnel(WithStopped(controllers, retained), localGateway)
        /\ localGateway \in Ports /\ listening = "listening"
    BY <1>2 DEF SaveQuick, IInv, Typed
  <2>2. /\ Made(WithStopped(controllers, retained))
        /\ DOMAIN WithStopped(controllers, retained) = DOMAIN controllers
        /\ \A i \in DOMAIN controllers :
              i # retained => WithStopped(controllers, retained)[i] = controllers[i]
        /\ retained \in DOMAIN controllers =>
              ~WithStopped(controllers, retained)[retained].child
    BY WithStoppedIsMade DEF IInv, Typed
  <2>3. \A c \in DOMAIN controllers : controllers[c].child => c # quick
    BY <1>2, AliveHasChild, NotZero DEF IInv, IsAlive
  <2>4. lost \/ \A c \in DOMAIN controllers : ~WithStopped(controllers, retained)[c].child
    BY <2>2, <2>3 DEF IInv, Owned
  <2>5. overlay' \in Modes \cup {"none"}
    BY <1>1 DEF Modes
  <2> QED
    BY <1>1, <2>1, <2>2, <2>4, <2>5, StartStep
<1>3. CASE ~(localGateway # 0 /\ ~IsAlive(quick))
  <2>1. /\ endpoint' = NoEndpoint /\ endpointState' = "loading"
        /\ UNCHANGED <<controllers, quick, retained>>
    BY <1>3 DEF SaveQuick, Show
  <2>2. Typed'
    BY <1>1, <2>1, NoEndpointShown DEF IInv, Typed, Shows, Modes
  <2> QED
    BY <1>1, <2>1, <2>2, NoEndpointShown
    DEF IInv, QuickServes, Owned, NoneRetained, ShownIsOfMode, ShownRuns
<1> QED
  BY <1>2, <1>3

\* In the closure that is gone.
LEMMA SaveQuickLateStep == ASSUME IInv, SaveQuickLate PROVE IInv'
<1>1. PICK starts \in BOOLEAN : starts = (stale.local # 0 /\ ~IsAlive(stale.quick))
  OBVIOUS
<1>2. PICK n : n = Cardinality(DOMAIN controllers) + 1
  OBVIOUS
<1>3. /\ overlay' = "quick"
      /\ stale' = [quick |-> IF starts THEN n ELSE stale.quick, local |-> stale.local,
                   probing |-> stale.probing \ {"quick"},
                   seated |-> (stale.seated /\ stale.local = 0),
                   started |-> (stale.started \/ starts)]
      /\ UNCHANGED <<mode, quick, listening, localGateway, probing, lost>>
  BY <1>1, <1>2 DEF SaveQuickLate, gateway, IInv, Typed
<1>4. CASE ~starts
  <2>1. UNCHANGED <<controllers, retained, endpoint, endpointState>>
    BY <1>1, <1>4 DEF SaveQuickLate, shown
  <2>2. Typed'
    BY <1>3, <1>4, <2>1 DEF IInv, Typed, Modes
  <2> QED
    BY <1>3, <1>4, <2>1, <2>2
    DEF IInv, QuickServes, Owned, NoneRetained, ShownIsOfMode, ShownRuns
<1>5. CASE starts
  <2> DEFINE cs == WithStopped(controllers, retained)
  <2>1. /\ controllers' = WithStarted(cs, stale.local) /\ retained' = n
        /\ n <= MaxControllers /\ stale.local # 0
        /\ IF retained = 0 THEN UNCHANGED <<endpoint, endpointState>>
           ELSE Report(retained, "stopped", NoUrl)
    BY <1>1, <1>2, <1>5 DEF SaveQuickLate, shown
  <2>2. /\ Made(cs) /\ DOMAIN cs = DOMAIN controllers
        /\ \A i \in DOMAIN controllers : i # retained => cs[i] = controllers[i]
        /\ retained \in DOMAIN controllers => ~cs[retained].child
    BY WithStoppedIsMade DEF IInv, Typed
  <2> HIDE DEF cs
  <2>3. Cardinality(DOMAIN cs) < MaxControllers /\ n = Cardinality(DOMAIN cs) + 1
    <3>1. PICK m \in Nat : DOMAIN cs = 1..m
      BY <2>2 DEF Made
    <3>2. Cardinality(DOMAIN cs) = m
      BY <3>1, FS_Interval
    <3>3. Cardinality(DOMAIN controllers) = m
      BY <2>2, <3>2
    <3>4. n = m + 1
      BY <1>2, <3>3
    <3> QED
      BY <2>1, <3>2, <3>4, PortsAreNat
  <2>4. stale.local \in Nat
    BY <2>1, PortsAreNat DEF IInv, Typed
  <2>5. /\ Made(controllers') /\ DOMAIN controllers' = DOMAIN cs \cup {n}
        /\ n \notin DOMAIN cs /\ n # 0
        /\ \A i \in DOMAIN cs : controllers'[i] = cs[i]
    <3>1. LET k == Cardinality(DOMAIN cs) + 1
              new == WithStarted(cs, stale.local)
          IN  /\ Made(new) /\ DOMAIN new = DOMAIN cs \cup {k}
              /\ k \notin DOMAIN cs /\ k # 0
              /\ \A i \in DOMAIN cs : new[i] = cs[i]
      BY <2>2, <2>3, <2>4, WithStartedIsMade
    <3> QED
      BY <2>1, <2>3, <3>1
  <2>6. \/ UNCHANGED <<endpoint, endpointState>>
        \/ endpoint' = NoEndpoint /\ endpointState' = "loading"
    BY <2>1 DEF Report, Show, shown
  <2>7. quick # 0 /\ quick = retained => endpoint' = NoEndpoint
    BY <2>1 DEF Report, Show, IInv, QuickServes
  <2>8. Typed'
    BY <1>3, <1>5, <2>1, <2>2, <2>5, <2>6, NoEndpointShown DEF IInv, Typed, Shows, Modes
  <2>9. QuickServes'
    BY <1>3, <2>2, <2>5 DEF IInv, Typed, QuickServes
  <2>10. Owned'
    BY <1>3, <2>1, <2>2, <2>5 DEF IInv, Owned
  <2>11. NoneRetained' /\ ShownIsOfMode'
    BY <1>3, <1>5, <2>1, <2>6 DEF IInv, NoneRetained, ShownIsOfMode
  <2>12. ShownRuns'
    BY <1>3, <2>2, <2>5, <2>6, <2>7, NoEndpointShown DEF IInv, Typed, ShownRuns
  <2> QED
    BY <2>8, <2>9, <2>10, <2>11, <2>12 DEF IInv
<1> QED
  BY <1>4, <1>5

\* One controller changes, and starts no process.
LEMMA ProcessStep ==
    ASSUME IInv, NEW c \in DOMAIN controllers, NEW new, WellMade(new),
           controllers' = [controllers EXCEPT ![c] = new],
           new.child => controllers[c].child /\ new.local = controllers[c].local,
           UNCHANGED <<overlay, retained, mode, quick, listening, localGateway, probing,
                       stale, lost>>,
           Shows(endpoint', endpointState'),
           \/ endpoint' = endpoint
              /\ (c = quick => new.child /\ new.endpoint = controllers[c].endpoint)
           \/ c # quick /\ endpoint' = endpoint
           \/ endpoint' = NoEndpoint
           \/ /\ c = quick /\ new.child
              /\ endpoint'.kind = KindOf("quick") /\ endpoint'.url = new.endpoint
    PROVE  IInv'
<1>1. /\ Made(controllers') /\ DOMAIN controllers' = DOMAIN controllers
      /\ \A i \in DOMAIN controllers : i # c => controllers'[i] = controllers[i]
      /\ controllers'[c] = new
  BY WriteIsMade DEF IInv, Typed
<1>2. c # 0
  BY NotZero DEF IInv
<1>3. Typed'
  BY <1>1 DEF IInv, Typed, Shows
<1>4. QuickServes' /\ NoneRetained' /\ Owned'
  BY <1>1 DEF IInv, Typed, QuickServes, NoneRetained, Owned
<1>5. ShownIsOfMode'
  BY <1>2 DEF IInv, QuickServes, ShownIsOfMode
<1>6. ShownRuns'
  BY <1>1, <1>2, NoEndpointShown DEF IInv, Typed, ShownRuns
<1> QED
  BY <1>3, <1>4, <1>5, <1>6 DEF IInv

LEMMA TunnelStep ==
    ASSUME IInv, NEW c \in DOMAIN controllers,
           \/ \E url \in Urls : Announce(c, url)
           \/ Crash(c)
           \/ \E status \in {"stopped", "error"} : End(c, status)
    PROVE  IInv'
<1>1. WellMade(controllers[c]) /\ c # 0
  BY NotZero DEF IInv, Typed, Made
<1>2. Shows(endpoint, endpointState)
  BY DEF IInv, Typed, Shows
<1>3. ASSUME NEW url \in Urls, Announce(c, url) PROVE IInv'
  <2>1. PICK new : new = Heard(controllers[c], url)
    OBVIOUS
  <2>2. /\ controllers' = [controllers EXCEPT ![c] = new] /\ controllers[c].child
        /\ UNCHANGED <<overlay, retained, mode, quick, listening, localGateway, probing,
                       stale, lost>>
    BY <1>1, <1>3, <2>1, AliveHasChild DEF Announce, gateway, IInv
  <2>3. /\ WellMade(new) /\ new.child /\ new.local = controllers[c].local
        /\ new.endpoint = url
    BY <1>1, <2>1, <2>2, HeardIsMade
  <2>4. CASE url = controllers[c].endpoint \/ c # quick
    <3>1. UNCHANGED <<endpoint, endpointState>>
      BY <1>3, <2>4 DEF Announce, IsNews, Report, shown
    <3> QED
      BY <1>2, <2>2, <2>3, <2>4, <3>1, ProcessStep
  <2>5. CASE url # controllers[c].endpoint /\ c = quick
    <3>1. endpoint' = [kind |-> "temporary", url |-> url] /\ endpointState' = "ready"
      BY <1>3, <2>5 DEF Announce, IsNews, Report, Show
    <3>2. /\ Shows(endpoint', endpointState') /\ endpoint'.kind = KindOf("quick")
          /\ endpoint'.url = url
      BY <3>1, TemporaryShown
    <3> QED
      BY <2>2, <2>3, <2>5, <3>2, ProcessStep
  <2> QED
    BY <2>4, <2>5
<1>4. CASE Crash(c)
  <2>1. PICK new : new = Respawned(controllers[c])
    OBVIOUS
  <2>2. /\ controllers' = [controllers EXCEPT ![c] = new] /\ controllers[c].child
        /\ UNCHANGED <<overlay, retained, mode, quick, listening, localGateway, probing,
                       stale, lost>>
    BY <1>4, <2>1 DEF Crash, gateway
  <2>3. WellMade(new) /\ new.child /\ new.local = controllers[c].local
    BY <1>1, <2>1, <2>2, RespawnedIsMade
  <2>4. \/ c # quick /\ UNCHANGED <<endpoint, endpointState>>
        \/ endpoint' = NoEndpoint /\ endpointState' = "loading"
    BY <1>4 DEF Crash, Report, Show, shown
  <2>5. Shows(endpoint', endpointState')
    BY <1>2, <2>4, NoEndpointShown
  <2> QED
    BY <2>2, <2>3, <2>4, <2>5, ProcessStep
<1>5. ASSUME NEW status \in {"stopped", "error"}, End(c, status) PROVE IInv'
  <2>1. PICK new : new = Ended(controllers[c])
    OBVIOUS
  <2>2. /\ controllers' = [controllers EXCEPT ![c] = new]
        /\ UNCHANGED <<overlay, retained, mode, quick, listening, localGateway, probing,
                       stale, lost>>
    BY <1>5, <2>1 DEF End, gateway
  <2>3. WellMade(new) /\ ~new.child
    BY <1>1, <2>1, EndedIsMade
  <2>4. \/ c # quick /\ UNCHANGED <<endpoint, endpointState>>
        \/ endpoint' = NoEndpoint /\ endpointState' \in {"loading", "error"}
    BY <1>1, <1>5 DEF End, Report, Show, shown, IInv, QuickServes
  <2>5. Shows(endpoint', endpointState')
    BY <1>2, <2>4, NoEndpointShown
  <2> QED
    BY <2>2, <2>3, <2>4, <2>5, ProcessStep
<1> QED
  BY <1>3, <1>4, <1>5

LEMMA ReloadStep == ASSUME IInv, Reload PROVE IInv'
<1>1. PICK m : m = IF overlay = "none" THEN ConfigMode ELSE overlay
  OBVIOUS
<1>2. /\ m \in Modes /\ mode' = m /\ endpoint' = InitialEndpoint(m)
      /\ endpointState' = (IF m = "quick" THEN "loading" ELSE "ready")
      /\ stale' = [quick |-> quick, local |-> localGateway, probing |-> probing,
                   seated |-> FALSE, started |-> FALSE]
      /\ lost' = (lost \/ (IsAlive(quick) /\ quick # retained))
      /\ quick' = 0 /\ probing' = {} /\ listening' = "pending" /\ localGateway' = 0
      /\ UNCHANGED <<overlay, retained, controllers>>
  BY <1>1, ModeAssumption DEF Reload, Show, IInv, Typed
<1>3. (endpointState' = "ready") <=> (endpoint' # NoEndpoint)
  BY <1>2, InitialIsOfMode
<1>4. Typed'
  BY <1>2, <1>3, InitialIsOfMode, PortsAreNat DEF IInv, Typed
<1>5. Owned'
  <2>1. CASE lost \/ (IsAlive(quick) /\ quick # retained)
    BY <1>2, <2>1 DEF Owned
  <2>2. CASE ~lost /\ ~(IsAlive(quick) /\ quick # retained)
    <3>1. \A c \in DOMAIN controllers : controllers[c].child => c = retained
      BY <2>2, AliveHasChild, NotZero DEF IInv, Owned, IsAlive
    <3> QED
      BY <1>2, <3>1 DEF Owned
  <2> QED
    BY <2>1, <2>2
<1>6. ShownIsOfMode' /\ ShownRuns'
  BY <1>2, InitialIsOfMode DEF ShownIsOfMode, ShownRuns
<1> QED
  BY <1>2, <1>4, <1>5, <1>6 DEF IInv, QuickServes, NoneRetained

LEMMA EndpointNext == IInv /\ [Next]_vars => IInv'
<1> SUFFICES ASSUME IInv, [Next]_vars PROVE IInv'
  OBVIOUS
<1>1. CASE UNCHANGED vars
  BY <1>1 DEF vars, shown, gateway, IInv, Typed, QuickServes, Owned, NoneRetained,
         ShownIsOfMode, ShownRuns
<1>2. CASE \E port \in Ports : Listen(port)
  BY <1>2, ListenStep
<1>3. CASE ListenFails \/ \E m \in Modes : Probe(m) \/ ProbeFails(m)
  BY <1>3, ProbeStep
<1>4. CASE \E m \in Modes : SaveProbed(m) \/ SaveProbedLate(m)
  BY <1>4, SaveProbedStep, SaveProbedLateStep
<1>5. CASE SaveQuick \/ SaveQuickLate
  BY <1>5, SaveQuickStep, SaveQuickLateStep
<1>6. CASE \E c \in DOMAIN controllers :
              \/ \E url \in Urls : Announce(c, url)
              \/ Crash(c)
              \/ \E status \in {"stopped", "error"} : End(c, status)
  BY <1>6, TunnelStep
<1>7. CASE Reload
  BY <1>7, ReloadStep
<1> QED
  BY <1>1, <1>2, <1>3, <1>4, <1>5, <1>6, <1>7 DEF Next

-----------------------------------------------------------------------------
\* The inductive invariant: which controllers may own a process, and what may be
\* shown, between any two handlers and process events.
THEOREM EndpointInvariant == Spec => []IInv
BY EndpointInit, EndpointNext, PTL DEF Spec

\* The variables keep their types, and an endpoint is shown exactly when the
\* state says that it is ready.
THEOREM EndpointTypeOK == Spec => []TypeOK
<1>1. IInv => TypeOK
  <2> SUFFICES ASSUME IInv PROVE TypeOK
    OBVIOUS
  <2>1. DOMAIN controllers \subseteq 1..MaxControllers
    BY PortsAreNat DEF IInv, Typed, Made
  <2> QED
    BY <2>1 DEF IInv, Typed, Made, WellMade, TypeOK, Modes
<1> QED
  BY <1>1, EndpointInvariant, PTL

\* A temporary address is advertised only while the process that was given it
\* runs for the Gateway that listens, however output, exits, restarts and
\* reloads interleave (index.ts:236-243, 273-280).
THEOREM EndpointAdvertisedTunnelRuns == Spec => []AdvertisedTunnelRuns
<1>1. IInv => AdvertisedTunnelRuns
  <2> SUFFICES ASSUME IInv, endpoint.kind = "temporary" PROVE AdvertisedTunnelRuns
    BY DEF AdvertisedTunnelRuns
  <2>1. /\ quick \in DOMAIN controllers /\ controllers[quick].child
        /\ controllers[quick].endpoint = endpoint.url
        /\ controllers[quick].local = localGateway
    BY DEF IInv, Typed, ShownRuns, QuickServes
  <2>2. controllers[quick].said \in {endpoint.url, NoUrl}
    BY <2>1 DEF IInv, Typed, Made, WellMade
  <2> QED
    BY <2>1, <2>2, AliveHasChild, NotZero DEF IInv, AdvertisedTunnelRuns, IsAlive
<1> QED
  BY <1>1, EndpointInvariant, PTL

\* What is shown is of the mode selected, and outside quick mode no tunnel
\* process exposes the Gateway, unless its controller was forgotten or started
\* by a quick selection that ends in the apply() that is gone
\* (handleEndpointSave; index.ts:307-331).
THEOREM EndpointModeDecides == Spec => []ModeDecides
<1>1. IInv => ModeDecides
  <2> SUFFICES ASSUME IInv PROVE ModeDecides
    OBVIOUS
  <2>1. ASSUME listening = "listening", mode # "quick", ~lost
        PROVE  \A c \in DOMAIN controllers : controllers[c].child => StartedLate(c)
    <3>1. quick = 0 /\ (retained = 0 \/ (stale.started /\ retained = stale.quick))
      BY <2>1 DEF IInv, QuickServes, NoneRetained
    <3> QED
      BY <2>1, <3>1, NotZero DEF IInv, Owned, StartedLate
  <2> QED
    BY <2>1 DEF IInv, ShownIsOfMode, ModeDecides
<1> QED
  BY <1>1, EndpointInvariant, PTL
=============================================================================
