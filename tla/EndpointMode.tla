---------------------------- MODULE EndpointMode ----------------------------
(***************************************************************************)
(* How the Host is reached: the Public Endpoint of src/index.ts, its mode, *)
(* the overlay file that remembers it (src/endpoint-settings.ts), and the  *)
(* Quick Tunnel of src/quick-tunnel.ts, whose controller outlives a reload *)
(* of the plugin in a slot of globalThis.                                  *)
(*                                                                         *)
(* Everything the plugin knows is a variable of one call of apply(), and a *)
(* reload makes a new one; the overlay file and the retained controller    *)
(* are shared.  Whoever selects a mode waits first: for the body of the    *)
(* request, and for the probe of a custom or relay address.  The plugin    *)
(* may be reloaded in between, and the rest of the handler then runs in    *)
(* the closure of the apply() that is gone, of which the last one is       *)
(* modelled.  That rest is one action, for stop() finishes before it       *)
(* returns.                                                                *)
(***************************************************************************)
EXTENDS QuickTunnel, FiniteSets

CONSTANTS
    ConfigMode,      \* endpointMode of the configuration
    Ports,           \* ports the Gateway may be given
    MaxControllers   \* bound on the controllers created

Modes == {"quick", "custom", "relay"}

ASSUME ModeAssumption == ConfigMode \in Modes

ASSUME EndpointBoundsAssumption ==
    /\ Ports \subseteq Nat \ {0}
    /\ MaxControllers \in Nat

VARIABLES
    overlay,         \* mode in the overlay file, "none" if there is no file
    retained,        \* controller in globalThis, 0 for none
    controllers,     \* every controller created: 1 .. n -> Controller
    mode,            \* live.mode
    endpoint,        \* endpoint, NoEndpoint for null
    endpointState,   \* endpointState
    quick,           \* quick, 0 for null
    listening,       \* gateway.listen(): pending, failed or listening
    localGateway,    \* port of localGateway, 0 for null
    probing,         \* selections being read or probed by this apply()
    stale,           \* the previous apply(): its quick, its localGateway, its
                     \* probes, its seats, whether its quick was started late
    lost             \* history: a live controller has been forgotten

vars == <<overlay, retained, controllers, mode, endpoint, endpointState,
          quick, listening, localGateway, probing, stale, lost>>

shown == <<endpoint, endpointState>>
gateway == <<listening, localGateway>>

NoEndpoint == [kind |-> "none", url |-> NoUrl]

Endpoint == [kind: {"temporary", "custom", "relay"}, url: Urls \cup {NoUrl}]

KindOf(m) == IF m = "quick" THEN "temporary" ELSE m

\* The endpoint apply() starts with: none in quick mode.
InitialEndpoint(m) ==
    IF m = "quick" THEN NoEndpoint ELSE [kind |-> m, url |-> NoUrl]

Show(e, s) == endpoint' = e /\ endpointState' = s

\* onQuickStatus(), told by controller c.  Only the current apply() matters,
\* and it listens to its own quick: the controllers it did not start or
\* reattach report to a closure that is gone.
Report(c, status, url) ==
    IF c # quick THEN UNCHANGED shown
    ELSE CASE status = "starting" -> Show(NoEndpoint, "loading")
           [] status = "ready" ->
                Show([kind |-> "temporary", url |-> url], "ready")
           [] status = "error" -> Show(NoEndpoint, "error")
           [] status = "stopped" ->
                IF mode = "quick" THEN Show(NoEndpoint, "loading")
                ELSE UNCHANGED shown

\* Controllers with c stopped, if there is one (quick?.stop()).
WithStopped(cs, c) == [i \in DOMAIN cs |-> IF i = c THEN Stopped(cs[i]) ELSE cs[i]]

\* startQuickTunnel() after the retained controller was stopped.
WithStarted(cs, local) ==
    [i \in 1..(Cardinality(DOMAIN cs) + 1) |->
        IF i \in DOMAIN cs THEN cs[i] ELSE Started(Idle, local)]

IsAlive(c) == c # 0 /\ Alive(controllers[c])

-----------------------------------------------------------------------------
Init ==
    /\ overlay = "none" /\ retained = 0 /\ controllers = <<>>
    /\ mode = ConfigMode
    /\ endpoint = InitialEndpoint(ConfigMode)
    /\ endpointState = IF ConfigMode = "quick" THEN "loading" ELSE "ready"
    /\ quick = 0 /\ listening = "pending" /\ localGateway = 0
    /\ probing = {}
    /\ stale = [quick |-> 0, local |-> 0, probing |-> {}, seated |-> FALSE,
                started |-> FALSE]
    /\ lost = FALSE

StartTunnel(cs, local) ==
    /\ Cardinality(DOMAIN controllers) < MaxControllers
    /\ controllers' = WithStarted(cs, local)
    /\ quick' = Cardinality(DOMAIN controllers) + 1
    /\ retained' = quick'
    /\ Show(NoEndpoint, "loading")

\* gateway.listen() resolved outside quick mode: the retained tunnel is ended.
ListenOther(port) ==
    /\ mode # "quick"
    /\ controllers' = WithStopped(controllers, retained)
    /\ retained' = 0
    /\ UNCHANGED <<quick, shown>>

\* Mutant: the retained tunnel is taken whatever Gateway it serves.
ListenReuseAny(port) ==
    /\ mode = "quick"
    /\ IsAlive(retained)
    /\ quick' = retained
    /\ IF controllers[retained].endpoint # NoUrl
       THEN Show([kind |-> "temporary", url |-> controllers[retained].endpoint],
                 "ready")
       ELSE UNCHANGED shown
    /\ UNCHANGED <<controllers, retained>>

\* ... in quick mode with a live tunnel for this very Gateway: it is reused.
ListenReuse(port) ==
    /\ mode = "quick"
    /\ IsAlive(retained) /\ controllers[retained].local = port
    /\ quick' = retained
    /\ IF controllers[retained].endpoint # NoUrl
       THEN Show([kind |-> "temporary", url |-> controllers[retained].endpoint],
                 "ready")
       ELSE UNCHANGED shown
    /\ UNCHANGED <<controllers, retained>>

\* ... in quick mode otherwise: the retained tunnel makes way for a new one.
ListenStart(port) ==
    /\ mode = "quick"
    /\ ~(IsAlive(retained) /\ controllers[retained].local = port)
    /\ StartTunnel(WithStopped(controllers, retained), port)

Listen(port) ==
    /\ listening = "pending"
    /\ listening' = "listening" /\ localGateway' = port
    /\ ListenOther(port) \/ ListenReuse(port) \/ ListenStart(port)
    /\ UNCHANGED <<overlay, mode, probing, stale, lost>>

\* gateway.listen() rejected: logged, and that is all.
ListenFails ==
    /\ listening = "pending"
    /\ listening' = "failed"
    /\ UNCHANGED <<overlay, retained, controllers, mode, shown, quick,
                   localGateway, probing, stale, lost>>

-----------------------------------------------------------------------------
\* handleEndpointSave up to what it awaits: the body, then the probe.
Probe(m) ==
    /\ probing' = probing \cup {m}
    /\ UNCHANGED <<overlay, retained, controllers, mode, shown, quick,
                   gateway, stale, lost>>

ProbeFails(m) ==
    /\ m \in probing
    /\ probing' = probing \ {m}
    /\ UNCHANGED <<overlay, retained, controllers, mode, shown, quick,
                   gateway, stale, lost>>

\* Forgetting the retained controller without having stopped it.
Forgets(stopped) == IsAlive(retained) /\ retained # stopped

\* Mutant: the tunnel is left running.
SaveProbedKeep(m) ==
    /\ m \in probing \ {"quick"}
    /\ probing' = probing \ {m}
    /\ overlay' = m
    /\ mode' = m
    /\ retained' = 0
    /\ Show([kind |-> m, url |-> NoUrl], "ready")
    /\ UNCHANGED <<controllers, quick, gateway, stale, lost>>

\* The rest of the handler after a successful probe.
SaveProbed(m) ==
    /\ m \in probing \ {"quick"}
    /\ probing' = probing \ {m}
    /\ overlay' = m
    /\ mode' = m
    /\ controllers' = WithStopped(controllers, quick)
    /\ lost' = (lost \/ Forgets(quick))
    /\ quick' = 0
    /\ retained' = 0
    /\ Show([kind |-> m, url |-> NoUrl], "ready")
    /\ UNCHANGED <<gateway, stale>>

\* The same, in the closure of an apply() that has been disposed of: the file,
\* the slot and the old tunnel are shared with the present one, and a relay
\* selection seats the old one in every live room.
SaveProbedLate(m) ==
    /\ m \in stale.probing \ {"quick"}
    /\ overlay' = m
    /\ controllers' = WithStopped(controllers, stale.quick)
    /\ lost' = (lost \/ (Forgets(stale.quick) /\ retained # quick))
    /\ retained' = 0
    /\ IF stale.quick = 0 THEN UNCHANGED shown
       ELSE Report(stale.quick, "stopped", NoUrl)
    /\ stale' = [stale EXCEPT !.quick = 0, !.probing = @ \ {m},
                             !.seated = m = "relay", !.started = FALSE]
    /\ UNCHANGED <<mode, quick, gateway, probing>>

\* Mutant: the state keeps saying that an endpoint is ready.
SaveQuickReady ==
    /\ "quick" \in probing
    /\ probing' = probing \ {"quick"}
    /\ overlay' = "quick"
    /\ mode' = "quick"
    /\ endpoint' = NoEndpoint
    /\ UNCHANGED <<controllers, quick, retained, endpointState, gateway,
                   stale, lost>>

\* A quick selection.  Before the Gateway listens nothing is started; a
\* tunnel that runs is kept, with its address forgotten.
SaveQuick ==
    /\ "quick" \in probing
    /\ probing' = probing \ {"quick"}
    /\ overlay' = "quick"
    /\ mode' = "quick"
    /\ IF localGateway # 0 /\ ~IsAlive(quick)
       THEN StartTunnel(WithStopped(controllers, retained), localGateway)
       ELSE Show(NoEndpoint, "loading")
            /\ UNCHANGED <<controllers, quick, retained>>
    /\ UNCHANGED <<gateway, stale, lost>>

\* The same, in the closure that is gone, which still has the address of its
\* Gateway: the tunnel retained, perhaps that of the present apply(), makes
\* way for one that reports to nobody.
SaveQuickLate ==
    /\ "quick" \in stale.probing
    /\ overlay' = "quick"
    /\ LET starts == stale.local # 0 /\ ~IsAlive(stale.quick)
           n == Cardinality(DOMAIN controllers) + 1
       IN  /\ stale' = [stale EXCEPT !.probing = @ \ {"quick"},
                           !.seated = @ /\ stale.local = 0,
                           !.quick = IF starts THEN n ELSE @,
                           !.started = @ \/ starts]
           /\ \/ /\ starts /\ n <= MaxControllers
                 /\ controllers' = WithStarted(WithStopped(controllers, retained),
                                               stale.local)
                 /\ retained' = n
                 /\ IF retained = 0 THEN UNCHANGED shown
                    ELSE Report(retained, "stopped", NoUrl)
              \/ ~starts /\ UNCHANGED <<controllers, retained, shown>>
    /\ UNCHANGED <<mode, quick, gateway, probing, lost>>

-----------------------------------------------------------------------------
\* Mutant: any output of the process is reported.
AnnounceAll(c, url) ==
    /\ c \in DOMAIN controllers
    /\ controllers' = [controllers EXCEPT ![c] = Heard(@, url)]
    /\ IF c = quick THEN Show([kind |-> "temporary", url |-> url], "ready")
       ELSE UNCHANGED shown
    /\ UNCHANGED <<overlay, retained, mode, quick, gateway, probing,
                   stale, lost>>

\* The tunnel process prints an address: ready, or rotated.
Announce(c, url) ==
    /\ c \in DOMAIN controllers /\ Alive(controllers[c])
    /\ controllers' = [controllers EXCEPT ![c] = Heard(@, url)]
    /\ IF IsNews(controllers[c], url) THEN Report(c, "ready", url)
       ELSE UNCHANGED shown
    /\ UNCHANGED <<overlay, retained, mode, quick, gateway, probing,
                   stale, lost>>

\* It ends with a code other than 0: it is restarted (restartOnUnexpectedExit).
Crash(c) ==
    /\ c \in DOMAIN controllers /\ controllers[c].child
    /\ Restarts(controllers[c])
    /\ controllers' = [controllers EXCEPT ![c] = Respawned(@)]
    /\ Report(c, "starting", NoUrl)
    /\ UNCHANGED <<overlay, retained, mode, quick, gateway, probing,
                   stale, lost>>

\* It ends with code 0, or cannot be spawned.
End(c, status) ==
    /\ c \in DOMAIN controllers /\ controllers[c].child
    /\ controllers' = [controllers EXCEPT ![c] = Ended(@)]
    /\ Report(c, status, NoUrl)
    /\ UNCHANGED <<overlay, retained, mode, quick, gateway, probing,
                   stale, lost>>

\* The plugin is disposed of and applied again.  The tunnel is detached, that
\* is left alone; requests that wait go on in the old closure.
Reload ==
    /\ LET m == IF overlay = "none" THEN ConfigMode ELSE overlay
       IN  /\ mode' = m
           /\ Show(InitialEndpoint(m), IF m = "quick" THEN "loading" ELSE "ready")
    /\ stale' = [quick |-> quick, local |-> localGateway, probing |-> probing,
                 seated |-> FALSE, started |-> FALSE]
    /\ lost' = (lost \/ (IsAlive(quick) /\ quick # retained))
    /\ quick' = 0 /\ probing' = {}
    /\ listening' = "pending" /\ localGateway' = 0
    /\ UNCHANGED <<overlay, retained, controllers>>

Next ==
    \/ \E port \in Ports : Listen(port)
    \/ ListenFails
    \/ \E m \in Modes : Probe(m) \/ ProbeFails(m) \/ SaveProbed(m)
                        \/ SaveProbedLate(m)
    \/ SaveQuick \/ SaveQuickLate
    \/ \E c \in DOMAIN controllers :
          \/ \E url \in Urls : Announce(c, url)
          \/ Crash(c)
          \/ \E status \in {"stopped", "error"} : End(c, status)
    \/ Reload

Spec == Init /\ [][Next]_vars

-----------------------------------------------------------------------------
\* The variables have their types; an endpoint is shown exactly when the
\* state is ready.
TypeOK ==
    /\ overlay \in Modes \cup {"none"} /\ mode \in Modes
    /\ DOMAIN controllers \subseteq 1..MaxControllers
    /\ \A c \in DOMAIN controllers : controllers[c] \in Controller
    /\ {retained, quick, stale.quick} \subseteq DOMAIN controllers \cup {0}
    /\ endpoint \in Endpoint \cup {NoEndpoint}
    /\ endpointState = "ready" <=> endpoint # NoEndpoint
    /\ (listening = "listening") <=> localGateway \in Ports
    /\ probing \cup stale.probing \subseteq Modes
    /\ stale.local \in Ports \cup {0}

\* A temporary address is only advertised while the controller that found it
\* runs a process for the Gateway now listening, and a later address of that
\* process is never missed; right after a restart the address may still be
\* that of the process before.  (index.ts:236-243, 273-280.)
AdvertisedTunnelRuns ==
    endpoint.kind = "temporary" =>
        /\ IsAlive(quick)
        /\ controllers[quick].endpoint = endpoint.url
        /\ controllers[quick].said \in {endpoint.url, NoUrl}
        /\ controllers[quick].local = localGateway

\* The apply() that is gone started it, and a reload will find it.
StartedLate(c) == stale.started /\ c = stale.quick /\ c = retained

\* The mode selected decides, although tunnel output, process exits, probes and
\* reloads come in any order: what is shown is of its kind, so that the QR is
\* never minted for another mode's address (index.ts:410, 194); and outside
\* quick mode no tunnel process exposes the Gateway, whatever was retained,
\* reused or restarted on the way.  The code makes two exceptions: a selection
\* applied while the variable quick is null deletes the only reference to a
\* controller, which is then lost; and a quick selection that waited across a
\* reload starts one in the apply() that is gone, which stays in the slot until
\* a selection forgets it or a reload ends it.  (handleEndpointSave;
\* index.ts:307-331.)
ModeDecides ==
    /\ endpoint # NoEndpoint => endpoint.kind = KindOf(mode)
    /\ listening = "listening" /\ mode # "quick" /\ ~lost
          => \A c \in DOMAIN controllers :
                controllers[c].child => StartedLate(c)

\* A plugin that was disposed of takes no seat at the relay.  The code breaks
\* this: a relay selection probed across the reload seats the old apply().
\* (README.md:21, test/relay-campaign.test.mjs:194.)
DisposedTakesNoSeat == ~stale.seated
=============================================================================
