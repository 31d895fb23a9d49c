----------------------------- MODULE EndpointMux ----------------------------
(***************************************************************************)
(* Several Hosts behind one Public Endpoint: the mux of src/endpoint-mux.ts *)
(* and src/mux-cli.ts, the port files by which it finds the Gateways       *)
(* (src/gateway-port.ts), and the two that come through it: a phone of one *)
(* of the Hosts, and that Host's own probe of its Public Endpoint          *)
(* (src/public-endpoint.ts).  That one Host has its Home in full, the      *)
(* others are only seen through their ports.                               *)
(*                                                                         *)
(* The mux looks up the ports once for each request and then asks one port *)
(* after the other, each ask an await without a timer: Hosts start, stop   *)
(* and die, and a port changes hands, also to a program that is no Gateway, *)
(* while a search goes on.  A Gateway that hangs is to the mux what such a  *)
(* program is that has taken the port of a Host that died.                 *)
(*                                                                         *)
(* The endpoint settings of an apply() that has been disposed of are left   *)
(* out: its probe ends here with it, while index.ts:299-301 may still save  *)
(* the selection (EndpointMode has that).                                  *)
(***************************************************************************)
EXTENDS HostHome, SequencesExt

CONSTANTS
    Hosts,           \* Host processes, each with a DSH Home; but for Own, also
                     \*   their identities
    Own,             \* the Host that the phone is paired with and that probes
    Ports,           \* loopback ports the system may give to a Gateway
    NoPort,
    Strangers,       \* ports that a program may take that is no Host Gateway
    Static,          \* DSH_PAIR_MUX_BACKENDS
    Homes,           \* DSH_PAIR_MUX_BACKEND_HOMES, as a sequence of Hosts
    Elsewhere        \* those of a mux that is in front of other Hosts only

ASSUME MuxAssumption ==
    /\ Own \in Hosts /\ Hosts \cap 0..MaxKeys = {}
    /\ NoPort \notin Ports \cup Strangers
    /\ Static \in Seq(Ports \cup Strangers)
    /\ Homes \in Seq(Hosts) /\ Elsewhere \in Seq(Hosts \ {Own})

VARIABLES
    gateway,         \* Host -> is its process down, starting, up
    port,            \* Host -> port its Gateway listens on
    published,       \* Host -> content of its gateway-port file
    admits,          \* the Own Gateway authorizes the room of the phone
    strangers,       \* the ports that programs that are no Gateways listen on
    mux,             \* the mux process: up, stopping or down
    upgrade,         \* the phone's upgrade: its stage, ports left to ask
    probe            \* the probe of Own: its stage, ports left, identities

vars == <<home, gateway, port, published, admits, strangers, mux, upgrade, probe>>

hosts == <<gateway, port, published, admits, strangers>>

\* steady, heard and lent are no fields of the source.  steady: ever since the
\* phone asked, the Gateway of Own was there to be found and admitted it.  heard:
\* during this probe the port was asked on which Own listened.  lent: when the
\* probe began, the port file of another Home named that port.
NoUpgrade == [at |-> "idle", left |-> <<>>, steady |-> FALSE]
NoSelection == [mode |-> "quick", url |-> ""]
NoProbe == [at |-> "idle", sel |-> NoSelection, homes |-> Homes,
            left |-> <<>>, ids |-> {}, heard |-> FALSE, lent |-> FALSE]

\* The address is that of the mux that this module is about.
Here == probe.homes = Homes

\* held: a stranger has been asked.  lured: it has taken the phone.
Answers == {"taken", "busy", "refused", "lured"}

-----------------------------------------------------------------------------
\* Mutant: the port files are not read.
StaticBackends(homes) == Static

\* resolveMuxBackends(): the static ports, then each port published by a Home
\* that is not in the list yet.
Listing(list, p) == IF p = NoPort \/ Contains(list, p) THEN list ELSE Append(list, p)

Backends(homes) ==
    LET upTo[n \in 0..Len(homes)] ==
            IF n = 0 THEN Static ELSE Listing(upTo[n - 1], published[homes[n]])
    IN  upTo[Len(homes)]

\* The Host that answers on a port, if there is one.
At(p, h) == gateway[h] = "up" /\ port[h] = p

Reachable ==
    /\ gateway[Own] = "up" /\ admits
    /\ published[Own] = port[Own] /\ Own \in Range(Homes)

\* What goes on in the mux no longer finds Own all the time.
Unsteady == [upgrade EXCEPT !.steady = FALSE]

Init ==
    /\ HomeInit
    /\ gateway = [h \in Hosts |-> "down"]
    /\ port = [h \in Hosts |-> NoPort]
    /\ published = [h \in Hosts |-> NoPort]
    /\ admits = FALSE /\ strangers = {}
    /\ mux = "down"
    /\ upgrade = NoUpgrade /\ probe = NoProbe

-----------------------------------------------------------------------------
(***************************************************************************)
(* The Hosts.                                                              *)
(***************************************************************************)

\* apply() runs; gateway.listen() is pending.
Begin(h) == gateway[h] = "down" /\ gateway' = [gateway EXCEPT ![h] = "starting"]

StartOther(h) ==
    /\ h # Own
    /\ Begin(h)
    /\ UNCHANGED <<home, port, published, admits, strangers, mux, upgrade, probe>>

\* Own starts from its Home, or is refused and stays down.
Start(config, release) ==
    /\ gateway[Own] = "down" /\ MayMount(release)
    /\ Boot(config)
    /\ IF refused' = "no" THEN Begin(Own) ELSE UNCHANGED gateway
    /\ UNCHANGED <<port, published, admits, strangers, mux, upgrade, probe>>

Killed(config, release) ==
    /\ gateway[Own] = "down" /\ MayMount(release)
    /\ KilledInMint(config)
    /\ UNCHANGED <<hosts, mux, upgrade, probe>>

\* writeGatewayPort() and clearGatewayPort().
WriteGatewayPort(h) == published' = [published EXCEPT ![h] = port'[h]]
ClearGatewayPort(h) == published' = [published EXCEPT ![h] = NoPort]

\* listen() resolves with a port nobody has, and the port is published.
Listen(h, p) ==
    /\ gateway[h] = "starting"
    /\ p \notin strangers /\ \A g \in Hosts : ~At(p, g)
    /\ gateway' = [gateway EXCEPT ![h] = "up"]
    /\ port' = [port EXCEPT ![h] = p]
    /\ WriteGatewayPort(h)
    /\ UNCHANGED <<home, admits, strangers, mux, upgrade, probe>>

\* Mutant: the port is still counted as taken.
GoneListening(h) ==
    /\ gateway' = [gateway EXCEPT ![h] = "down"]
    /\ IF h = Own THEN Ends ELSE UNCHANGED home
    /\ UNCHANGED <<port, probe, upgrade, admits, strangers, mux>>

\* Own goes with its probe and its end of the phone's tunnel.
Gone(h) ==
    /\ gateway' = [gateway EXCEPT ![h] = "down"]
    /\ port' = [port EXCEPT ![h] = NoPort]
    /\ IF h = Own
       THEN /\ Ends
            /\ probe' = NoProbe
            /\ upgrade' = IF upgrade.at = "taken" THEN NoUpgrade ELSE Unsteady
       ELSE UNCHANGED <<home, probe, upgrade>>
    /\ UNCHANGED <<admits, strangers, mux>>

\* The plugin is disposed of: the file goes, then the Gateway.
Dispose(h) ==
    /\ gateway[h] = "up"
    /\ ClearGatewayPort(h)
    /\ Gone(h)

\* The process dies: the file stays, and names a port that is free again.
Die(h) ==
    /\ gateway[h] # "down"
    /\ Gone(h)
    /\ UNCHANGED published

\* The phone pairs, so that its room is authorized; or its device is revoked,
\* which closes its sockets.
Pair ==
    /\ gateway[Own] = "up"
    /\ admits' = TRUE
    /\ Trust
    /\ UNCHANGED <<gateway, port, published, strangers, mux, upgrade, probe>>

Revoke ==
    /\ gateway[Own] = "up" /\ admits
    /\ admits' = FALSE
    /\ upgrade' = IF upgrade.at = "taken" THEN NoUpgrade ELSE Unsteady
    /\ UNCHANGED <<home, gateway, port, published, strangers, mux, probe>>

Files ==
    /\ Damage \/ RemoveDamaged
    /\ UNCHANGED <<hosts, mux, upgrade, probe>>

-----------------------------------------------------------------------------
(***************************************************************************)
(* proxyUpgrade(): the phone asks for /tunnel/<room> or /signal/<room>.    *)
(***************************************************************************)
Ask ==
    /\ mux = "up" /\ upgrade.at = "idle"
    /\ upgrade' = [at |-> "asking", left |-> Backends(Homes), steady |-> Reachable]
    /\ UNCHANGED <<home, hosts, mux, probe>>

Skip == [upgrade EXCEPT !.at = "asking", !.left = Tail(@)]

\* Mutant: a Gateway that refuses ends the search.
TryFirst ==
    /\ upgrade.at = "asking" /\ upgrade.left # <<>>
    /\ LET p == Head(upgrade.left)
       IN  \/ /\ At(p, Own) /\ admits
              /\ upgrade' = [upgrade EXCEPT !.at = "taken", !.left = <<>>]
           \/ /\ \E h \in Hosts : At(p, h) /\ ~(h = Own /\ admits)
              /\ upgrade' = [upgrade EXCEPT !.at = "refused", !.left = <<>>]
           \/ /\ p \in strangers
              /\ upgrade' = [upgrade EXCEPT !.at = "held"]
           \/ /\ p \notin strangers /\ ~\E h \in Hosts : At(p, h)
              /\ upgrade' = Skip
    /\ UNCHANGED <<home, hosts, mux, probe>>

\* tryBackendUpgrade() on the next port.  The Gateway of Own takes it if it
\* authorizes the room, any other Gateway refuses, and a port that nobody listens
\* on is passed over.
Try ==
    /\ upgrade.at = "asking" /\ upgrade.left # <<>>
    /\ LET p == Head(upgrade.left)
       IN  \/ /\ At(p, Own) /\ admits
              /\ upgrade' = [upgrade EXCEPT !.at = "taken", !.left = <<>>]
           \/ /\ p \in strangers
              /\ upgrade' = [upgrade EXCEPT !.at = "held"]
           \/ /\ p \notin strangers /\ ~(At(p, Own) /\ admits)
              /\ upgrade' = Skip
    /\ UNCHANGED <<home, hosts, mux, probe>>

\* A stranger that was asked answers, which it need not ever do: it takes the
\* upgrade, has no room for it (409), or anything else.
StrangerAnswers ==
    /\ upgrade.at = "held"
    /\ \/ upgrade' = [upgrade EXCEPT !.at = "lured"]
       \/ upgrade' = [upgrade EXCEPT !.at = "busy", !.left = <<>>]
       \/ upgrade' = Skip
    /\ UNCHANGED <<home, hosts, mux, probe>>

\* A program takes a port that is free, which the list may still name.
StrangerComes(p) ==
    /\ p \notin strangers /\ \A h \in Hosts : ~At(p, h)
    /\ strangers' = strangers \cup {p}
    /\ UNCHANGED <<home, gateway, port, published, admits, mux, upgrade, probe>>

\* With it go its connections: the search goes on, a tunnel to it ends.
StrangerGoes(p) ==
    /\ p \in strangers
    /\ strangers' = strangers \ {p}
    /\ upgrade' = CASE upgrade.at = "held" /\ Head(upgrade.left) = p -> Skip
                    [] upgrade.at = "lured" /\ Head(upgrade.left) = p -> NoUpgrade
                    [] OTHER -> upgrade
    /\ UNCHANGED <<home, gateway, port, published, admits, mux, probe>>

\* Nobody has taken it: 401.
Refuse ==
    /\ upgrade.at = "asking" /\ upgrade.left = <<>>
    /\ upgrade' = [upgrade EXCEPT !.at = "refused"]
    /\ UNCHANGED <<home, hosts, mux, probe>>

\* The phone leaves: its answer has come, or its tunnel ends, or it has waited
\* for a stranger long enough; the search that it leaves behind is forgotten.
Leave ==
    /\ upgrade.at \in Answers \cup {"held"}
    /\ upgrade' = NoUpgrade
    /\ UNCHANGED <<home, hosts, mux, probe>>

-----------------------------------------------------------------------------
(***************************************************************************)
(* checkCustomEndpoint() of Own against the address of the mux.            *)
(***************************************************************************)

\* handleEndpointSave with a quick selection: saved without a probe.
SelectQuick(sel) ==
    /\ gateway[Own] = "up" /\ sel.mode = "quick" /\ Selectable(sel)
    /\ SaveOverlay(sel)
    /\ UNCHANGED <<hosts, mux, upgrade, probe>>

\* With a relay selection: /healthz of the relay is asked.
ProbeRelay(sel) ==
    /\ gateway[Own] = "up" /\ probe.at = "idle"
    /\ sel.mode = "relay" /\ Selectable(sel)
    /\ probe' = [NoProbe EXCEPT !.at = "relay", !.sel = sel]
    /\ UNCHANGED <<home, hosts, mux, upgrade>>

RelayHealthy ==
    /\ probe.at = "relay"
    /\ probe' = [probe EXCEPT !.at = "passed"]
    /\ UNCHANGED <<home, hosts, mux, upgrade>>

\* With a custom one: GET /.well-known/dsh-mobile arrives at a mux.
ProbeHealth(sel) ==
    /\ gateway[Own] = "up" /\ probe.at = "idle"
    /\ sel.mode = "custom" /\ Selectable(sel)
    /\ \E homes \in {Homes, Elsewhere} :
          /\ homes = Homes => mux = "up"
          /\ probe' = [NoProbe EXCEPT !.at = "health", !.sel = sel,
                !.homes = homes, !.left = Backends(homes),
                !.lent = \E h \in Range(Elsewhere) : published[h] = port[Own]]
    /\ UNCHANGED <<home, hosts, mux, upgrade>>

\* The key in memory is the identity of a Host.
IdentityOf(h) == IF h = Own THEN identity ELSE h

\* Mutant: whoever has a port file is listed, not who answers.
BackendIdentityPublished(p) ==
    {IdentityOf(h) : h \in {g \in Hosts : published[g] # NoPort}}

\* readBackendIdentity(): what the Gateway on a port says of itself, if there is
\* one.  A stranger says nothing of the kind.
BackendIdentity(p) == {IdentityOf(h) : h \in {g \in Hosts : At(p, g)}}

\* handleHttp() of the mux collects the identities, one port after the other.
ReadIdentity ==
    /\ probe.at = "health" /\ probe.left # <<>>
    /\ LET p == Head(probe.left)
       IN  probe' = [probe EXCEPT !.left = Tail(@),
                                  !.ids = @ \cup BackendIdentity(p),
                                  !.heard = @ \/ port[Own] = p]
    /\ UNCHANGED <<home, hosts, mux, upgrade>>

\* The answer has come; the upgrade of /signal/check follows, with the ports
\* of that moment.
ProbeSocket ==
    /\ probe.at = "health" /\ probe.left = <<>> /\ (Here => mux = "up")
    /\ probe' = [probe EXCEPT !.at = "socket", !.left = Backends(probe.homes)]
    /\ UNCHANGED <<home, hosts, mux, upgrade>>

\* Every Gateway takes that upgrade, and a stranger may;
\* applyPublicEndpointSelection() then looks for its own identity among those of
\* the answer.
CheckSocket ==
    /\ probe.at = "socket" /\ probe.left # <<>>
    /\ LET p == Head(probe.left)
       IN  \/ /\ p \in strangers \/ \E h \in Hosts : At(p, h)
              /\ probe' = [probe EXCEPT !.left = <<>>,
                    !.at = IF identity \in probe.ids THEN "passed" ELSE "failed"]
           \/ /\ ~\E h \in Hosts : At(p, h)
              /\ probe' = [probe EXCEPT !.left = Tail(@)]
           \/ /\ p \in strangers
              /\ probe' = [probe EXCEPT !.at = "failed", !.left = <<>>]
    /\ UNCHANGED <<home, hosts, mux, upgrade>>

\* An answer that fails a check, no Gateway, or 8 seconds without an answer, as
\* when a stranger keeps the mux waiting.
ProbeFails ==
    /\ probe.at \in {"relay", "health", "socket"}
    /\ probe' = [probe EXCEPT !.at = "failed", !.left = <<>>]
    /\ UNCHANGED <<home, hosts, mux, upgrade>>

\* handleEndpointSave saves what has passed, and answers.
ProbeEnds ==
    /\ probe.at \in {"passed", "failed"}
    /\ IF probe.at = "passed" THEN SaveOverlay(probe.sel) ELSE UNCHANGED home
    /\ probe' = NoProbe
    /\ UNCHANGED <<hosts, mux, upgrade>>

-----------------------------------------------------------------------------
(***************************************************************************)
(* The mux process.                                                        *)
(***************************************************************************)
MuxStarts ==
    /\ mux = "down"
    /\ mux' = "up"
    /\ UNCHANGED <<home, hosts, upgrade, probe>>

\* SIGTERM: the server stops listening and cuts what it still counts as HTTP;
\* an upgrade it has handed out goes on.
MuxStops ==
    /\ mux = "up"
    /\ mux' = "stopping"
    /\ probe' = IF Here /\ probe.at = "health"
                THEN [probe EXCEPT !.at = "failed", !.left = <<>>] ELSE probe
    /\ UNCHANGED <<home, hosts, upgrade>>

\* close() calls back when the last socket has gone, and the process exits.
MuxExits ==
    /\ mux = "stopping" /\ upgrade.at = "idle" /\ ~(Here /\ probe.at = "socket")
    /\ mux' = "down"
    /\ UNCHANGED <<home, hosts, upgrade, probe>>

\* The process dies, for which it is enough that the socket of an upgrade is
\* reset during the search: nothing listens to its errors.
MuxDies ==
    /\ mux # "down"
    /\ mux' = "down"
    /\ upgrade' = NoUpgrade
    /\ probe' = IF Here /\ probe.at \in {"health", "socket"}
                THEN [probe EXCEPT !.at = "failed", !.left = <<>>] ELSE probe
    /\ UNCHANGED <<home, hosts>>

-----------------------------------------------------------------------------
Next ==
    \/ \E config \in Configs, release \in Releases :
          Start(config, release) \/ Killed(config, release)
    \/ \E h \in Hosts :
          StartOther(h) \/ Dispose(h) \/ Die(h) \/ (\E p \in Ports : Listen(h, p))
    \/ Pair \/ Revoke \/ Files
    \/ Ask \/ Try \/ StrangerAnswers \/ Refuse \/ Leave
    \/ \E p \in Strangers : StrangerComes(p) \/ StrangerGoes(p)
    \/ \E sel \in Selections :
          SelectQuick(sel) \/ ProbeRelay(sel) \/ ProbeHealth(sel)
    \/ ReadIdentity \/ ProbeSocket \/ CheckSocket \/ RelayHealthy
    \/ ProbeFails \/ ProbeEnds
    \/ MuxStarts \/ MuxStops \/ MuxExits \/ MuxDies

Spec == Init /\ [][Next]_vars

\* The mux goes on to the next port: a Gateway that is up answers, and a port
\* that nobody listens on is an error.  A stranger is asked too, but nothing makes
\* it answer or go.  The phone takes a refusal and asks again; it need not give
\* up on a stranger.
FairSpec ==
    /\ Spec
    /\ WF_vars(Try) /\ WF_vars(Refuse) /\ WF_vars(Ask)
    /\ WF_vars(Leave /\ upgrade.at \in {"busy", "refused"})

-----------------------------------------------------------------------------
\* The variables have their types; a port is listened on by one Host.
TypeOK ==
    /\ HomeTypeOK
    /\ gateway \in [Hosts -> {"down", "starting", "up"}]
    /\ port \in [Hosts -> Ports \cup {NoPort}]
    /\ published \in [Hosts -> Ports \cup {NoPort}]
    /\ \A h \in Hosts : (gateway[h] = "up") <=> (port[h] # NoPort)
    /\ \A g, h \in Hosts : port[g] = port[h] /\ port[g] # NoPort => g = h
    /\ strangers \subseteq Strangers /\ \A h \in Hosts : port[h] \notin strangers
    /\ admits \in BOOLEAN
    /\ mux \in {"up", "stopping", "down"}
    /\ upgrade.at \in Answers \cup {"idle", "asking", "held"}
    /\ upgrade.left \in Seq(Ports \cup Strangers)
    /\ probe.at \in {"idle", "relay", "health", "socket", "passed",
                    "failed"}
    /\ probe.ids \subseteq (Hosts \ {Own}) \cup 0..MaxKeys
    /\ probe.homes \in {Homes, Elsewhere}

\* A phone is told 401 only if its Host was gone, not yet published or did not
\* admit it at some time during the search: whatever the other Hosts do in the
\* meantime, and whatever port files dead Hosts left behind, the search does
\* not pass its Host over.  (endpoint-mux.ts:84-100, mux-cli.ts:35-42.)
RefusedForCause == upgrade.at = "refused" => ~upgrade.steady

\* An address passes the probe only if the port on which this very Host listened
\* was asked during the probe, which only a mux does that has its Home or port in
\* its configuration, or the stale port file of another Home that this Host's
\* port was given to: neither a stale port file that now names another Host or a
\* stranger nor a restart during the probe vouches for it.
\* (endpoint-settings.ts:51-54, endpoint-mux.ts:26-43, 71-82.)
ProbeHeardThisHost ==
    probe.at = "passed" /\ probe.sel.mode = "custom" =>
        /\ probe.heard
        /\ Here \/ port[Own] \in Range(Static) \/ probe.lent

\* Strangers that the search has asked or will ask, or that the next one will.
InTheWay == strangers \cap (Range(upgrade.left) \cup Range(Backends(Homes)))

\* From when the Host of the phone is up and admits it for good, the mux stays
\* up and no stranger is on a port that it asks, a phone that keeps asking is let
\* through: no restart pins the mux to a port of the past.  A stranger may keep
\* the phone out for good, also on the port of a Host that died, because the
\* search waits for its answer without a timer.
\* (README.md:21, mux-cli.ts:49, endpoint-mux.ts:84-138.)
PhoneGetsThrough ==
    <>[](Reachable /\ mux = "up" /\ InTheWay = {}) => <>(upgrade.at = "taken")
=============================================================================
