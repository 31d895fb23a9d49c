# A TLA+ model of dsh-mobile-pairing

This directory holds TLA+ modules for the mobile pairing plugin: the Host side
(`src/*.ts` of the repository), its settings card in the browser (`src/client/`) and
the scripts that guard its releases (`scripts/`); the TLC configurations that check
them on small instances; and TLAPS proofs of what matters most for every instance.
`PROJECT.json` lists the parts of the system, the runs, for each property a mutation of
the code that breaks it, the source lines every definition stands for, and the hazards
the properties were written for.

## 1. The system

A phone is paired with a Host by a QR code and then reaches the DSH server of that
Host through an end-to-end encrypted tunnel, over a relay, through the Host's own
Gateway behind a public address, or over WebRTC. All of the Host is one Node process:
handlers run to their end, and whatever is awaited or called back later interleaves.

| component | state it keeps | operations | hard behaviour | what makes it correct |
|---|---|---|---|---|
| Pairing codes (`pairing.ts`) | `pending`: code -> offer with expiry, room and, once claimed, key and token | mint, validate, claim, retry of a claim, redeem, prune | acknowledgements are lost and claims retried, by the same phone or another; two ways to use one code | a code gives one token to one key |
| Device tokens (`tokens.ts`) | `devices`, and the file behind it | issue or update, authenticate, revoke, rename, merge of duplicates at start, `save()` | memory changes before the file; the write fails; the process stops in between; records of an older version | an acknowledged token survives a restart until it is replaced or revoked, a revoked one never comes back, one live record per phone, a ceiling |
| Handshake (`handshake.ts`) | none | code or token in, acknowledgement out | joins the two tables above | acknowledges only what is stored |
| Rooms (`index.ts`, `relay-campaign.ts`, `relay-connector.ts`, `gateway.ts`) | `campaigns`, `authorized`, seats of the Gateway | mint a QR, revoke, change the endpoint, reseat every 15 s, reload, socket events, follow a device to its room | several handlers, a timer and sockets move the same seats | no room is served that nobody is entitled to; a live room is served in the end |
| Public Endpoint and Quick Tunnel (`index.ts`, `quick-tunnel.ts`, `endpoint-settings.ts`) | mode, address shown, overlay file, the tunnel controller that outlives a reload | select a mode, process output, exit, restart, reload | probes resume after a reload; output of a process that is gone; a controller taken over in mid-restart | the address shown is of the mode selected and of a tunnel that runs |
| Tunnel session (`tunnel-server.ts`) | session, `requests`, `bridges`, `closedBridges` of one carrier | hello, HTTP request, upload, WebSocket bridge, upstream events, teardown | a re-handshake with everything in flight; waits for a cookie; races of close and message | answers stay in their session, bridges are closed with it, the carrier survives legal traffic |
| Loopback cookie (`connection-lifecycle.ts`, `dsh-cookie.ts`) | acquirer of the present Connection service, its cookie, waiters, retry timer | acquire, wait, refresh after 401, replace | overlapping waits, renewals and replacements | nobody waits for ever; no foreign or rejected cookie is used |
| Direct signaling (`direct-signaling.ts`, `webrtc-host.ts`) | generation, peer | offer, close | negotiations overlap at every await | no peer and no tunnel left behind |
| DSH Home (`keys.ts`, `endpoint-settings.ts`, `config.ts`, `compatibility.ts`) | identity key, selected endpoint | start, mint, damage, removal | killed while the key is written; a saved selection that the next start must accept | a Host starts again as what it was, or does not start |
| Endpoint mux (`endpoint-mux.ts`, `mux-cli.ts`, `gateway-port.ts`), probing (`public-endpoint.ts`) | the port file of each Host | find the Gateway that takes an upgrade; collect identities; probe an address in stages | backends come, go and swap ports while they are asked one after the other | a phone is refused for cause only; no address passes that does not lead to this Host |
| Settings card (`client/index.tsx`, `client/model.ts`) | status, form, two refs, the QR | poll, select, type, save, retry, rotate the QR | polls and saves overlap and are answered late, out of order or not at all | the QR is of the selection shown, and there is one in the end |
| Settings page (`settings-page.ts`) and its handlers | the list of devices | load, revoke, rename | loads overtake each other; a handler's save fails | what the page was told holds; the list comes right |
| LAN proxy (`proxy.ts`) | sockets of upgrades | forward a request, forward an upgrade, close | ends close in either order; the save under an admission fails | a revoked token is shut out; no socket is left |
| Fixtures and release verification (`scripts/`) | the fixture directory, temporaries, a worker | prepare, verify, smoke | killed or failing at any point; a developer edits meanwhile; two scripts decide the same thing twice | what is prepared is accepted, and a pass is earned |

How they interact: a QR mint (`handleLocalPair`) stores an offer, takes a seat at the
relay or authorizes the room at the Gateway. A phone that arrives on either carrier
runs the handshake against offers and devices; the room of the device that comes out
decides which seats are kept. The session that follows takes requests to DSH with the
cookie of the Connection service. Signaling in a room hands WebRTC channels to the same
session code. The Public Endpoint decides which carrier a QR names; a mux may stand
between it and the Gateways of several Hosts. The card and the page see all of this
through polls, and the proxy admits the same devices on the LAN.

## 2. The modules

| module | extends | models |
|---|---|---|
| `Identities` | | phones, rooms: the names shared by the two tables |
| `Offers` | Identities | `PairingOfferManager` as operators on a table of offers |
| `Devices` | Identities | `DeviceTokenStore` as operators on a table of rows, with the merge at start |
| `Pairing` | Offers, Devices | the credentials as a state machine: mint, claim, retry, reconnect, revoke, rename, restart, with every outcome of `save()` |
| `PairingContract` | | what the credentials promise: a growing record of grants and of revocations |
| `HostRooms` | Offers, Devices | campaigns, Gateway seats and authorizations, sessions on them, and the handlers and timer of `apply()` that move them, in relay and custom mode |
| `QuickTunnel` | | `QuickTunnelController` as operators on a controller |
| `EndpointMode` | QuickTunnel | endpoint, mode, overlay file, retained controller, probes, reloads |
| `TunnelSession` | | one carrier with the phone at its other end (external) |
| `RequestContract` | | what a carrier promises a phone about the ids it uses, without frames, jobs or sessions on the Host |
| `ConnectionCookie` | | the cookie binding and its callers |
| `DirectSignaling` | | the negotiations on one signaling socket |
| `HostHome` | | what a Host keeps from one start to the next, and what a start makes of it |
| `EndpointMux` | HostHome | several Hosts with their port files, the mux, a phone and a probe that come through it |
| `SettingsCard` | | the card against a Host that also moves by itself |
| `LanProxy` | | the sockets of the proxy's clients and of its upstream |
| `DeviceAdmin` | Offers, Devices, LanProxy | the list of the settings page, its handlers, the store, and both ways to use a code |
| `FixtureClosure` | | how the release scripts choose packages and check the choice, as pure operators |
| `FixtureSet` | FixtureClosure | the fixture directory, the two scripts, the developer |
| `Pairing_proofs`, `HostRooms_proofs`, `DeviceAdmin_proofs`, `EndpointMode_proofs`, `TunnelSession_proofs`, `EndpointMux_proofs`, `FixtureSet_proofs`, `CookieAndSignaling_proofs` | the module proved about; `DeviceAdmin_proofs` also `SettingsCard`, and `CookieAndSignaling_proofs` both `ConnectionCookie` and `DirectSignaling` | theorems, section 6 |
| `MC_*` | one each of the above | symmetries and small sets for TLC |

The classes that hold tables (`Offers`, `Devices`, `QuickTunnel`) are operators on
values, so that `Pairing`, `HostRooms` and `DeviceAdmin` use the same definitions with
different surroundings: `Pairing` has failing saves, crashes and acknowledgements but
one room map, `HostRooms` has sockets, seats and timers but saves that succeed,
`DeviceAdmin` has the clients of the owner's side and of the LAN.

`DirectSignaling` and `SettingsCard` share a module of proofs with another component;
their `Init`, `Next`, `Spec` and `TypeOK` therefore bear a prefix (`SignalingSpec`,
`CardTypeOK`).

State and actions correspond to the code as follows.

- **Pairing.** `offers` is `pending`, `devices` the array in memory, `disk` the file.
  A token is a number in the order of generation and a record's id is its first token.
  `save()` has three outcomes: `ok`, `late` (the rename took place but the call threw or
  the process died before it answered) and `lost`. `acks`, `retired` and `revoked` are
  histories of what was answered to phones and to the settings page. `Restart` reads
  the file back and merges.
- **HostRooms.** `campaigns` maps a room to its relay, the code it was started for, the
  state of its connector and the phone of its session; `admitted` is `authorized` of
  the Gateway with its expiry; `gates` maps a seat (entry, room) to the phone of its
  session. One action per handler (`Pair`, `Revoke`, `SaveEndpoint`, `Reload`), the
  timer (`Reseat`), socket events and the four ways a hello is admitted. `abandoned`
  is the history of rooms a record was moved out of by a new pairing.
- **EndpointMode.** A reload is a new call of `apply()` with variables of its own; what
  is shared is `overlay` and `retained`. The closure that is gone is `stale`, with the
  selections of any mode that still wait in it for their body or their probe, and with
  the `localGateway` that a late quick selection starts a tunnel for. A controller's listener is whichever `apply()` attached last.
- **TunnelSession.** `up` and `down` are the frames under way, in order. `work` is what
  goes on upstream; every job carries the number of the session that started it, as the
  callbacks of the source close over theirs. `requests`, `bridges` and `closedBridges`
  are the maps of the same names. `Refused` says what the phone asks for under the
  Host's administration paths.
- **ConnectionCookie.** `calls` are the upstream calls of the tunnel and where they are:
  waiting in `waiters`, joined to the fetch in flight, or sent with the cookie in
  `held`. What a settled promise sets off is part of the step that settles it.
- **DirectSignaling.** `at` says at which await each negotiation is; `alive` are the
  peers not closed, `open` the tunnels attached and not closed.
- **HostHome, EndpointMux.** `keyFile` and `overlay` are the two files; `Boot` is
  `apply()` up to its effects, with everything it can throw at in its order. A search
  of the mux is an `upgrade` or `probe` with the ports `left` to ask, each a step. Of
  the Hosts one, `Own`, has its Home; the others are their ports. A port
  may also be taken by a program that is no Host (`strangers`), which answers as it
  likes or never. `steady`, `heard` and `lent` are histories.
- **SettingsCard.** `Render` is part of every step: React mounts the QR anew when it was
  not there or its key, the revision, went up. A status that has not yet been answered
  is no value, so a poll is in flight only once the Host has answered it. `disturbed`
  is a history.
- **DeviceAdmin, LanProxy.** A connection is one request or upgrade with its two
  sockets. A destroyed socket is gone for its peer, while its `close` event is still to
  come. A save that throws under an upgrade is caught by nobody, and the process starts
  anew (`Reborn`).
- **FixtureClosure, FixtureSet.** A package is a name, a version and the lines of its
  manifest; a range is the set of versions that satisfy it. `Prepare` and
  `Verification` are the scripts, one step per file written or command run.

## 3. The runs

Every run is bounded by constants in its `.cfg`; section 4 says why they are enough.

| run | shows | distinct states |
|---|---|---|
| `pairing` | `CodeSingleUse`, `TokenHasOneHolder`, `RevokedForGood`, `AckedTokenDurable`, `RowsLimited`, `RetiredForSuccessor`, and `ImplementsContract`: refinement of `PairingContract` | 375,211 |
| `host_rooms` | `RoomsAccounted`, `PendingQrKeepsSeat`, and with the timer `SeatsFollowDevices` | 162,334 |
| `endpoint_mode` | `ModeDecides`, `AdvertisedTunnelRuns` | 1,205,504 |
| `tunnel_session` | `SessionsApart`, `AnsweredOnce`, `KeepsCarrier`, with fairness `RequestSettles`, and `ImplementsRequestContract`: refinement of `RequestContract` | 342,039 |
| `connection_cookie` | `NoForgottenWaiter`, `SentCookieIsCurrent`, `RejectedNotKept`, and with fairness `WaitersSettle` | 111,004 |
| `direct_signaling` | `NothingLeftBehind` | 62,358 |
| `endpoint_mux` | `RefusedForCause`, `ProbeHeardThisHost`, `StartsAsItWas`, and with fairness `PhoneGetsThrough` | 661,431 |
| `settings_card` | `QrOfSelection`, and with fairness `QrCatchesUp` | 314,648 |
| `fixture_set` | `PreparedIsAccepted`, `PassIsEarned`, and with fairness `VerificationEnds` | 207,029 |
| `device_admin` | `CodeUsedOnce`, `RevokedShutOut`, and with fairness `NoSocketLeft`, `ListSettles` | 187,997 |
| `host_rooms_repair` | violates `RevokeClosesGatewaySession` | |
| `endpoint_dispose` | violates `DisposedTakesNoSeat` | |

Each passing run also checks its module's one type invariant, either as `TypeOK`
or as a conjunct of `AnsweredOnce`, `NothingLeftBehind`, `QrOfSelection`, `PassIsEarned`
or `CodeUsedOnce`.

What the less obvious properties say:

- `RetiredForSuccessor`: a token that stops working without being revoked was replaced
  by one issued later to the same phone, never the other way round, also when the boot
  merges records an older version left behind; and a restart leaves one live row per
  phone.
- `RowsLimited`: one live row per phone (but for records of an older version, which the
  next boot merges) and the ceiling, the latter both in memory and in the file. Two
  records of an older version fill the ceiling of this run, so that a new one is refused
  until one of them is revoked or merged away; section 6 proves it for every ceiling.
- `RoomsAccounted`: whichever way the devices of a room went (revoked, or followed to
  another room, in either mode, with a change of mode in between) nobody is admitted
  and no session is left in a room that has neither a live device nor a pending offer.
  Rooms in `abandoned` are the exception; `host_rooms_repair` is about them.
- `SeatsFollowDevices`: a live room gets its seat at the relay now configured, and a
  dead room loses its campaign.
- `ModeDecides`: the address shown is of the mode selected, and outside quick mode no
  tunnel process runs, with two exceptions of the code. One controller may be forgotten
  (`lost`): a selection applied while the variable `quick` is null, which is so until the
  Gateway listens, deletes the retained controller without stopping it. And a quick
  selection that waited across a reload starts a tunnel in the `apply()` that has gone
  (`StartedLate`), whatever the mode is by then; it is retained until a selection
  forgets it or a reload ends it.
- `AdvertisedTunnelRuns`: a temporary address is only advertised while a process runs
  for the Gateway now listening and the controller agrees on the address. Right after a
  restart it may be the address of the process before.
- `SessionsApart`: once the phone has said hello again it gets nothing of the session
  before, whatever was going on upstream for it, and no bridge outlives its session.
- `KeepsCarrier`: no frame of a phone that keeps three rules (`PhoneKeepsRules`) makes
  the Host close the carrier, with every other call on it, whatever has ended meanwhile.
  The rules are those of a phone that says nothing to a bridge before its `ws-ack`,
  uploads nothing to an administration path, and passes the upload limit with its last
  frame if at all. The constants of the run are such a phone's; where a rule is broken
  the code does close the carrier (section 7).
- `NothingLeftBehind`: also, answers to offers may leave out of order, but only those
  of peers that are already closed.
- `PendingQrKeepsSeat`: the timer takes the Host out of no room that a pending QR names.
  The exception, which TLC meets only in larger bounds and section 6 tells of, is a live
  room that is still served at a relay since replaced: there the device comes first.
- `AnsweredOnce`: a request has one answer in its session, however it ends. The
  exception is a reset in mid-response, which Node reports twice.
- `ImplementsRequestContract`: the phone hears of an id only what it asked for by it in
  this session: no answer meets a bridge, an id it has not used since its last hello, or
  a request already answered (but after a reset), and no bridge comes back once it is
  over. A response put into the session now in force, instead of the one that asked,
  breaks it (the mutant `RespondToCurrent`).
- `StartsAsItWas`: no start runs under an identity its phones do not know, and what a
  start throws at as an endpoint is never a selection that the page has saved.
- `ProbeHeardThisHost`: an address passes the probe of a Host only if the port on which
  that Host listened was asked during the probe. What the Gateways answer for an identity
  and where they listen are separate state in the model, so that an identity taken from a
  port file instead of an answer breaks it (the mutant `BackendIdentityPublished`). The
  second clause says through which mux this can be: one with the Home or the port of the
  Host in its configuration, or one with a Home whose stale port file names the port that
  the Host was given (`lent`).
- `RefusedForCause`, `PhoneGetsThrough`: for as long as the phone's Host was up, had
  published its port and admitted the phone during the whole search, the search is not
  answered 401, whatever other Hosts, strangers and stale port files do; and a phone that
  keeps asking comes through, provided that no stranger is on a port that the mux asks
  (`InTheWay`). Such a stranger keeps the phone out for good by answering 409 or 101 or
  by not answering, as `tryBackendUpgrade` has no timer.
- `QrOfSelection`: of saves that overlap; a poll whose answer comes late is left out
  (`disturbed`), as is custom mode, and is the business of `QrCatchesUp`.
- `QrCatchesUp`: once the Host rests the QR comes to be of its endpoint and stays so;
  if the form agrees with it and nothing is being saved, a QR is shown again and again.
- `PreparedIsAccepted`: the exact conditions under which a preparation that succeeded is
  refused by the verification (`Twice`, `OtherTunnel`, a pinned package left out) or
  its frozen install fails (`OtherLocked`), provided that Git ignores none of its files
  (`Visible`), and that nothing else is accepted. Of ignore rules, an accepted set has
  none that hides the provenance, the lock, the artifact or all the archives; one that
  hides a single archive may go unnoticed (section 7).
- `RevokedShutOut`: once the page has been told that a device is revoked, no request and
  no upgrade is forwarded any more for its token, also after failed saves and restarts.
  An upgrade that was let in before is piped on: the proxy looks at tokens only when
  something arrives.
- `ListSettles`: the list of the page comes right again and again, and stays right, unless
  error answers, which empty it, go on for ever.

## 4. Bounds

- `pairing`: two phones, two codes, two tokens of which one at least is new, two records
  of an older version (of which the phone of one is still in use, `MaxHeld`), two live
  devices, and two clock values: a code is good at the one it was minted at and has
  expired at the next. Two phones compete for one code; one phone may hold the old record
  and a new one and have them merged; and there may be one record more than the ceiling
  allows.
- `host_rooms`: two phones, two rooms (a code each), two relays (the first is the
  configured one, and the two are alike), one change of
  endpoint, one clock tick (a code expires at the tick after its mint). Two phones may
  share a room, be in different rooms, and follow to the other's room. One Gateway entry
  (`tunnel`); the two entries differ in nothing that is checked.
- `endpoint_mode`: two addresses, two ports (a Gateway that comes back at another port),
  two controllers: the retained one and its successor. Reloads, probes, output and exits
  are unbounded. Of the `apply()` calls that are gone the last is modelled, with one
  selection of each mode waiting in each.
- `tunnel_session`: two ids, two sessions, two frames under way in each direction,
  bodies of one frame, with uploads of two, so that the limit is passed by the last
  frame. `Eager` is false: the phone closes a bridge only once it is open (section 7).
- `connection_cookie`: two requests, one WebSocket, two connections, two cookies for
  each. DSH answers 401 only while a further cookie may be issued.
- `direct_signaling`: five messages, offers or strays.
- `endpoint_mux`: two Hosts and two ports, so that each may come back at the port of the
  other while its old port file names it; a static list that holds one of these ports,
  and a stranger that may take the other when it is free; two muxes, of which one has
  only the Home of the other Host; two identities minted, so that a removed key is minted
  anew.
- `settings_card`: two relays, one tunnel address, two saves at once, and one answer to
  a poll that may be late (polls whose answers agree are one).
- `fixture_set`: three names, one of them the tunnel, in two versions whose order by text
  is the opposite of their order; 1,008 sets of archives, manifest and imports.
  One edit of the sources.
- `device_admin`: one phone and one LAN device that compete for one place and one code,
  one connection at a time, two loads of the list that overlap, one failed save.

Bounds are in the guards of the actions and named in the CONSTANTS of the modules.
No state constraint is used. Deadlock is checked except where sessions, connections or
messages are used up (`tunnel_session`, `connection_cookie`, `direct_signaling`).
Symmetry is used in runs without liveness only.

## 5. Fairness

Liveness is checked under these assumptions only.

- `HostRooms`: weak fairness of `Reseat`, the `setInterval` of 15 s in `apply()`. That
  a relay accepts the socket is not assumed: a campaign that connects or backs off
  counts as a seat.
- `TunnelSession`: the carrier delivers (`Hear`, `OnFrame`); a wait for the cookie
  settles, which `ConnectionCookie` shows; an upstream request ends, if only by its
  timeout of 60 s. Fairness is strong where the Host sends, since a full `down` is a
  bound of the model and not of the code. A WebSocket bridge is not assumed to do
  anything.
- `ConnectionCookie`: a fetch ends (`requestOnce` times out after 10 s), the retry timer
  fires, and a fetch that is made again and again succeeds at some time.
- `EndpointMux`: the mux asks the next port; a Gateway that is up answers and a port that
  nobody listens on errs; a phone that was refused asks again. A stranger that is asked
  need never answer, and nothing makes it go or the phone give it up. Nothing is assumed
  of Hosts, of the mux process or of port files: the property starts from the time when
  they rest.
- `SettingsCard`: the two timers run (5 s and 20 s), a save is answered, and not every
  QR request is lost, again and again, before it can be shown.
- `FixtureSet`: every command of the script ends and its timer fires. The two calls of
  `tar` (`fixture-archives.mjs:14`, `61`) have no timer; they read a local file and are
  taken to end. What hangs in the worker is not assumed to end by itself; only a worker
  being terminated does.
- `DeviceAdmin`: `close` follows `destroy()`, the page polls every 5 s, and some polls
  are answered with the list, though any number of others fail or are refused.

## 6. Proofs

`Pairing_proofs` proves for any number of phones, codes, tokens, rooms and records:

- `PairingTypeOK`, `PairingCodeSingleUse`, `PairingTokenHasOneHolder`,
  `PairingRevokedForGood`, and `PairingImplementsContract`, that the credentials
  implement `PairingContract`.

None of these is inductive. The invariant `Credentials` (theorem `PairingCredentials`)
adds what ties the tables together: no two rows, in memory or in the file, have the same
token and none has one not yet generated (`TokensUnique`); a row whose token was ever
acknowledged is bound to the phone it was acknowledged to, and has not been revoked
(`RowsMatchAcks`); a claimed offer agrees with every acknowledgement of its code
(`OffersMatchAcks`). The file has to be part of it: a crash makes it memory.
The proof has one lemma per action and, below, one step per conjunct. The refinement
maps `granted` to `acks` and `revokedTokens` to `revoked`; every step is a grant, a
revocation or a stutter.

Three more properties are proved on top of it, in the same module.

- `PairingRowsLimited`: the two limits, for any ceiling. The invariant says the same of
  the file as of memory, since a restart reads the one into the other, and that a row
  that is not bound is one of the first file. It reasons with cardinalities of the live
  rows: only an issue adds one, below the ceiling; a merge or a revocation removes some;
  the file is always what memory was at some time.
- `PairingAckedTokenDurable`. The property is about the file, but what the next save
  writes is memory, so the invariant says the same of both: an acknowledged token is
  retired, or opens a live row bound to the phone that was told. A restart may take a
  token back into use whose retirement never reached the file; that it is then bound to
  the right phone is `RowsMatchAcks`.
- `PairingRetiredForSuccessor`. What a boot makes of the file depends on how the file
  and memory differ, so the invariant `Succession` relates the two: a token that both
  know is in the same record of both, a record that is bound stays bound to its phone,
  and nothing was seen later than now. That a merge leaves each phone one live row is
  that of the rows of a phone one was seen last; the order of what was seen gives a
  newest row by a least distance from now, not by counting.

`HostRooms_proofs` proves `HostRoomsTypeOK`, `HostRoomsAccounted` and
`HostRoomsPendingQrKeepsSeat` for any number of phones, rooms, relays and entries. The
invariant says of every room that has no live device and is not abandoned
(`RoomsIdle`): who is admitted there has an offer (`EntryIsOffered`), nobody is served
(`Unserved`), and as long as a carrier can still reach it no offer for it has been
claimed (`Unclaimed`), since a claim makes a device. `PendingQrKeepsSeat` needed an
exception that TLC did not meet in the bounds of the run and the proof did: a room of
two QRs whose device was paired again elsewhere, then another relay configured, then a
phone that claims the older code over the old relay. The room is live, and the timer
moves it to the new relay although the other QR, which names the old one, is pending.
TLC finds it with four codes and three tokens.

`DeviceAdmin_proofs` proves `AdminCodeUsedOnce`, with the type invariant, and
`AdminRevokedShutOut` for any number of connections, loads and failing saves. The
invariant has four parts: the row of a token that the page was told is revoked is
revoked in memory and in the file, and neither has more live rows than the ceiling
allows (`Stores`); while the table has the code, what it says of its claim is who was
told that it is good (`Uses`); the other two parts give the lists of the page (`Page`)
and the connections (`Lan`) their shape.

The second half of the module is about the other surface of the owner, the settings
card: `CardQrOfSelection` proves `QrOfSelection` for any addresses, polls and saves. The
card can be behind the Host, so what is invariant is not about the form: a QR that was
answered is of what the Host has selected, unless a save that changed this is still to be
answered (`QrFollows`), and that answer makes a new QR due. The property follows when the
status is of the Host's selection, because a QR is offered only while the form agrees
with the status.

`EndpointMode_proofs` proves `EndpointTypeOK`, `EndpointAdvertisedTunnelRuns` and
`EndpointModeDecides`. The invariant adds that `quick` is null outside quick mode and
before the Gateway listens (`QuickServes`), so that output, exits and restarts of a
process cannot show an address in another mode; that every process is that of `quick` or
of the controller retained unless one has been forgotten (`Owned`); and that outside
quick mode nothing stays retained once the Gateway listens, but for a controller that a
late quick selection has put there (`NoneRetained`).

`TunnelSession_proofs` proves four properties, for any number of ids, hellos and frames
under way.

- `SessionsStayApart`. That messages of sessions do not overtake each other rests on the
  order of the frames under way, which decide when one session takes the place of another
  (`FramesInOrder`). That a bridge which ends takes no other one out of the maps rests on
  a bridge being asked for once: it is a frame under way or one job, never two
  (`BridgesOnce`), since an id that is fresh has not been heard of in its session
  (`FreshIsUnheard`).
- `SessionAnsweredOnce`, with the type invariant. A request is in one of five places and
  in no two of them: a frame under way, an upload of the session, a job that forwards it,
  an answer under way, or what the phone has heard (`InOnePlace`, of each session and
  id). Each step of the Host or the phone moves it on by one place. A reset in the middle
  of a response leaves two answers under way, which the history `resets` accounts for.
- `SessionKeepsCarrier`. Every frame under way finds what it needs: one that asks for
  something finds nothing of its id (`FirstIsFirst`), an upload finds its request or
  comes after it (`UploadsHeard`), what is said to a bridge finds the bridge or that it
  was closed (`BridgesKnown`), and the frames of an upload are numbered below the limit
  but for the last (`Counted`). The rules in the property (`PhoneKeepsRules`) exclude
  the three ways of section 7 in which a legal frame does close the carrier, so the
  theorem says that there is no fourth.
- `SessionImplementsContract`, that the session implements `RequestContract`, under the
  mapping `Seen` (an upload that goes on is a request that was asked; a bridge that was
  left is one that is over) and `Doubled` (the requests of this session in `resets`). The
  invariant adds that whatever is under way about an id of the phone's session, as frame,
  job, upload or message, is of the kind that the phone asked for by it (`Fits`). So an
  `http-res` finds a request; with `InOnePlace` it is the first answer, or one of the two
  of a reset. It needs no rule of the phone but that an id is used once per session.

`CookieAndSignaling_proofs` proves `CookieTypeOK`, `CookieNoForgottenWaiter`,
`CookieSentIsCurrent` and `CookieRejectedNotKept` for any number of calls, connections
and cookies. The invariant adds that cookies belong to the connection they are used on
(`Known`), that a waiter holds none (`EmptyHanded`), and that until a cookie has aged
there is never a fetch next to a cookie (`NeverOld`), which is why a rejected one cannot
return.

Its second half proves `SignalingNothingLeftBehind`, with the type invariant, for any
number of messages. That the peer of an overtaken answer has been closed rests on
when a negotiation may take the place of the one before. The invariant adds that a
tunnel is that of a negotiation that is over (`TunnelHasChannel`), that whoever waits
for the peer before to close has not been followed by an earlier negotiation
(`ReplacingIsPast`), and that once an offer is answered the earlier peers alive are only
those whose answer is still being prepared, which will be refused (`EarlierAreGone`).

`EndpointMux_proofs` proves `MuxTypeOK`, `MuxStartsAsItWas`, `MuxProbeHeardThisHost` and
`MuxRefusedForCause` for any Hosts, ports, static lists and Homes. The invariant adds
that what a probe is about may be saved (`Selectable`), that the identity of a running
Host is what its key file holds, and that no two Hosts listen at a port (`Doors`). For
the probe it says that an identity of `Own` among those collected was heard on the port
of `Own`, and that whatever was heard there, or is still to be asked, is on a list that
has that port for one of the reasons of the property (`Vouched`); so the list, too, has
to be known to hold nothing but static ports and what the Homes publish (`Lists`). A search that
is still to refuse a phone whose Host has been there all the time has the port of that
Host ahead of it (`Search`). This needs that the list of backends, built by recursion
over the Homes, contains what each Home publishes. The induction is on a set of numbers
(`NumbersInduction`, from well-foundedness of the naturals), which needs no operator as a
parameter; `ListingExists`, `ListingGrows` and `ListingLists` use it.

`FixtureSet_proofs` proves `FixturePassIsEarned` and `FixturePreparedIsAccepted` for any
names, versions, ranges, offers of archives and revisions of the sources. The invariant
has a part for each script next to the types: a preparation that has got past a step has
done it right (`Preparing`), what it records is what it chose (`Recorded`), a
verification under way trusts fixtures that are whole (`Trusting`), and its worker,
timer and temporaries are where the step says (`Verifying`). `PassIsEarned` is part of it.

`PreparedIsAccepted` compares two computations that the scripts make in their own ways.
The queue of the preparation and the three walks of the verification are all `Reached`
of `FixtureClosure`: a recursive function that adds what follows as often as there are
elements. `ReachedIsLeast` shows that it ends with the least set that is closed, by
`NumbersInduction` and by counting: a round that adds nothing is the last, and a round
that adds something leaves fewer to add. With that,

- what the preparation selects is what a complete closure needs and nothing more
  (`ClosureIsClosure`, `ClosureStands`), and its edges lead to every package of it
  (`EdgesLead`, `AllAreReached`);
- the graph of the provenance is accepted exactly when no dependency is declared in two
  sections, since that is when there is one edge for each line (`OneEdge`,
  `GraphIsAccepted`);
- pnpm, which follows the overrides that are written, installs every package, since the
  overrides follow the edges (`OverridesFollow`, `AcceptedInstalls`); this also holds of
  a provenance that was edited and is accepted all the same;
- the lock fits exactly when the versions that `generateConsumerLock` takes as direct
  are those of the verification (`LockedIsDirect`).

The proof found `OtherLocked`, the condition under which a frozen install fails, wrong as
it was first written: it compared versions of a name two at a time. With three of them
the last by text can be newer than another and still not be the newest, which is the one
that counts when the root asks for none. TLC confirms it with three versions of one name;
the run has two, in which both forms agree.

Assumptions: those on the constants, which TLC evaluates in every run: bounds are
natural numbers, `NoClaimant` is no phone, `NoCookie` is no cookie, calls are either
requests or WebSockets, a missing file is not a corrupt one and neither is a key or a
selection. For the release scripts: versions have different texts; an offer of archives
is finite and has one archive for each name and version, since of several `choose()`
only ever takes the first (`prepare-alpha2-fixtures.mjs:113`, where the sort is stable); the bound on
the revisions of the sources (`MaxEdits`) lets there be the first.

Model-checked only: the liveness properties, which are out of the prover's reach
(`SeatsFollowDevices`, `RequestSettles`, `WaitersSettle`, `PhoneGetsThrough`,
`QrCatchesUp`, `VerificationEnds`, `NoSocketLeft`, `ListSettles`). Every invariant and
every action property of the passing runs is a theorem.

## 7. Where code and documentation disagree

Two runs end in a violation on purpose; `PROJECT.json` quotes the lines.

1. `host_rooms_repair`: a device paired again in another room keeps its session in the
   old room when it is revoked, since `handleRevoke` closes the room the record is in now.
2. `endpoint_dispose`: a relay selection whose probe ends after the plugin was reloaded
   starts campaigns in the instance that was disposed of.

Seen while modelling, in the models, but without a run of their own:

Pairing, rooms and endpoint:

- `claim()` answers a retry out of the claim without a look at the device store.
- A code of the LAN, minted without a room, can be claimed in any room.
- `parseOfferUrl` does not read the compact links that `buildCompactPublicOfferUrl`
  writes (`pairing.ts:219`, `238`).
- Revoking the last device of a room closes it although a QR for that room is pending.
- A relay WebSocket that neither opens nor fails is never given up
  (`relay-connector.ts:62`), and every QR shown starts a campaign that stays until its
  code expires.
- A quick selection that waits for its body (`index.ts:295`) while the plugin is reloaded
  starts a tunnel in the `apply()` that has gone (326-331) and puts it in the slot of the
  process, whose controller it stops; the present `apply()`, whatever its mode, does not
  know of it.
- Selecting the temporary address again while its tunnel runs clears the address
  (`index.ts:323`); the tunnel prints it no more, and the page stays at "loading", against
  README.md:114. A restarted tunnel that is given the address it had reports no news
  either. A tunnel process that ends with code 0 is not restarted, on purpose.

Session, cookie and signaling:

- A `ws-close` for a bridge that still waits for the cookie closes the whole carrier
  (`tunnel-server.ts:458`); the constant `Eager` of `TunnelSession` lets the phone do so.
- An upload that passes the limit before its last frame is answered 413 and the frames
  under way then close the carrier (`MaxUpload = 3`); an upload to an administration
  path does the same (`Refused` with `"http-post"`).
- `closedBridges` only grows within a session.
- A 401 that arrives while a renewal is in flight does not bypass the cache
  (`connection-lifecycle.ts:59`, `dsh-cookie.ts:17`).
- A request keeps the aged cookie it took before it waited when the wait gives none,
  also when the connection has gone (the reason for `~aged` in `SentCookieIsCurrent`).
- A signaling message that is no offer makes the pending offer out of date.

Settings card (`client/index.tsx`):

- A status from before a save that arrives after it makes the card think quick is the
  mode already, and a click on it then sends nothing (239).
- `finally` clears `saving` under another save still in flight (231); a success does not
  clear the error of an older save.
- The card shows no devices when only the answer about the devices is not ok (210).

Settings page (`settings-page.ts`):

- An answer that is an error empties the list of devices (57) before the page finds that
  it has none to show; every 5 s it tries again.

Endpoint mux (`endpoint-mux.ts`):

- `tryBackendUpgrade` has no timer (102): a program that takes the port of a Host that
  died, and does not answer, keeps every later phone from its Host while it listens.
- A probe may pass through a mux that has neither the Home nor the port of this Host, if
  a stale port file of one of its Homes names the port that this Host was given; the
  address then works until that other Host starts again.

LAN proxy (`proxy.ts`):

- A save that throws in `upgrade` is uncaught and ends the process (122).
- A forwarded request goes on upstream after its client has gone; a response whose
  upstream ends in mid-response leaves the client waiting (101).

Release scripts:

- The preparation and the verification disagree about a dependency declared in two
  sections, about another release of the tunnel in the closure, and about pinned
  packages that no manifest asks for. `generateConsumerLock` takes of a name with two
  versions the last by its text (`prepare-alpha2-fixtures.mjs:197`), the verification
  the one of the root's edge or the newest (`fixture-consumer.mjs:96`), so that a
  frozen install can fail.
- `assertFixturePathsNotIgnored` asks Git about the first archive that `readdir` names
  (`fixture-provenance.mjs:134`): a rule that ignores another one is accepted.
- A preparation that fails leaves its temporaries, and a half-written directory that
  the next preparation refuses.
- A smoke that times out is reported as "exited with status 1": terminating the worker
  makes its `exit` reject first.

## 8. What is not modelled, and why

- Cryptography, sealing, encodings, labels, STUN lists, HTML and JSON: data that no
  decision reads back. Archive formats, digests and the work of npm and pnpm likewise.
- Sequence numbers of the tunnel: the carriers keep order, and the check on the number
  is a straight comparison. Malformed frames close the carrier at once.
- A failing `save()` in `HostRooms`: `Pairing` has it. Quick mode in `HostRooms`:
  `EndpointMode` has it; at the Gateway it behaves as custom mode does.
- In `EndpointMode`, `apply()` calls that are gone before the last one. In `EndpointMux`,
  a probe of an `apply()` that has gone, which may still save its selection
  (`index.ts:299-301`): there a probe ends with its Host; and a `gatewayBind` that is not
  reached at 127.0.0.1, where the mux asks. In `HostHome`, damage to the key that is not
  noticed: `keys.ts:39-49` looks at the form of the file and not at whether the two
  halves of the key belong together.
- In `ConnectionCookie`, the `finally` of a fetch whose connection has gone
  (`connection-lifecycle.ts:75`): it compares the acquirers and does nothing then.
- In `FixtureSet`, both scripts at once, or a developer who writes to the fixtures while
  one runs; temporaries of a killed process are nobody's.
- `lib/`: the compiled copy of the sources. The other scripts build and print.

## 9. Plan

Order of the work: credentials first, since everything rests on them, then the rooms
(who may reach the Host), the address it shows, the session, the cookie, signaling; then
the mux, the Home, the card, the page with the proxy, and the release scripts. These are
built. What is left, in order:

1. **Abstract specifications**: a room service (who may be served where, without
   sockets) that `HostRooms` implements, beside `PairingContract` and `RequestContract`.
2. **Depth**: a replaced Gateway socket whose close arrives late; failing saves in
   `HostRooms`; the static pages of the Gateway.
