----------------------------- MODULE DeviceAdmin ----------------------------
(***************************************************************************)
(* The devices as their owner sees and revokes them, and as the LAN proxy   *)
(* admits them: the list of the settings page (settings-page.ts), the       *)
(* handlers behind it (index.ts), the store with its file (tokens.ts), and   *)
(* the codes, which the LAN's exchange() and the tunnel's claim() take from  *)
(* one table (pairing.ts).                                                 *)
(***************************************************************************)
EXTENDS Offers, Devices, LanProxy

CONSTANTS
    MaxTokens,       \* bound on the tokens generated
    MaxFails,        \* bound on the saves that fail
    Times,           \* moments at which a code, minted at 0, is presented
    Loads            \* the calls of loadDevices() that overlap

ASSUME AdminAssumption == {MaxTokens, MaxFails} \subseteq Nat /\ Times \subseteq Nat

VARIABLES
    offers,          \* one code, 1, in room 1
    store,           \* the rows in memory; neither labels nor lastSeenAt matter here
    disk,            \* the rows in the file
    issued,          \* tokens generated: 1 .. issued
    fails,           \* counter for the bound
    told,            \* history: tokens whose revocation the page was told of
    uses,            \* history: who was told that the code is good
    list,            \* the devices that the page shows with their buttons
    loads            \* the answers to loadDevices() under way

tables == <<offers, store, disk, issued, fails, told, uses>>
page == <<list, loads>>
vars == <<proxy, conns, tables, page>>

Code == 1
Room == 1

\* list(): the page offers buttons for the live ones.
Listed == Live(store)

NoAnswer == [state |-> "none", list |-> {}]

Init ==
    /\ ProxyInit
    /\ offers = EmptyOffers
    /\ store = [d \in {} |-> {}]
    /\ disk = store
    /\ issued = 0 /\ fails = 0
    /\ told = {} /\ uses = {}
    /\ list = {} /\ loads = [l \in Loads |-> NoAnswer]

-----------------------------------------------------------------------------
(***************************************************************************)
(* The store: memory first, then the file.                                 *)
(***************************************************************************)
\* Mutant: a save writes what was in memory before the change.
SaveBefore(s, saved) ==
    /\ store' = s
    /\ \/ saved /\ disk' = store /\ UNCHANGED fails
       \/ ~saved /\ fails < MaxFails /\ fails' = fails + 1 /\ disk' \in {disk, store}

\* save() writes all of memory, earlier failures included, or throws, before or
\* after (chmod) the file has been replaced.
Save(s, saved) ==
    /\ store' = s
    /\ \/ saved /\ disk' = s /\ UNCHANGED fails
       \/ ~saved /\ fails < MaxFails /\ fails' = fails + 1 /\ disk' \in {disk, s}

\* issue() without a key, by whoever embeds the proxy.
IssueOnLan(saved) ==
    /\ issued < MaxTokens /\ BelowLimit(store)
    /\ issued' = issued + 1
    /\ Save(Issue(store, issued', NoClaimant, NoRoom, 0), saved)
    /\ UNCHANGED <<proxy, conns, offers, told, uses, page>>

\* A row that authenticate() accepts; with neither key nor room it is not
\* changed but for lastSeenAt, and all is saved.
Matching(token) ==
    {d \in DOMAIN store : MayAuthenticate(store, d, token,
                                               store[d].claimant)}

Arrives(c) == proxy = "listening" /\ conns[c].kind = "none"

Request(c, token) ==
    /\ Arrives(c)
    /\ \/ /\ Matching(token) = {}
          /\ AnswerAtOnce(c) /\ UNCHANGED tables
       \/ /\ Matching(token) # {}
          /\ \E saved \in BOOLEAN :
                /\ Save(store, saved)
                /\ IF saved THEN Forward(c, token) ELSE AnswerAtOnce(c)
          /\ UNCHANGED <<offers, issued, told, uses>>
    /\ UNCHANGED <<proxy, page>>

\* The process reads its file and listens anew; all that was in memory is gone.
Reborn ==
    /\ proxy' = "new" /\ conns' = [c \in Conns |-> Unused]
    /\ store' = disk /\ offers' = EmptyOffers
    /\ UNCHANGED <<issued, told, uses, disk, page>>

\* A save that throws in the 'upgrade' event is caught by nobody.
Upgrade(c, token) ==
    /\ Arrives(c)
    /\ \/ /\ Matching(token) = {}
          /\ RefuseUpgrade(c) /\ UNCHANGED <<proxy, tables, page>>
       \/ /\ Matching(token) # {}
          /\ Save(store, TRUE) /\ ConnectUpgrade(c, token)
          /\ UNCHANGED <<proxy, offers, issued, told, uses, page>>
       \/ /\ Matching(token) # {} /\ fails < MaxFails
          /\ fails' = fails + 1
          /\ Reborn

Restart == Reborn /\ UNCHANGED fails

-----------------------------------------------------------------------------
(***************************************************************************)
(* The code.                                                               *)
(***************************************************************************)
Mint ==
    /\ uses = {} /\ offers = EmptyOffers
    /\ offers' = Store(offers, Code, Room, 0)
    /\ UNCHANGED <<proxy, conns, store, disk, issued, fails, told,
                   uses, page>>

\* Mutant: a code that was claimed through the tunnel is redeemed again.
RedeemClaimed(now) ==
    /\ Code \in DOMAIN offers
    /\ offers' = EmptyOffers
    /\ uses' = IF now <= offers[Code].expMs THEN uses \cup {"lan"} ELSE uses
    /\ UNCHANGED <<proxy, conns, store, disk, issued, fails, told, page>>

\* redeem() burns an unclaimed code, expired or not; exchange() reports it.
Redeem(now) ==
    /\ Code \in DOMAIN offers /\ offers[Code].claimant = NoClaimant
    /\ offers' = EmptyOffers
    /\ uses' = IF Validate(offers, Code, now) = "ok" THEN uses \cup {"lan"} ELSE uses
    /\ UNCHANGED <<proxy, conns, store, disk, issued, fails, told, page>>

\* hostHandshake() of a phone with the code, as in Pairing.
ClaimCode(p, saved, now) ==
    /\ \/ /\ Claimable(offers, Code, Room, now)
          /\ issued < MaxTokens /\ MayIssueOrUpdate(store, p)
          /\ issued' = issued + 1
          /\ Save(IssueOrUpdate(store, issued', p, Room, 0), saved)
          /\ offers' = IF saved THEN Claim(offers, Code, p, issued') ELSE offers
       \/ /\ saved /\ Retryable(offers, Code, p, Room, now)
          /\ UNCHANGED <<offers, store, disk, issued, fails>>
    /\ uses' = IF saved THEN uses \cup {p} ELSE uses
    /\ UNCHANGED <<proxy, conns, told, page>>

-----------------------------------------------------------------------------
(***************************************************************************)
(* The page.  It shows the buttons of the devices it holds for live.       *)
(***************************************************************************)

\* readJsonBody(): a body of more than 64 KiB is read no further, and one that
\* is no JSON, for it was cut short, is nothing to act on.
Bodies == {"json", "long", "broken"}
ReadJsonBody(body) ==
    CASE body = "json" -> 200 [] body = "long" -> 413 [] OTHER -> 400

\* safeFetch() and webServerHandler(): a handler that throws, as a failed save
\* does, is answered.
SafeFetch(status, saved) == IF saved THEN status ELSE 500
Answered(body, status, saved) ==
    IF ReadJsonBody(body) # 200 THEN ReadJsonBody(body) ELSE SafeFetch(status, saved)

\* handleRevoke(): the rooms are in HostRooms.  A device the page names twice is
\* answered 404 the second time, and nothing is saved.
RevokeDevice(d, body, saved) ==
    /\ d \in list
    /\ LET found == d \in Live(store)
           status == Answered(body, IF found THEN 200 ELSE 404, saved)
       IN  /\ IF ReadJsonBody(body) = 200 /\ found
              THEN Save(RevokeRow(store, d), saved)
              ELSE saved /\ UNCHANGED <<store, disk, fails>>
           /\ told' = IF status = 200 THEN told \cup {store[d].token} ELSE told
    /\ UNCHANGED <<proxy, conns, offers, issued, uses, page>>

\* handleLabel(): the save is of everything.
RenameDevice(d, body, saved) ==
    /\ d \in list /\ d \in Live(store)
    /\ ReadJsonBody(body) = 200
    /\ Save(store, saved)
    /\ UNCHANGED <<proxy, conns, offers, issued, told, uses, page>>

\* The answer of /pair/devices, on its way to the page.
DevicesResponse == [state |-> "sent", list |-> Listed]

\* loadDevices(): every 5 s, and after each revocation and renaming.
Load(l) ==
    /\ loads[l] = NoAnswer
    /\ loads' = [loads EXCEPT ![l] = DevicesResponse]
    /\ UNCHANGED <<proxy, conns, tables, list>>

\* Mutant: a list that is shorter than the one shown is taken for out of date.
LoadedIfLonger(l) ==
    /\ loads[l].state = "sent"
    /\ list' = IF Cardinality(loads[l].list) < Cardinality(list)
               THEN list ELSE loads[l].list
    /\ loads' = [loads EXCEPT ![l] = NoAnswer]
    /\ UNCHANGED <<proxy, conns, tables>>

\* The fetch fails, or its answer is no JSON: the list stays, and nothing is
\* tried before the timer.
LoadFails(l) ==
    /\ loads[l].state = "sent"
    /\ loads' = [loads EXCEPT ![l] = NoAnswer]
    /\ UNCHANGED <<proxy, conns, tables, list>>

\* The answer is an error, in JSON, that names no devices: the page has emptied
\* the list by the time it finds out, and the card takes none for the answer.
LoadRefused(l) ==
    /\ loads[l].state = "sent"
    /\ list' = {}
    /\ loads' = [loads EXCEPT ![l] = NoAnswer]
    /\ UNCHANGED <<proxy, conns, tables>>

\* The answer replaces the list, whichever answer came before it.
Loaded(l) ==
    /\ loads[l].state = "sent"
    /\ list' = loads[l].list
    /\ loads' = [loads EXCEPT ![l] = NoAnswer]
    /\ UNCHANGED <<proxy, conns, tables>>

-----------------------------------------------------------------------------
Tokens == 1..MaxTokens

Outside ==
    \/ \E saved \in BOOLEAN :
          \/ IssueOnLan(saved)
          \/ \E p \in Claimants, now \in Times : ClaimCode(p, saved, now)
          \/ \E d \in Tokens, body \in Bodies :
                RevokeDevice(d, body, saved) \/ RenameDevice(d, body, saved)
    \/ Restart \/ Mint \/ \E now \in Times : Redeem(now)

LanStep ==
    \/ \E c \in Conns, token \in Tokens \cup {NoToken} :
          Request(c, token) \/ Upgrade(c, token)
    \/ /\ (\E c \in Conns : ProxyStep(c)) \/ Listen \/ Close \/ Closed
       /\ UNCHANGED <<tables, page>>

PageStep ==
    \E l \in Loads : Load(l) \/ Loaded(l) \/ LoadFails(l) \/ LoadRefused(l)

Next == Outside \/ LanStep \/ PageStep

Spec == Init /\ [][Next]_vars

\* Events of a destroyed socket come, the page polls, and of its polls some are
\* answered with the list: nobody can do more for a page whose Host is away.
FairSpec ==
    /\ Spec
    /\ \A c \in Conns : WF_vars(EventsOf(c) /\ UNCHANGED <<tables, page>>)
    /\ WF_vars(Closed /\ UNCHANGED <<tables, page>>)
    /\ \A l \in Loads : WF_vars(Load(l)) /\ SF_vars(Loaded(l))

-----------------------------------------------------------------------------
\* The variables have their types, and the ceiling holds.
TypeOK ==
    /\ proxy \in {"new", "listening", "closing", "closed"}
    /\ \A c \in Conns :
          /\ conns[c].client \in {"open", "destroyed", "closed"}
          /\ conns[c].up \in {"none", "open", "destroyed", "closed"}
          /\ conns[c].up = "destroyed" => conns[c].kind = "ws"
    /\ \A d \in DOMAIN store : store[d] \in Row
    /\ Cardinality(Live(store)) <= MaxLiveDevices
    /\ list \subseteq Tokens /\ told \subseteq Tokens
    /\ uses \subseteq {"lan"} \cup Claimants

\* "Its next connection will be rejected": once the page was told that a device
\* is revoked no request and no upgrade is forwarded any more for its token, also
\* when the save before had failed and the process was started again.  (Of what
\* was let in before it says nothing: an open upgrade is piped on.)
\* (settings-page.ts:89, proxy.ts:84, proxy.ts:122, tokens.ts:173.)
RevokedShutOut ==
    [][\A c \in Conns :
          conns[c].up = "none" /\ conns'[c].up = "open" =>
             conns'[c].token \notin told]_vars

\* The two ways to use a code take it from each other: one party is told that
\* it was good.  (pairing.ts:155-160, pairing.ts:174-188.)
CodeUsedOnce == TypeOK /\ Cardinality(uses) <= 1

\* No socket is left over: when one end of an upgrade goes the other does, and
\* close() comes to an end with all of them gone.  (proxy.ts:113-135, 197-205.)
NoSocketLeft ==
    /\ \A c \in Conns :
          conns[c].kind = "ws" /\ (conns[c].client # "open" \/ conns[c].up # "open")
             ~> conns[c].kind # "ws"
    /\ proxy = "closing" ~> proxy # "closing"

\* When nothing changes any more in the store the list comes right, in whatever
\* order the answers came, and after each answer that emptied it; and it stays
\* right, unless such answers go on for ever.
\* (settings-page.ts:56-91, client/index.tsx:191-213.)
ListSettles ==
    /\ []<>(list = Listed)
    /\ <>[](list = Listed) \/ []<><<\E l \in Loads : LoadRefused(l)>>_vars
=============================================================================
