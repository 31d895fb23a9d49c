---------------------------- MODULE SettingsCard ----------------------------
(***************************************************************************)
(* The settings card of src/client/index.tsx with the predicates of         *)
(* src/client/model.ts, against a Host that answers /status, /endpoint and  *)
(* /pair out of its present selection (src/index.ts).                       *)
(*                                                                         *)
(* Status is polled on a timer and after each save; polls overlap, saves    *)
(* overlap (the mode buttons stay enabled during a save), and the answers   *)
(* arrive in any order or not at all.  The Host's selection may also change *)
(* from another page and with the tunnel.  Wording and devices are left out.*)
(***************************************************************************)
EXTENDS Naturals, FiniteSets

CONSTANTS
    Relays,          \* relay addresses that the user may type
    Tunnels,         \* addresses that the tunnel may announce
    NoUrl,
    Nothing, Lost,   \* not there yet; an answer that failed
    MaxPolls,        \* bound on the different answers to polls in flight
    MaxSaves         \* bound on the saves in flight

ASSUME CardAssumption ==
    /\ MaxPolls \in Nat /\ MaxSaves \in Nat
    /\ Relays \cap Tunnels = {} /\ NoUrl \notin Relays \cup Tunnels

VARIABLES
    host,            \* the Host's mode, endpoint and endpointState
    disturbed,       \* no field of the source: see QrOfSelection
    status,          \* the status decoded last, Nothing yet or Lost
    mode, relayUrl,  \* what the user has selected and typed
    hydrated, liveEndpoint,   \* the two refs
    saving, saves,   \* the flag, and each save in flight
    polls,           \* what the polls in flight have been answered
    qr               \* what PairingQr shows

draft == <<mode, relayUrl>>
refs == <<hydrated, liveEndpoint>>
cardVars == <<host, disturbed, status, draft, refs, saving, saves, polls, qr>>

Quick(url, state) == [mode |-> "quick", url |-> url, state |-> state]
Relay(url) == [mode |-> "relay", url |-> url, state |-> "ready"]

\* What /status can say; the card cannot select custom mode.
Status ==
    {Quick(NoUrl, "loading"), Quick(NoUrl, "error")}
    \cup {Quick(url, "ready") : url \in Tunnels} \cup {Relay(url) : url \in Relays}

\* What may be on its way to the Host: the address wanted, none for quick.
EndpointSave == [want : Relays \cup {NoUrl}, at : {"none", "sent", "saved", "loading"}]
Idle == [want |-> NoUrl, at |-> "none"]

NoQr == [at |-> "none", of |-> Nothing]
FreshQr == [at |-> "asked", of |-> Nothing]

SameSelection(s) == s.mode = host.mode /\ (s.mode = "relay" => s.url = host.url)

-----------------------------------------------------------------------------
StatusLoaded == status \notin {Nothing, Lost}

\* Mutant: only the mode is compared.
DirtyMode == StatusLoaded /\ mode # status.mode

\* endpointDraftDirty(): the card selects quick or relay only.
Dirty ==
    /\ StatusLoaded
    /\ \/ mode # status.mode
       \/ mode = "relay" /\ relayUrl # status.url

AddressLoading ==
    saving \/ (mode = "quick" /\ status = Quick(NoUrl, "loading"))

AddressFailed ==
    ~saving /\ mode = "quick" /\ status = Quick(NoUrl, "error")

\* PairingQr is rendered.
Offered ==
    /\ StatusLoaded /\ ~AddressLoading /\ ~AddressFailed
    /\ ~Dirty /\ status.url # NoUrl

\* React renders: PairingQr is mounted anew when it was not there or when the
\* revision, which is its key, went up; what the old one was waiting for is
\* disposed of.
Render(bump) ==
    qr' = IF ~Offered' THEN NoQr
          ELSE IF Offered /\ ~bump THEN qr ELSE FreshQr

CardInit ==
    /\ host \in Status /\ disturbed = FALSE
    /\ status = Nothing
    /\ mode = "quick" /\ relayUrl = NoUrl
    /\ hydrated = FALSE /\ liveEndpoint = NoUrl
    /\ saving = FALSE /\ saves = [i \in 1..MaxSaves |-> Idle]
    /\ polls = {}
    /\ qr = NoQr

-----------------------------------------------------------------------------
(***************************************************************************)
(* The Host: statusResponse, handleEndpointSave, the tunnel, another page.  *)
(***************************************************************************)
TunnelMoves ==
    /\ host.mode = "quick"
    /\ \E s \in Status \ {host} : s.mode = "quick" /\ host' = s
    /\ UNCHANGED <<disturbed, status, draft, refs, saving, saves, polls, qr>>

OtherPage ==
    /\ \E s \in Status \ {host} : s.state # "error" /\ host' = s
    /\ disturbed' = TRUE
    /\ UNCHANGED <<status, draft, refs, saving, saves, polls, qr>>

\* A selection of the card is saved, after its probe.
HostSaves(i) ==
    /\ saves[i].at = "sent"
    /\ host' = IF saves[i].want = NoUrl THEN Quick(NoUrl, "loading")
               ELSE Relay(saves[i].want)
    /\ saves' = [saves EXCEPT ![i].at = "saved"]
    /\ UNCHANGED <<disturbed, status, draft, refs, saving, polls, qr>>

-----------------------------------------------------------------------------
(***************************************************************************)
(* loadAll().                                                              *)
(***************************************************************************)
Failed ==
    /\ status' = Lost
    /\ UNCHANGED <<draft, refs>>

\* A decoded status; the first one also fills the form.
Adopt(got) ==
    /\ status' = got
    /\ liveEndpoint' = got.url /\ hydrated' = TRUE
    /\ IF hydrated THEN UNCHANGED draft
       ELSE /\ mode' = got.mode
            /\ relayUrl' = IF got.mode = "relay" THEN got.url ELSE NoUrl

\* The endpoint went from one address to another.
Moved(got) ==
    got # Lost /\ liveEndpoint # NoUrl /\ got.url \notin {NoUrl, liveEndpoint}

Receive(got) ==
    IF got = Lost THEN Failed ELSE Adopt(got)

\* The Host answers a poll of the timer, or the very first one.
Poll ==
    /\ Cardinality(polls) < MaxPolls
    /\ polls' = polls \cup {host}
    /\ UNCHANGED <<host, disturbed, status, draft, refs, saving, saves, qr>>

PollArrives(got) ==
    /\ got \in polls
    /\ polls' = polls \ {got}
    /\ Receive(got)
    /\ disturbed' = (disturbed \/ ~SameSelection(got))
    /\ UNCHANGED <<host, saving, saves>>
    /\ Render(Moved(got))

PollFails ==
    /\ Receive(Lost)
    /\ UNCHANGED <<host, disturbed, saving, saves, polls>>
    /\ Render(FALSE)

-----------------------------------------------------------------------------
(***************************************************************************)
(* The user and saveEndpoint().                                            *)
(***************************************************************************)
Send(want) ==
    \E i \in 1..MaxSaves :
       /\ saves[i].at = "none"
       /\ saves' = [saves EXCEPT ![i] = [want |-> want, at |-> "sent"]]
       /\ saving' = TRUE

\* selectMode("quick"), which saves at once unless quick is the mode already.
SelectQuick ==
    /\ StatusLoaded
    /\ mode' = "quick"
    /\ IF status.mode # "quick" THEN Send(NoUrl) ELSE UNCHANGED <<saving, saves>>
    /\ UNCHANGED <<host, disturbed, status, relayUrl, refs, polls>>
    /\ Render(FALSE)

\* selectMode("relay") opens the form, empty if relay is not the mode yet.
SelectRelay ==
    /\ StatusLoaded
    /\ mode' = "relay"
    /\ relayUrl' = IF status.mode = "relay" THEN relayUrl ELSE NoUrl
    /\ UNCHANGED <<host, disturbed, status, refs, saving, saves, polls>>
    /\ Render(FALSE)

Type(url) ==
    /\ StatusLoaded /\ mode = "relay"
    /\ relayUrl' = url
    /\ UNCHANGED <<host, disturbed, status, mode, refs, saving, saves, polls>>
    /\ Render(FALSE)

\* buildEndpointSaveRequest(): a relay needs an address.
Requestable(nextMode, url) == nextMode = "quick" \/ url # NoUrl

Submit ==
    /\ StatusLoaded /\ mode = "relay"
    /\ ~saving /\ Requestable(mode, relayUrl) /\ Dirty
    /\ Send(relayUrl)
    /\ UNCHANGED <<host, disturbed, status, draft, refs, polls>>
    /\ Render(FALSE)

\* The button under "address failed".
Retry ==
    /\ AddressFailed
    /\ Send(NoUrl)
    /\ UNCHANGED <<host, disturbed, status, draft, refs, polls>>
    /\ Render(FALSE)

\* decodeEndpointSaveResult() has a refusal of some stage, or nothing to read.
Refused(i) == saves[i].at \in {"sent", "saved"}

\* The probe has failed, or an answer is lost, also one of a selection that was
\* saved; finally takes the flag, also from under a save still in flight.
SaveFails(i) ==
    /\ Refused(i)
    /\ saves' = [saves EXCEPT ![i] = Idle]
    /\ saving' = FALSE
    /\ disturbed' = (disturbed \/ saves[i].at = "saved")
    /\ UNCHANGED <<host, status, draft, refs, polls>>
    /\ Render(FALSE)

\* Success: the mode that was saved is shown, a new QR is due, and the status
\* is loaded before the save is over.
SaveSucceeds(i) ==
    /\ saves[i].at = "saved"
    /\ saves' = [saves EXCEPT ![i].at = "loading"]
    /\ mode' = IF saves[i].want = NoUrl THEN "quick" ELSE "relay"
    /\ UNCHANGED <<host, disturbed, status, relayUrl, refs, saving, polls>>
    /\ Render(TRUE)

SaveEnds(i, got) ==
    /\ saves[i].at = "loading"
    /\ saves' = [saves EXCEPT ![i] = Idle]
    /\ saving' = FALSE
    /\ Receive(got)
    /\ UNCHANGED <<host, disturbed, polls>>
    /\ Render(Moved(got))

-----------------------------------------------------------------------------
(***************************************************************************)
(* PairingQr and the timer that replaces it.                               *)
(***************************************************************************)
\* handlePair mints for the endpoint of the moment, or has none.
QrAnswered ==
    /\ qr.at = "asked"
    /\ qr' = IF host.url = NoUrl THEN [qr EXCEPT !.at = "error"]
             ELSE [at |-> "answered", of |-> host]
    /\ UNCHANGED <<host, disturbed, status, draft, refs, saving, saves, polls>>

QrShown ==
    /\ qr.at = "answered"
    /\ qr' = [qr EXCEPT !.at = "shown"]
    /\ UNCHANGED <<host, disturbed, status, draft, refs, saving, saves, polls>>

\* The request fails, or the code on the screen has expired.
QrFails ==
    /\ qr.at # "none"
    /\ qr' = [at |-> "error", of |-> Nothing]
    /\ UNCHANGED <<host, disturbed, status, draft, refs, saving, saves, polls>>

\* Mutant: the code on the screen is never replaced.
RotateFailed ==
    /\ Offered /\ qr.at = "error"
    /\ UNCHANGED <<host, disturbed, status, draft, refs, saving, saves, polls>>
    /\ Render(TRUE)

\* Every 20 seconds, and when the page becomes visible.
Rotate ==
    /\ Offered
    /\ UNCHANGED <<host, disturbed, status, draft, refs, saving, saves, polls>>
    /\ Render(TRUE)

-----------------------------------------------------------------------------
CardNext ==
    \/ TunnelMoves \/ OtherPage
    \/ Poll \/ (\E got \in polls : PollArrives(got)) \/ PollFails
    \/ QrAnswered \/ QrShown \/ QrFails \/ Rotate
    \/ SelectQuick \/ SelectRelay \/ Submit \/ Retry
    \/ \E url \in Relays : Type(url)
    \/ \E i \in 1..MaxSaves :
          \/ HostSaves(i) \/ SaveFails(i) \/ SaveSucceeds(i)
          \/ (\E got \in {host, Lost} : SaveEnds(i, got))

CardSpec == CardInit /\ [][CardNext]_cardVars

\* Requests are answered and their answers handled; the timers run.  An answer
\* on the loopback takes less than the 5 or 20 seconds of a timer, and not all
\* of them are lost.
CardFairSpec ==
    /\ CardSpec
    /\ WF_cardVars(Poll) /\ WF_cardVars(Rotate)
    /\ SF_cardVars(QrAnswered) /\ SF_cardVars(QrShown)
    /\ \A got \in Status : WF_cardVars(PollArrives(got))
    /\ \A i \in 1..MaxSaves :
          /\ WF_cardVars(HostSaves(i)) /\ WF_cardVars(SaveFails(i))
          /\ WF_cardVars(SaveSucceeds(i)) /\ WF_cardVars(SaveEnds(i, host))

-----------------------------------------------------------------------------
NoSave == \A i \in 1..MaxSaves : saves[i].at = "none"

\* The form says what the Host has.
Agreed ==
    host.url # NoUrl /\ mode = host.mode /\ (mode = "relay" => relayUrl = host.url)

\* The variables have their types.  A QR is on the screen only as long as it
\* is offered.
CardTypeOK ==
    /\ host \in Status /\ {disturbed, hydrated, saving} \subseteq BOOLEAN
    /\ status \in Status \cup {Nothing, Lost}
    /\ mode \in {"quick", "relay"}
    /\ relayUrl \in Relays \cup {NoUrl}
    /\ liveEndpoint \in Relays \cup Tunnels \cup {NoUrl}
    /\ polls \subseteq Status
    /\ saves \in [1..MaxSaves -> EndpointSave]
    /\ (qr.at = "none") <=> ~Offered

\* The phone scans what the user sees selected: with no save in flight, a QR on
\* the screen is of the mode, and of the relay, that the form shows, as long as
\* nobody else has changed the selection, no answer to a save was lost, no status
\* from before a change has arrived after it, and the status is of the Host's
\* present selection.
\* (client/index.tsx:267-268, 386.)
QrOfSelection ==
    /\ CardTypeOK
    /\ ~disturbed /\ NoSave /\ StatusLoaded /\ SameSelection(status) /\ qr.at = "shown"
          => qr.of.mode = mode /\ (mode = "relay" => qr.of.url = relayUrl)

\* From some time on neither the tunnel nor any page moves the Host.
HostRests == <>[][FALSE]_host

\* Once the Host's endpoint stays what it is, the QR on the screen comes to be
\* of it and stays so, whatever answers are still under way, lost or late; and
\* if the form then agrees with it and nothing is being saved, there is a QR on
\* the screen again and again: no failed save or lost answer leaves the card
\* waiting.  (client/index.tsx:203, 231, 267-284.)
QrCatchesUp ==
    HostRests =>
        /\ <>[](qr.at = "shown" => qr.of = host)
        /\ <>[](Agreed /\ NoSave) => []<>(qr.at = "shown")
=============================================================================
