------------------------------- MODULE HostHome -----------------------------
(***************************************************************************)
(* What a Host keeps in its DSH Home from one start to the next, and what  *)
(* a start makes of it: the identity key (src/keys.ts), the selected       *)
(* endpoint (src/endpoint-settings.ts) and the configuration               *)
(* (src/config.ts), read in this order by apply() of src/index.ts once the *)
(* DSH release has been let through (src/compatibility.ts).                *)
(*                                                                         *)
(* The process may be killed at any moment and the files be damaged.  A    *)
(* Host that reads something it cannot use does not start.                 *)
(***************************************************************************)
EXTENDS Naturals

CONSTANTS
    Releases, Verified, Blocked,   \* DSH releases, and what is known of them
    Configs,                       \* configurations the user may start with
    Selections,                    \* selections the settings page may send
    Missing, Corrupt,              \* a file that is not there, or unreadable
    MaxKeys                        \* bound on the identities minted

VARIABLES
    keyFile,         \* daemon-keypair.json: a key, Missing or Corrupt
    overlay,         \* public-endpoint.json: a selection, Missing or Corrupt
    identity,        \* the key in memory, 0 while no plugin runs
    minted,          \* keys minted so far: 1 .. minted
    trusted,         \* the key that paired phones know, 0 for none
    refused          \* what the last start could not use, "no" if it started

home == <<keyFile, overlay, identity, minted, trusted, refused>>

\* Addresses by what the checks tell apart: HTTPS; HTTPS with a query; WSS;
\* anything else; "" for a field that is not set.
Addresses == {"https", "query", "wss", "other", ""}
Modes == {"quick", "custom", "relay"}

Selection == [mode: Modes, url: Addresses]

\* rest: every field that is only checked and never decides anything here.
Config == [mode: Modes \cup {"other"}, custom: Addresses, relay: Addresses,
           rest: BOOLEAN]

ASSUME HomeAssumption ==
    /\ Configs \subseteq Config /\ Selections \subseteq Selection
    /\ MaxKeys \in Nat
    /\ {Missing, Corrupt} \cap (Selection \cup 1..MaxKeys) = {}
    /\ Missing # Corrupt

-----------------------------------------------------------------------------
\* classifyDshRuntime() and shouldMountDshRuntime(): only a release that is
\* known to fail is kept out.
Classify(release) ==
    CASE release \in Blocked -> "blocked"
      [] release \in Verified \ Blocked -> "verified"
      [] OTHER -> "unverified"

MayMount(release) == Classify(release) # "blocked"

\* resolveConfig(): it looks at less of a custom address than the check below.
ConfigAccepted(config) ==
    /\ config.mode \in Modes /\ config.rest
    /\ config.mode = "custom" => config.custom \in {"https", "query"}
    /\ config.mode = "relay" => config.relay = "wss"

\* validateCustomEndpoint(), validateRelayEndpoint().
ValidCustom(url) == url = "https"
ValidRelay(url) == url = "wss"

\* parseEndpointSelection() and the checks before the network is asked.  In
\* quick mode an address that is sent along is kept unread.
Selectable(sel) ==
    \/ sel.mode = "quick"
    \/ sel.mode = "custom" /\ ValidCustom(sel.url)
    \/ sel.mode = "relay" /\ ValidRelay(sel.url)

\* live: the overlay wins over the configuration, field by field.
Live(config) ==
    LET kept == overlay # Missing
    IN  [mode |-> IF kept THEN overlay.mode ELSE config.mode,
         custom |-> IF kept /\ overlay.mode # "relay" /\ overlay.url # ""
                    THEN overlay.url ELSE config.custom,
         relay |-> IF kept /\ overlay.mode = "relay"
                   THEN overlay.url ELSE config.relay]

\* The endpoint apply() starts with is checked once more.
EndpointAccepted(live) ==
    /\ live.mode = "custom" => ValidCustom(live.custom)
    /\ live.mode = "relay" /\ live.relay # "" => ValidRelay(live.relay)

\* What apply() throws at, in the order in which it looks.
Refusal(config) ==
    CASE ~ConfigAccepted(config) -> "config"
      [] ConfigAccepted(config) /\ overlay = Corrupt -> "overlay"
      [] ConfigAccepted(config) /\ overlay # Corrupt /\ keyFile = Corrupt -> "key"
      [] OTHER -> IF EndpointAccepted(Live(config)) THEN "no" ELSE "endpoint"

-----------------------------------------------------------------------------
HomeInit ==
    /\ keyFile = Missing /\ overlay = Missing
    /\ identity = 0 /\ minted = 0 /\ trusted = 0 /\ refused = "no"

\* Mutant: whatever is wrong with the file, there is a new key.
LoadOrMintAny ==
    \/ keyFile \in 1..MaxKeys /\ UNCHANGED <<keyFile, minted>>
    \/ /\ keyFile \notin 1..MaxKeys
       /\ minted < MaxKeys
       /\ minted' = minted + 1 /\ keyFile' = minted'

\* loadOrCreateKeypair(): a missing file is minted, a corrupt one is an error.
LoadOrMint ==
    \/ keyFile # Missing /\ UNCHANGED <<keyFile, minted>>
    \/ /\ keyFile = Missing
       /\ minted < MaxKeys
       /\ minted' = minted + 1 /\ keyFile' = minted'

\* apply() up to its effects.  The key is minted before the endpoint is found
\* wanting; a start that is refused before has not touched it.
Boot(config) ==
    /\ refused' = Refusal(config)
    /\ IF refused' \in {"config", "overlay"}
       THEN UNCHANGED <<keyFile, minted>> ELSE LoadOrMint
    /\ identity' = IF refused' = "no" THEN keyFile' ELSE 0
    /\ UNCHANGED <<overlay, trusted>>

\* The process is killed while mint() writes the file.
KilledInMint(config) ==
    /\ Refusal(config) \in {"no", "endpoint"} /\ keyFile = Missing
    /\ keyFile' = Corrupt
    /\ UNCHANGED <<overlay, identity, minted, trusted, refused>>

\* The plugin or its process ends.
Ends == identity' = 0 /\ UNCHANGED <<keyFile, overlay, minted, trusted, refused>>

\* A phone pairs: it keeps the key of the QR.
Trust == trusted' = identity
         /\ UNCHANGED <<keyFile, overlay, identity, minted, refused>>

\* savePublicEndpointOverlay(): a temporary file renamed over the old one.
SaveOverlay(sel) ==
    /\ overlay' = sel
    /\ UNCHANGED <<keyFile, identity, minted, trusted, refused>>

\* A file is damaged, which the next start will see; the user removes it, as
\* the error says.  Without the key the phones have to pair again.
Damage ==
    /\ identity = 0
    /\ \/ keyFile' = Corrupt /\ keyFile # Missing /\ UNCHANGED overlay
       \/ overlay' = Corrupt /\ overlay # Missing /\ UNCHANGED keyFile
    /\ UNCHANGED <<identity, minted, trusted, refused>>

RemoveDamaged ==
    /\ identity = 0
    /\ \/ /\ keyFile = Corrupt /\ keyFile' = Missing
          /\ trusted' = 0 /\ UNCHANGED overlay
       \/ /\ overlay = Corrupt /\ overlay' = Missing
          /\ UNCHANGED <<keyFile, trusted>>
    /\ UNCHANGED <<identity, minted, refused>>

-----------------------------------------------------------------------------
HomeTypeOK ==
    /\ keyFile \in (1..minted) \cup {Missing, Corrupt}
    /\ overlay \in Selection \cup {Missing, Corrupt}
    /\ minted \in 0..MaxKeys
    /\ {identity, trusted} \subseteq 0..minted
    /\ refused \in {"no", "config", "overlay", "key", "endpoint"}

\* A Host starts again as what it was.  It never runs under another identity
\* than the one its phones know, through kills, damage and configurations that
\* fail, unless the user has removed the key (keys.ts:24-29); and no selection
\* that the settings page has saved keeps it from starting: an endpoint that
\* apply() throws at comes from the configuration.
\* (index.ts:62-74, endpoint-settings.ts:59-79.)
StartsAsItWas ==
    /\ identity # 0 /\ trusted # 0 => identity = trusted
    /\ refused = "endpoint" => overlay = Missing
=============================================================================
