------------------------- MODULE EndpointMux_proofs -------------------------
(***************************************************************************)
(* What holds of a Host behind a mux, and of a phone that looks for its     *)
(* Host through it, for any number of Hosts, ports, configurations and      *)
(* keys.                                                                    *)
(***************************************************************************)
EXTENDS EndpointMux, WellFoundedInduction, TLAPS

\* What is in the Home: the key that runs is the one in the file, the file has
\* the key the phones know unless it was damaged, and a selection that was saved
\* can be started with.
HomeInv ==
    /\ HomeTypeOK
    /\ identity # 0 => identity = keyFile
    /\ trusted # 0 => keyFile \in {trusted, Corrupt}
    /\ overlay \in Selection => Selectable(overlay)
    /\ refused = "endpoint" => overlay = Missing

\* The process of Own and what is in memory go together.
OwnInv ==
    /\ gateway \in [Hosts -> {"down", "starting", "up"}]
    /\ gateway[Own] = "down" => identity = 0
    /\ gateway[Own] # "down" => refused = "no"

\* A probe is made by a Host that is up, of an address that may be saved.
HasFields(p) ==
    p = [at |-> p.at, sel |-> p.sel, homes |-> p.homes, left |-> p.left,
         ids |-> p.ids, heard |-> p.heard, lent |-> p.lent]

ProbeInv ==
    /\ HasFields(probe) /\ probe.sel \in Selection
    /\ probe.at = "idle" => probe = NoProbe
    /\ probe.at # "idle" => gateway[Own] = "up" /\ Selectable(probe.sel)
    /\ probe.at = "relay" => probe.sel.mode = "relay"

IInv == HomeInv /\ OwnInv /\ ProbeInv

-----------------------------------------------------------------------------
\* The files that are not there or damaged are no keys and no selections.
LEMMA NotData ==
    /\ Missing \notin Selection /\ Corrupt \notin Selection /\ Missing # Corrupt
    /\ \A n \in 0..MaxKeys : \A k \in 1..n : k # Missing /\ k # Corrupt
BY HomeAssumption

\* A start that throws at the endpoint found no selection.
LEMMA EndpointFromConfig ==
    ASSUME HomeInv, NEW config, Refusal(config) = "endpoint"
    PROVE  overlay = Missing
<1>1. overlay # Corrupt /\ ~EndpointAccepted(Live(config))
    BY DEF Refusal
<1>2. ASSUME overlay \in Selection PROVE FALSE
    <2>1. overlay # Missing /\ Selectable(overlay)
        BY <1>2, NotData DEF HomeInv
    <2> QED BY <1>1, <1>2, <2>1
            DEF EndpointAccepted, Live, Selectable, ValidCustom, ValidRelay, Selection
<1> QED BY <1>1, <1>2 DEF HomeInv, HomeTypeOK

\* A start that is not refused has read a key or found none.
LEMMA StartedWithKey ==
    ASSUME NEW config, Refusal(config) = "no" PROVE keyFile # Corrupt
BY DEF Refusal

\* What a start can be refused for.
LEMMA Refusals ==
    ASSUME NEW config
    PROVE  Refusal(config) \in {"no", "config", "overlay", "key", "endpoint"}
BY DEF Refusal

\* A start keeps the identity, or mints the first one.
LEMMA BootStep == ASSUME HomeInv, NEW config, Boot(config) PROVE HomeInv'
<1>1. minted \in 0..MaxKeys /\ MaxKeys \in Nat
    BY HomeAssumption DEF HomeInv, HomeTypeOK
<1>2. refused' \in {"no", "config", "overlay", "key", "endpoint"}
    BY Refusals DEF Boot
<1>3. CASE UNCHANGED <<keyFile, minted>>
    <2>1. refused' = "no" => keyFile # Corrupt
        BY StartedWithKey DEF Boot
    <2>2. refused' = "no" => keyFile # Missing
        BY <1>1, <1>3, NotData DEF Boot, LoadOrMint, HomeInv, HomeTypeOK
    <2> QED BY <1>1, <1>2, <1>3, <2>1, <2>2, EndpointFromConfig, NotData
            DEF Boot, HomeInv, HomeTypeOK
<1>4. CASE ~UNCHANGED <<keyFile, minted>>
    <2>1. /\ keyFile = Missing /\ minted < MaxKeys
          /\ minted' = minted + 1 /\ keyFile' = minted'
        BY <1>4 DEF Boot, LoadOrMint
    <2>2. trusted = 0
        BY <1>1, <2>1, NotData DEF HomeInv, HomeTypeOK
    <2> QED BY <1>1, <1>2, <2>1, <2>2, EndpointFromConfig, NotData
            DEF Boot, HomeInv, HomeTypeOK
<1> QED BY <1>3, <1>4

\* What else happens to a Home while no plugin runs.
LEMMA RestStep ==
    ASSUME HomeInv, identity = 0,
           Damage \/ RemoveDamaged \/ \E config : KilledInMint(config)
    PROVE  HomeInv'
<1>1. minted \in 0..MaxKeys /\ MaxKeys \in Nat
    BY HomeAssumption DEF HomeInv, HomeTypeOK
<1>2. CASE \E config : KilledInMint(config)
    <2>1. trusted = 0
        BY <1>1, <1>2, NotData DEF HomeInv, HomeTypeOK, KilledInMint
    <2> QED BY <1>2, <2>1, NotData DEF HomeInv, HomeTypeOK, KilledInMint
<1>3. CASE Damage
    BY <1>1, <1>3, NotData DEF HomeInv, HomeTypeOK, Damage
<1>4. CASE RemoveDamaged
    BY <1>1, <1>4, NotData DEF HomeInv, HomeTypeOK, RemoveDamaged
<1> QED BY <1>2, <1>3, <1>4

\* And while it runs, or when it ends.
LEMMA RunStep ==
    ASSUME HomeInv,
           \/ Ends \/ Trust
           \/ \E sel \in Selection : SaveOverlay(sel) /\ Selectable(sel)
                                     /\ refused = "no"
    PROVE  HomeInv'
<1>1. minted \in 0..MaxKeys /\ MaxKeys \in Nat
    BY HomeAssumption DEF HomeInv, HomeTypeOK
<1>2. CASE Ends
    BY <1>2 DEF HomeInv, HomeTypeOK, Ends
<1>3. CASE Trust
    BY <1>1, <1>3 DEF HomeInv, HomeTypeOK, Trust
<1>4. CASE \E sel \in Selection : SaveOverlay(sel) /\ Selectable(sel) /\ refused = "no"
    BY <1>4 DEF HomeInv, HomeTypeOK, SaveOverlay
<1> QED BY <1>2, <1>3, <1>4

\* The identity that runs is the one the phones know.
LEMMA HomeInvStartsAsItWas == HomeInv => StartsAsItWas
<1> SUFFICES ASSUME HomeInv PROVE StartsAsItWas
    OBVIOUS
<1>1. minted \in 0..MaxKeys /\ MaxKeys \in Nat
    BY HomeAssumption DEF HomeTypeOK, HomeInv
<1> QED BY <1>1, NotData DEF HomeInv, HomeTypeOK, StartsAsItWas

-----------------------------------------------------------------------------
\* While nothing is probed nothing is claimed.
LEMMA NothingProbed ==
    /\ HasFields(NoProbe) /\ NoProbe.sel \in Selection
    /\ NoProbe.at = "idle" /\ NoProbe.ids = {} /\ ~NoProbe.heard /\ NoProbe.left = <<>>
<1>1. NoSelection \in Selection
    BY DEF NoSelection, Selection, Modes, Addresses
<1> QED BY <1>1 DEF NoProbe, HasFields

\* The initial state.
LEMMA MuxInit == Init => IInv
<1> SUFFICES ASSUME Init PROVE IInv
    OBVIOUS
<1>1. HomeInv
    BY HomeAssumption, NotData DEF Init, HomeInit, HomeInv, HomeTypeOK
<1>2. OwnInv
    BY MuxAssumption DEF Init, HomeInit, OwnInv
<1>3. ProbeInv
    BY NothingProbed DEF Init, ProbeInv
<1> QED BY <1>1, <1>2, <1>3 DEF IInv

\* Own starts, or something happens to its Home while it is down.
LEMMA StartStep ==
    ASSUME IInv, NEW config \in Configs, NEW release \in Releases,
           Start(config, release) \/ Killed(config, release)
    PROVE  IInv'
<1>1. gateway[Own] = "down" /\ UNCHANGED <<mux, upgrade, probe>>
    BY DEF Start, Killed, hosts
<1>2. HomeInv'
    BY <1>1, BootStep, RestStep DEF IInv, OwnInv, Start, Killed
<1>3. OwnInv'
    <2>1. CASE Killed(config, release)
        BY <2>1 DEF IInv, OwnInv, Killed, KilledInMint, hosts
    <2>2. CASE Start(config, release)
        BY <2>2, MuxAssumption DEF IInv, OwnInv, Start, Boot, Begin
    <2> QED BY <2>1, <2>2
<1>4. ProbeInv'
    BY <1>1 DEF IInv, ProbeInv
<1> QED BY <1>2, <1>3, <1>4 DEF IInv

\* The Gateway of a Host comes up.
LEMMA UpStep ==
    ASSUME IInv, NEW h \in Hosts, StartOther(h) \/ \E p \in Ports : Listen(h, p)
    PROVE  IInv'
<1>1. /\ UNCHANGED <<home, probe>>
      /\ \/ gateway' = [gateway EXCEPT ![h] = "starting"] /\ h # Own
         \/ gateway' = [gateway EXCEPT ![h] = "up"] /\ gateway[h] = "starting"
    BY DEF StartOther, Begin, Listen
<1>2. HomeInv'
    BY <1>1 DEF IInv, HomeInv, HomeTypeOK, home
<1>3. OwnInv'
    BY <1>1, MuxAssumption DEF IInv, OwnInv, home
<1>4. ProbeInv'
    BY <1>1, MuxAssumption DEF IInv, OwnInv, ProbeInv, ProbeHeardThisHost
<1> QED BY <1>2, <1>3, <1>4 DEF IInv

\* The Gateway of a Host goes.
LEMMA DownStep ==
    ASSUME IInv, NEW h \in Hosts, Dispose(h) \/ Die(h) PROVE IInv'
<1>1. Gone(h)
    BY DEF Dispose, Die
<1>2. HomeInv'
    BY <1>1, RunStep DEF IInv, Gone, HomeInv, HomeTypeOK, home
<1>3. OwnInv'
    BY <1>1, MuxAssumption DEF IInv, OwnInv, Gone, Ends, home
<1>4. ProbeInv'
    <2>1. CASE h = Own
        <3>1. probe' = NoProbe
            BY <1>1, <2>1 DEF Gone
        <3> QED BY <3>1, NothingProbed DEF ProbeInv
    <2>2. CASE h # Own
        BY <1>1, <2>2, MuxAssumption
           DEF IInv, OwnInv, Gone, ProbeInv
    <2> QED BY <2>1, <2>2
<1> QED BY <1>2, <1>3, <1>4 DEF IInv

\* A step of the phone, the mux or the files that leaves the probe alone.
LEMMA OtherStep ==
    ASSUME IInv, UNCHANGED <<gateway, probe>>,
           \/ UNCHANGED home
           \/ Files
           \/ Trust
           \/ \E sel \in Selection : SaveOverlay(sel) /\ Selectable(sel)
                                     /\ gateway[Own] = "up"
    PROVE  IInv'
<1>1. HomeInv'
    BY RestStep, RunStep
       DEF IInv, OwnInv, HomeInv, HomeTypeOK, home, Files, Damage, RemoveDamaged
<1>2. OwnInv'
    BY DEF IInv, OwnInv, home, Files, Damage, RemoveDamaged, Trust, SaveOverlay
<1>3. ProbeInv'
    BY DEF IInv, ProbeInv
<1> QED BY <1>1, <1>2, <1>3 DEF IInv

\* A step of the probe.
LEMMA ProbeStep ==
    ASSUME IInv,
           \/ \E sel \in Selections : ProbeRelay(sel) \/ ProbeHealth(sel)
           \/ RelayHealthy \/ ReadIdentity \/ ProbeSocket \/ CheckSocket
           \/ ProbeFails \/ MuxStops \/ MuxDies
    PROVE  IInv'
<1>1. UNCHANGED <<home, gateway>>
    BY DEF ProbeRelay, ProbeHealth, RelayHealthy, ReadIdentity, ProbeSocket,
           CheckSocket, ProbeFails, MuxStops, MuxDies, hosts
<1>2. HomeInv' /\ OwnInv'
    BY <1>1 DEF IInv, HomeInv, HomeTypeOK, OwnInv, home
<1>3. CASE \E sel \in Selections : ProbeRelay(sel) \/ ProbeHealth(sel)
    <2>1. PICK sel \in Selections : ProbeRelay(sel) \/ ProbeHealth(sel)
        BY <1>3
    <2>2. sel \in Selection /\ sel.mode \in {"relay", "custom"} /\ Selectable(sel)
          /\ gateway[Own] = "up"
        BY <2>1, HomeAssumption DEF ProbeRelay, ProbeHealth
    <2>3. /\ probe'.at \in {"relay", "health"} /\ probe'.sel = sel
          /\ HasFields(probe') /\ probe'.ids = {}
          /\ probe'.at = "relay" => sel.mode = "relay"
        BY <2>1 DEF ProbeRelay, ProbeHealth, NoProbe, HasFields
    <2>4. ProbeInv'
        BY <1>1, <2>2, <2>3 DEF ProbeInv
    <2> QED BY <1>2, <2>4 DEF IInv
<1>4. CASE ReadIdentity
    <2>1. HasFields(probe) /\ probe.at = "health"
        BY <1>4 DEF ReadIdentity, IInv, ProbeInv
    <2>2. \E ids, left, heard : probe' = [probe EXCEPT !.left = left, !.ids = ids,
                                                     !.heard = heard]
        BY <1>4 DEF ReadIdentity
    <2>3. HasFields(probe') /\ probe'.at = "health" /\ probe'.sel = probe.sel
        BY <2>1, <2>2 DEF HasFields
    <2>4. ProbeInv'
        BY <1>1, <2>1, <2>3 DEF IInv, ProbeInv
    <2> QED BY <1>2, <2>4 DEF IInv
<1>5. CASE RelayHealthy \/ ProbeSocket \/ CheckSocket \/ ProbeFails \/ MuxStops \/ MuxDies
    <2>1. HasFields(probe)
        BY DEF IInv, ProbeInv
    <2>2. ASSUME NEW at, NEW left, probe.at # "idle",
                 probe' = [probe EXCEPT !.at = at, !.left = left],
                 at # "idle", at = "relay" => probe.at = "relay"
          PROVE  IInv'
        <3>1. HasFields(probe') /\ probe'.at = at /\ probe'.sel = probe.sel
            BY <2>1, <2>2 DEF HasFields
        <3>2. ProbeInv'
            BY <1>1, <2>2, <3>1 DEF IInv, ProbeInv
        <3> QED BY <1>2, <3>2 DEF IInv
    <2>3. CASE UNCHANGED probe
        BY <1>1, <1>2, <2>3 DEF IInv, ProbeInv
    <2>4. CASE RelayHealthy
        <3>1. probe' = [probe EXCEPT !.at = "passed", !.left = probe.left]
            BY <2>1, <2>4 DEF RelayHealthy, HasFields
        <3> QED BY <2>2, <2>4, <3>1 DEF RelayHealthy
    <2>5. CASE CheckSocket
        <3>1. CASE probe' = [probe EXCEPT !.left = <<>>,
                      !.at = IF identity \in probe.ids THEN "passed" ELSE "failed"]
            <4>1. probe' = [probe EXCEPT
                      !.at = IF identity \in probe.ids THEN "passed" ELSE "failed",
                      !.left = <<>>]
                BY <2>1, <3>1 DEF HasFields
            <4> QED BY <2>2, <2>5, <4>1 DEF CheckSocket
        <3>2. CASE probe' = [probe EXCEPT !.left = Tail(@)]
            <4>1. probe' = [probe EXCEPT !.at = probe.at, !.left = Tail(probe.left)]
                BY <2>1, <3>2 DEF HasFields
            <4> QED BY <2>2, <2>5, <4>1 DEF CheckSocket
        <3>3. CASE probe' = [probe EXCEPT !.at = "failed", !.left = <<>>]
            BY <2>2, <2>5, <3>3 DEF CheckSocket
        <3> QED BY <2>5, <3>1, <3>2, <3>3 DEF CheckSocket
    <2>6. CASE ProbeSocket
        <3>1. /\ probe.at = "health"
              /\ \E left : probe' = [probe EXCEPT !.at = "socket", !.left = left]
            BY <2>6 DEF ProbeSocket
        <3>2. PICK left : probe' = [probe EXCEPT !.at = "socket", !.left = left]
            BY <3>1
        <3> QED BY <2>2, <3>1, <3>2
    <2>7. CASE ProbeFails \/ MuxStops \/ MuxDies
        <3>1. \/ UNCHANGED probe
              \/ /\ probe.at \in {"relay", "health", "socket"}
                 /\ probe' = [probe EXCEPT !.at = "failed", !.left = <<>>]
            BY <2>7 DEF ProbeFails, MuxStops, MuxDies
        <3> QED BY <2>2, <2>3, <3>1
    <2> QED BY <1>5, <2>4, <2>5, <2>6, <2>7
<1> QED BY <1>3, <1>4, <1>5

\* What has passed is saved, and the next probe may begin.
LEMMA ProbeEndStep == ASSUME IInv, ProbeEnds PROVE IInv'
<1>1. probe' = NoProbe /\ UNCHANGED gateway
    BY DEF ProbeEnds, hosts
<1>2. probe.at # "idle"
    BY DEF ProbeEnds
<1>3. HomeInv'
    <2>1. CASE SaveOverlay(probe.sel)
        <3>1. probe.sel \in Selection /\ Selectable(probe.sel) /\ refused = "no"
            BY <1>2 DEF IInv, OwnInv, ProbeInv
        <3> QED BY <2>1, <3>1, RunStep DEF IInv
    <2>2. CASE UNCHANGED home
        BY <2>2 DEF IInv, HomeInv, HomeTypeOK, home
    <2> QED BY <2>1, <2>2 DEF ProbeEnds
<1>4. OwnInv'
    BY <1>1 DEF IInv, OwnInv, ProbeEnds, SaveOverlay, home
<1>5. ProbeInv'
    BY <1>1, NothingProbed DEF ProbeInv
<1> QED BY <1>3, <1>4, <1>5 DEF IInv

-----------------------------------------------------------------------------
\* Every step keeps the invariant.
LEMMA MuxNext == ASSUME IInv, [Next]_vars PROVE IInv'
<1>1. CASE \E config \in Configs, release \in Releases :
              Start(config, release) \/ Killed(config, release)
    BY <1>1, StartStep
<1>2. CASE \E h \in Hosts :
              StartOther(h) \/ Dispose(h) \/ Die(h) \/ (\E p \in Ports : Listen(h, p))
    BY <1>2, UpStep, DownStep
<1>3. CASE Pair \/ Revoke \/ Files
    BY <1>3, OtherStep DEF Pair, Revoke, Files, hosts
<1>4. CASE \/ Ask \/ Try \/ StrangerAnswers \/ Refuse \/ Leave
          \/ (\E p \in Strangers : StrangerComes(p) \/ StrangerGoes(p))
          \/ MuxStarts \/ MuxExits \/ UNCHANGED vars
    BY <1>4, OtherStep DEF Ask, Try, StrangerAnswers, Refuse, Leave, StrangerComes,
                           StrangerGoes, MuxStarts, MuxExits, hosts, vars
<1>5. CASE \E sel \in Selections : SelectQuick(sel)
    BY <1>5, OtherStep, HomeAssumption DEF SelectQuick, hosts
<1>6. CASE ProbeEnds
    BY <1>6, ProbeEndStep
<1>7. CASE \/ \E sel \in Selections : ProbeRelay(sel) \/ ProbeHealth(sel)
          \/ RelayHealthy \/ ReadIdentity \/ ProbeSocket \/ CheckSocket
          \/ ProbeFails \/ MuxStops \/ MuxDies
    BY <1>7, ProbeStep
<1>8. CASE Next
    BY <1>1, <1>2, <1>3, <1>4, <1>5, <1>6, <1>7, <1>8 DEF Next
<1> QED BY <1>4, <1>8

\* A Host never runs under another identity than its phones know, and no saved
\* selection keeps it from starting, for any number of keys, configurations and
\* Hosts.  (keys.ts:24-29, endpoint-settings.ts:59-79, index.ts:62-74.)
THEOREM MuxStartsAsItWas == Spec => []StartsAsItWas
<1>1. IInv => StartsAsItWas
    BY HomeInvStartsAsItWas DEF IInv
<1> QED BY <1>1, MuxInit, MuxNext, PTL DEF Spec

-----------------------------------------------------------------------------
(***************************************************************************)
(* The list of backends, and the search through it.                         *)
(***************************************************************************)

\* Induction, of a set of numbers.
LEMMA NumbersInduction ==
    ASSUME NEW S, 0 \in S, \A n \in Nat : n \in S => n + 1 \in S
    PROVE  Nat \subseteq S
<1> DEFINE R == OpToRel(<, Nat)
           T == Nat \ S
<1> SUFFICES ASSUME T # {} PROVE FALSE
    OBVIOUS
<1>1. IsWellFoundedOn(R, Nat)
    BY NatLessThanWellFounded
<1>2. \A x, y \in Nat : x < y => <<x, y>> \in R
    BY DEF OpToRel
<1> HIDE DEF R
<1>3. PICK m \in T : \A k \in T : <<k, m>> \notin R
    BY <1>1, WFMin
<1>4. m # 0 /\ m \in Nat
    BY <1>3
<1>5. m - 1 \in Nat /\ m - 1 < m
    BY <1>4
<1>6. m - 1 \in S
    BY <1>2, <1>3, <1>5
<1>7. (m - 1) + 1 = m
    BY <1>4
<1> QED BY <1>3, <1>5, <1>6, <1>7

\* The first n Homes give a list, whatever their number.
IsListing(f, homes, n) ==
    f = [m \in 0..n |-> IF m = 0 THEN Static
                        ELSE Listing(f[m - 1], published[homes[m]])]

LEMMA ListingExists ==
    ASSUME NEW homes, NEW n \in Nat PROVE \E f : IsListing(f, homes, n)
<1> DEFINE S == {k \in Nat : \E f : IsListing(f, homes, k)}
<1>1. 0 \in S
    <2>1. PICK f : f = [m \in 0..0 |-> Static]
        OBVIOUS
    <2>2. f = [m \in 0..0 |-> IF m = 0 THEN Static
                              ELSE Listing(f[m - 1], published[homes[m]])]
        BY <2>1
    <2> QED BY <2>2 DEF IsListing
<1>2. ASSUME NEW k \in Nat, k \in S PROVE k + 1 \in S
    <2>1. PICK f : IsListing(f, homes, k)
        BY <1>2
    <2>2. PICK g : g = [m \in 0..(k + 1) |->
                           IF m = k + 1 THEN Listing(f[k], published[homes[k + 1]])
                           ELSE f[m]]
        OBVIOUS
    <2>3. ASSUME NEW m \in 0..(k + 1)
          PROVE  g[m] = IF m = 0 THEN Static ELSE Listing(g[m - 1], published[homes[m]])
        <3>1. CASE m = k + 1
            <4>1. m # 0 /\ m - 1 = k /\ k \in 0..(k + 1) /\ k # k + 1
                BY <3>1
            <4>2. g[m] = Listing(f[k], published[homes[k + 1]]) /\ g[k] = f[k]
                BY <2>2, <3>1, <4>1
            <4> QED BY <3>1, <4>1, <4>2
        <3>2. CASE m # k + 1
            <4>1. m \in 0..k
                BY <2>3, <3>2
            <4>2. m # 0 => m - 1 \in 0..(k + 1) /\ m - 1 # k + 1
                BY <4>1
            <4>3. g[m] = f[m] /\ (m # 0 => g[m - 1] = f[m - 1])
                BY <2>2, <3>2, <4>2
            <4>4. f[m] = IF m = 0 THEN Static ELSE Listing(f[m - 1], published[homes[m]])
                BY <2>1, <4>1 DEF IsListing
            <4> QED BY <4>3, <4>4
        <3> QED BY <3>1, <3>2
    <2>4. IsListing(g, homes, k + 1)
        BY <2>2, <2>3 DEF IsListing
    <2> QED BY <2>4
<1>3. Nat \subseteq S
    <2> HIDE DEF S
    <2> QED BY <1>1, <1>2, NumbersInduction
<1> QED BY <1>3

\* The list grows at its end, and only by what was published.
Grows(list, p, next) ==
    /\ next \in Seq(Ports \cup Strangers)
    /\ Len(next) >= Len(list)
    /\ \A k \in 1..Len(list) : next[k] = list[k]
    /\ p # NoPort => \E k \in 1..Len(next) : next[k] = p
    /\ \A k \in 1..Len(next) : k \in 1..Len(list) \/ (next[k] = p /\ p # NoPort)

LEMMA ListingGrows ==
    ASSUME NEW list, list \in Seq(Ports \cup Strangers),
           NEW p, p = NoPort \/ p \in Ports \cup Strangers
    PROVE  Grows(list, p, Listing(list, p))
<1> DEFINE T == Ports \cup Strangers
<1> HIDE DEF T
<1>0. list \in Seq(T) /\ (p = NoPort \/ p \in T)
    BY DEF T
<1>1. CASE p = NoPort \/ Contains(list, p)
    <2>1. Listing(list, p) = list /\ Len(list) \in Nat
        BY <1>1 DEF Listing
    <2>2. p # NoPort => \E k \in 1..Len(list) : list[k] = p
        BY <1>1 DEF Contains
    <2>3. Grows(list, p, list)
        BY <2>1, <2>2 DEF Grows
    <2> QED BY <2>1, <2>3
<1>2. CASE ~(p = NoPort \/ Contains(list, p))
    <2>1. Listing(list, p) = Append(list, p) /\ p \in T
        BY <1>0, <1>2 DEF Listing
    <2>2. /\ Append(list, p) \in Seq(T) /\ Len(list) \in Nat
          /\ Len(Append(list, p)) = Len(list) + 1
          /\ \A k \in 1..Len(list) : Append(list, p)[k] = list[k]
          /\ Append(list, p)[Len(list) + 1] = p
        BY <1>0, <2>1
    <2>3. Len(list) + 1 \in 1..(Len(list) + 1)
        BY <2>2
    <2>4. PICK next : next = Append(list, p)
        OBVIOUS
    <2>5. \A k \in 1..Len(next) : k \in 1..Len(list) \/ next[k] = p
        BY <2>2, <2>4
    <2>6. Grows(list, p, next)
        BY <1>0, <1>2, <2>2, <2>3, <2>4, <2>5 DEF Grows, T
    <2> QED BY <2>1, <2>4, <2>6
<1> QED BY <1>1, <1>2

\* Every list has ports only, static ones and those that the first n Homes
\* publish, and all of the latter.
Lists(list, homes, n) ==
    /\ list \in Seq(Ports \cup Strangers)
    /\ \A m \in 1..n : published[homes[m]] # NoPort =>
          \E k \in 1..Len(list) : list[k] = published[homes[m]]
    /\ \A k \in 1..Len(list) :
          \/ list[k] \in Range(Static)
          \/ \E m \in 1..n : list[k] = published[homes[m]] /\ list[k] # NoPort

LEMMA ListingLists ==
    ASSUME published \in [Hosts -> Ports \cup {NoPort}],
           NEW homes \in Seq(Hosts), NEW n \in 0..Len(homes),
           NEW f, IsListing(f, homes, Len(homes))
    PROVE  Lists(f[n], homes, n)
<1> DEFINE S == {k \in Nat : k <= Len(homes) => Lists(f[k], homes, k)}
<1>1. Len(homes) \in Nat
    OBVIOUS
<1>2. 0 \in S
    <2>1. f[0] = Static
        BY <1>1 DEF IsListing
    <2>2. \A k \in 1..Len(Static) : Static[k] \in Range(Static)
        BY MuxAssumption DEF Range
    <2>3. Lists(f[0], homes, 0)
        BY <2>1, <2>2, MuxAssumption DEF Lists
    <2> QED BY <2>3
<1>3. ASSUME NEW k \in Nat, k \in S PROVE k + 1 \in S
    <2> SUFFICES ASSUME k + 1 <= Len(homes) PROVE Lists(f[k + 1], homes, k + 1)
        OBVIOUS
    <2>1. k <= Len(homes) /\ Lists(f[k], homes, k)
        BY <1>1, <1>3
    <2>2. f[k + 1] = Listing(f[k], published[homes[k + 1]])
        <3>1. k + 1 \in 0..Len(homes) /\ k + 1 # 0 /\ (k + 1) - 1 = k
            BY <1>1
        <3> QED BY <3>1 DEF IsListing
    <2>3. PICK list, p : list = f[k] /\ p = published[homes[k + 1]]
        OBVIOUS
    <2>4. p = NoPort \/ p \in Ports \cup Strangers
        <3>1. homes[k + 1] \in Hosts
            BY <1>1
        <3> QED BY <2>3, <3>1
    <2>5. list \in Seq(Ports \cup Strangers)
        BY <2>1, <2>3 DEF Lists
    <2>6. PICK next : next = Listing(list, p)
        OBVIOUS
    <2>7. /\ next \in Seq(Ports \cup Strangers)
          /\ Len(next) >= Len(list)
          /\ \A j \in 1..Len(list) : next[j] = list[j]
          /\ p # NoPort => \E j \in 1..Len(next) : next[j] = p
          /\ \A j \in 1..Len(next) : j \in 1..Len(list) \/ (next[j] = p /\ p # NoPort)
        <3>1. Grows(list, p, Listing(list, p))
            BY <2>4, <2>5, ListingGrows
        <3> QED BY <2>6, <3>1 DEF Grows
    <2>8. ASSUME NEW m \in 1..(k + 1), published[homes[m]] # NoPort
          PROVE  \E j \in 1..Len(next) : next[j] = published[homes[m]]
        <3>1. CASE m = k + 1
            BY <2>3, <2>7, <2>8, <3>1
        <3>2. CASE m # k + 1
            <4>1. m \in 1..k
                BY <3>2
            <4>2. PICK j \in 1..Len(list) : list[j] = published[homes[m]]
                BY <2>1, <2>3, <2>8, <4>1 DEF Lists
            <4>3. Len(list) \in Nat /\ Len(next) \in Nat
                BY <2>5, <2>7
            <4>4. j \in 1..Len(next) /\ next[j] = list[j]
                BY <2>7, <4>2, <4>3
            <4> QED BY <4>2, <4>4
        <3> QED BY <3>1, <3>2
    <2>9. next = f[k + 1]
        BY <2>2, <2>3, <2>6
    <2>10. ASSUME NEW j \in 1..Len(next)
           PROVE  \/ next[j] \in Range(Static)
                  \/ \E m \in 1..(k + 1) : next[j] = published[homes[m]] /\ next[j] # NoPort
        <3>1. CASE next[j] = p /\ p # NoPort
            BY <2>3, <3>1
        <3>2. CASE j \in 1..Len(list)
            <4>1. next[j] = list[j]
                BY <2>7, <3>2
            <4>2. \/ list[j] \in Range(Static)
                  \/ \E m \in 1..k : list[j] = published[homes[m]] /\ list[j] # NoPort
                BY <2>1, <2>3, <3>2 DEF Lists
            <4>3. 1..k \subseteq 1..(k + 1)
                OBVIOUS
            <4> QED BY <4>1, <4>2, <4>3
        <3> QED BY <2>7, <3>1, <3>2
    <2> QED BY <2>7, <2>8, <2>9, <2>10 DEF Lists
<1>4. Nat \subseteq S
    <2> HIDE DEF S
    <2> QED BY <1>2, <1>3, NumbersInduction
<1>5. n \in S /\ n <= Len(homes)
    BY <1>1, <1>4
<1> QED BY <1>5

\* What the mux finds has the port of every Home that publishes one.
LEMMA BackendsListed ==
    ASSUME published \in [Hosts -> Ports \cup {NoPort}], NEW homes \in Seq(Hosts)
    PROVE  Lists(Backends(homes), homes, Len(homes))
<1>1. Len(homes) \in Nat
    OBVIOUS
<1> DEFINE upTo == CHOOSE f : IsListing(f, homes, Len(homes))
<1>2. IsListing(upTo, homes, Len(homes))
    BY <1>1, ListingExists
<1>3. Backends(homes) = upTo[Len(homes)]
    BY DEF Backends, IsListing
<1>4. Len(homes) \in 0..Len(homes)
    BY <1>1
<1> HIDE DEF upTo
<1>5. Lists(upTo[Len(homes)], homes, Len(homes))
    BY <1>2, <1>4, ListingLists
<1> QED BY <1>3, <1>5

-----------------------------------------------------------------------------
\* The ports of the Gateways.
Doors ==
    /\ gateway \in [Hosts -> {"down", "starting", "up"}]
    /\ port \in [Hosts -> Ports \cup {NoPort}]
    /\ published \in [Hosts -> Ports \cup {NoPort}]
    /\ \A h \in Hosts : (gateway[h] = "up") <=> (port[h] # NoPort)
    /\ \A g, h \in Hosts : port[g] = port[h] /\ port[g] # NoPort => g = h
    /\ strangers \subseteq Strangers /\ \A h \in Hosts : port[h] \notin strangers
    /\ admits \in BOOLEAN
    /\ mux \in {"up", "stopping", "down"}

\* A search during which Own was always there has the port of Own ahead.
Ahead(left, p) == \E k \in 1..Len(left) : left[k] = p

Search ==
    /\ upgrade = [at |-> upgrade.at, left |-> upgrade.left, steady |-> upgrade.steady]
    /\ upgrade.at \in Answers \cup {"idle", "asking", "held"}
    /\ upgrade.left \in Seq(Ports \cup Strangers)
    /\ upgrade.at \in {"asking", "held"} /\ upgrade.steady =>
          Reachable /\ Ahead(upgrade.left, port[Own])
    /\ upgrade.at = "held" =>
          upgrade.left # <<>> /\ Head(upgrade.left) \in strangers
    /\ RefusedForCause

\* The stage of the probe and the identities it has collected.
Probed ==
    /\ HasFields(probe)
    /\ probe.at \in {"idle", "relay", "health", "socket", "passed", "failed"}
    /\ probe.ids \subseteq (Hosts \ {Own}) \cup 0..MaxKeys
    /\ probe.homes \in {Homes, Elsewhere}

\* The ports that the probe has still to ask.
Lined == probe.left \in Seq(Ports \cup Strangers)

\* A port is given to a Host when nobody has it, and given up with its Gateway.
LEMMA DoorsStep == ASSUME Doors, [Next]_vars PROVE Doors'
<1>1. CASE UNCHANGED <<gateway, port, published, strangers>>
    <2>1. admits' \in BOOLEAN
        BY <1>1, MuxAssumption
           DEF Doors, Next, vars, hosts, Start, Killed, StartOther, Dispose, Die, Listen,
               Gone, Pair, Revoke, Files, Ask, Try, StrangerAnswers, StrangerComes,
               StrangerGoes, Refuse, Leave, SelectQuick, ProbeRelay,
               ProbeHealth, ReadIdentity, ProbeSocket, CheckSocket, RelayHealthy,
               ProbeFails, ProbeEnds, MuxStarts, MuxStops, MuxExits, MuxDies
    <2>2. mux' \in {"up", "stopping", "down"}
        BY <1>1, MuxAssumption
           DEF Doors, Next, vars, hosts, Start, Killed, StartOther, Dispose, Die, Listen,
               Gone, Pair, Revoke, Files, Ask, Try, StrangerAnswers, StrangerComes,
               StrangerGoes, Refuse, Leave, SelectQuick, ProbeRelay,
               ProbeHealth, ReadIdentity, ProbeSocket, CheckSocket, RelayHealthy,
               ProbeFails, ProbeEnds, MuxStarts, MuxStops, MuxExits, MuxDies
    <2> QED BY <1>1, <2>1, <2>2 DEF Doors
<1>2. CASE \E h \in Hosts : Begin(h) /\ UNCHANGED <<port, published, admits, strangers, mux>>
    BY <1>2 DEF Doors, Begin
<1>3. CASE \E h \in Hosts, p \in Ports : Listen(h, p)
    <2>1. PICK h \in Hosts, p \in Ports : Listen(h, p)
        BY <1>3
    <2>2. p # NoPort /\ p \notin strangers /\ \A g \in Hosts : port[g] # p
        BY <2>1, MuxAssumption DEF Listen, At, Doors
    <2>3. /\ gateway' = [gateway EXCEPT ![h] = "up"]
          /\ port' = [port EXCEPT ![h] = p]
          /\ published' = [published EXCEPT ![h] = p]
          /\ UNCHANGED <<admits, strangers, mux>>
        BY <2>1 DEF Listen, WriteGatewayPort, Doors
    <2> QED BY <2>2, <2>3 DEF Doors
<1>4. CASE \E h \in Hosts : Dispose(h) \/ Die(h)
    <2>1. PICK h \in Hosts : Dispose(h) \/ Die(h)
        BY <1>4
    <2>2. /\ gateway' = [gateway EXCEPT ![h] = "down"]
          /\ port' = [port EXCEPT ![h] = NoPort]
          /\ UNCHANGED <<admits, strangers, mux>>
        BY <2>1 DEF Dispose, Die, Gone
    <2>3. published' \in [Hosts -> Ports \cup {NoPort}]
        BY <2>1 DEF Doors, Dispose, Die, ClearGatewayPort
    <2>4. NoPort \notin strangers
        BY MuxAssumption DEF Doors
    <2> QED BY <2>2, <2>3, <2>4 DEF Doors
<1>5. CASE \E p \in Strangers : StrangerComes(p) \/ StrangerGoes(p)
    <2>1. PICK p \in Strangers : StrangerComes(p) \/ StrangerGoes(p)
        BY <1>5
    <2>2. UNCHANGED <<gateway, port, published, admits, mux>>
        BY <2>1 DEF StrangerComes, StrangerGoes
    <2>3. CASE StrangerComes(p)
        <3>1. \A h \in Hosts : port[h] # p
            BY <2>3, MuxAssumption DEF StrangerComes, At, Doors
        <3> QED BY <2>2, <2>3, <3>1 DEF StrangerComes, Doors
    <2>4. CASE StrangerGoes(p)
        BY <2>2, <2>4 DEF StrangerGoes, Doors
    <2> QED BY <2>1, <2>3, <2>4
<1>6. Own \in Hosts
    BY MuxAssumption
<1> QED
    BY <1>1, <1>2, <1>3, <1>4, <1>5, <1>6
       DEF Next, vars, hosts, Start, Killed, StartOther, Begin, Pair, Revoke, Files,
           Ask, Try, StrangerAnswers, Refuse, Leave, SelectQuick, ProbeRelay, ProbeHealth,
           ReadIdentity, ProbeSocket, CheckSocket, RelayHealthy, ProbeFails,
           ProbeEnds, MuxStarts, MuxStops, MuxExits, MuxDies

\* The probe goes from stage to stage, and only Hosts have an identity.
LEMMA ProbedStep == ASSUME Probed, HomeInv, [Next]_vars PROVE Probed'
<1>1. HasFields(NoProbe) /\ NoProbe.at = "idle" /\ NoProbe.ids = {}
      /\ NoProbe.homes = Homes
    BY NothingProbed DEF NoProbe
<1>2. CASE probe' \in {probe, NoProbe}
    BY <1>1, <1>2 DEF Probed
<1>3. ASSUME NEW at \in {"relay", "health", "socket", "passed", "failed"}, NEW left,
             probe' = [probe EXCEPT !.at = at, !.left = left]
      PROVE  Probed'
    <2>1. /\ HasFields(probe') /\ probe'.at = at /\ probe'.ids = probe.ids
          /\ probe'.homes = probe.homes
        BY <1>3 DEF Probed, HasFields
    <2> QED BY <2>1 DEF Probed
<1>4. CASE \E sel \in Selections : ProbeRelay(sel) \/ ProbeHealth(sel)
    <2>1. /\ HasFields(probe') /\ probe'.at \in {"relay", "health"} /\ probe'.ids = {}
          /\ probe'.homes \in {Homes, Elsewhere}
        BY <1>4 DEF ProbeRelay, ProbeHealth, NoProbe, HasFields
    <2> QED BY <2>1 DEF Probed
<1>5. CASE ReadIdentity
    <2>1. PICK p, left, heard :
              probe' = [probe EXCEPT !.left = left, !.ids = @ \cup BackendIdentity(p),
                                     !.heard = heard]
        BY <1>5 DEF ReadIdentity
    <2>2. identity \in 0..MaxKeys
        BY HomeAssumption DEF HomeInv, HomeTypeOK
    <2>3. BackendIdentity(p) \subseteq (Hosts \ {Own}) \cup 0..MaxKeys
        BY <2>2 DEF BackendIdentity, IdentityOf
    <2>4. /\ HasFields(probe') /\ probe'.at = probe.at
          /\ probe'.ids = probe.ids \cup BackendIdentity(p) /\ probe'.homes = probe.homes
        BY <2>1 DEF Probed, HasFields
    <2> QED BY <2>3, <2>4 DEF Probed
<1>6. CASE RelayHealthy
    <2>1. probe' = [probe EXCEPT !.at = "passed", !.left = probe.left]
        BY <1>6 DEF RelayHealthy, Probed, HasFields
    <2> QED BY <1>3, <2>1
<1>7. CASE ProbeSocket
    <2>1. PICK left : probe' = [probe EXCEPT !.at = "socket", !.left = left]
        BY <1>7 DEF ProbeSocket
    <2> QED BY <1>3, <2>1
<1>8. CASE CheckSocket
    <2>1. probe.at = "socket"
        BY <1>8 DEF CheckSocket
    <2>2. CASE probe' = [probe EXCEPT !.left = <<>>,
                  !.at = IF identity \in probe.ids THEN "passed" ELSE "failed"]
        <3>1. PICK at \in {"passed", "failed"} :
                  probe' = [probe EXCEPT !.left = <<>>, !.at = at]
            BY <2>2
        <3>2. probe' = [probe EXCEPT !.at = at, !.left = <<>>]
            BY <3>1 DEF Probed, HasFields
        <3> QED BY <1>3, <3>2
    <2>3. CASE probe' = [probe EXCEPT !.left = Tail(@)]
        <3>1. probe' = [probe EXCEPT !.at = "socket", !.left = Tail(probe.left)]
            BY <2>1, <2>3 DEF Probed, HasFields
        <3> QED BY <1>3, <3>1
    <2>4. CASE probe' = [probe EXCEPT !.at = "failed", !.left = <<>>]
        BY <1>3, <2>4
    <2> QED BY <1>8, <2>2, <2>3, <2>4 DEF CheckSocket
<1>9. CASE ProbeFails \/ MuxStops \/ MuxDies
    <2>1. probe' = probe \/ probe' = [probe EXCEPT !.at = "failed", !.left = <<>>]
        BY <1>9 DEF ProbeFails, MuxStops, MuxDies
    <2> QED BY <1>2, <1>3, <2>1
<1> QED
    BY <1>2, <1>4, <1>5, <1>6, <1>7, <1>8, <1>9
       DEF Next, vars, hosts, Start, Killed, StartOther, Listen, Dispose, Die, Gone,
           Pair, Revoke, Files, Ask, Try, StrangerAnswers, StrangerComes, StrangerGoes,
           Refuse, Leave, SelectQuick, ProbeEnds, MuxStarts, MuxExits

LEMMA LinedStep == ASSUME Doors, Probed, Lined, [Next]_vars PROVE Lined'
<1>0. ASSUME probe'.left = <<>> \/ UNCHANGED probe.left PROVE Lined'
    <2>1. <<>> \in Seq(Ports \cup Strangers) /\ probe.left \in Seq(Ports \cup Strangers)
        BY DEF Lined
    <2>2. probe'.left \in Seq(Ports \cup Strangers)
        BY <1>0, <2>1
    <2> QED BY <2>2 DEF Lined
<1>1. CASE probe' = probe \/ probe' = NoProbe
    BY <1>0, <1>1, NothingProbed
<1>2. ASSUME NEW homes \in {Homes, Elsewhere}
      PROVE  Backends(homes) \in Seq(Ports \cup Strangers)
    <2>1. homes \in Seq(Hosts)
        BY MuxAssumption
    <2>2. Lists(Backends(homes), homes, Len(homes))
        BY <2>1, BackendsListed DEF Doors
    <2> QED BY <2>2 DEF Lists
<1>3. CASE \E sel \in Selections : ProbeRelay(sel) \/ ProbeHealth(sel)
    <2>1. \/ probe'.left = <<>>
          \/ \E homes \in {Homes, Elsewhere} : probe'.left = Backends(homes)
        BY <1>3, NothingProbed DEF ProbeRelay, ProbeHealth, NoProbe
    <2> QED BY <1>0, <1>2, <2>1 DEF Lined
<1>4. CASE ReadIdentity \/ CheckSocket
    <2>1. probe.left # <<>> /\ (probe'.left = Tail(probe.left) \/ probe'.left = <<>>)
        BY <1>4 DEF ReadIdentity, CheckSocket, Probed, HasFields
    <2>2. CASE probe'.left = Tail(probe.left)
        <3>1. Tail(probe.left) \in Seq(Ports \cup Strangers)
            BY <2>1 DEF Lined
        <3> QED BY <2>2, <3>1 DEF Lined
    <2> QED BY <1>0, <2>1, <2>2
<1>5. CASE ProbeSocket
    <2>1. probe.homes \in {Homes, Elsewhere} /\ probe'.left = Backends(probe.homes)
        BY <1>5 DEF ProbeSocket, Probed, HasFields
    <2> QED BY <1>2, <2>1 DEF Lined
<1>6. CASE RelayHealthy \/ ProbeFails \/ MuxStops \/ MuxDies
    <2>1. probe'.left = probe.left \/ probe'.left = <<>>
        BY <1>6 DEF RelayHealthy, ProbeFails, MuxStops, MuxDies, Probed, HasFields
    <2> QED BY <1>0, <2>1
<1> QED
    BY <1>1, <1>3, <1>4, <1>5, <1>6
       DEF Next, vars, hosts, Start, Killed, StartOther, Listen, Dispose, Die, Gone,
           Pair, Revoke, Files, Ask, Try, StrangerAnswers, StrangerComes, StrangerGoes,
           Refuse, Leave, SelectQuick, ProbeEnds, MuxStarts, MuxExits

\* A step that starts no search and asks no port: the search goes on as it was,
\* or Own has been missing.
LEMMA SearchKept ==
    ASSUME Search, strangers \subseteq strangers',
           \/ UNCHANGED upgrade /\ (Reachable => Reachable' /\ UNCHANGED port[Own])
           \/ upgrade' = NoUpgrade
           \/ upgrade' = Unsteady
    PROVE  Search'
<1>1. CASE upgrade' = NoUpgrade
    BY <1>1 DEF Search, NoUpgrade, RefusedForCause, Answers
<1>2. CASE upgrade' = Unsteady
    <2>1. upgrade' = [at |-> upgrade.at, left |-> upgrade.left, steady |-> FALSE]
        BY <1>2 DEF Search, Unsteady
    <2> QED BY <2>1 DEF Search, RefusedForCause
<1>3. CASE UNCHANGED upgrade /\ (Reachable => Reachable' /\ UNCHANGED port[Own])
    BY <1>3 DEF Search, RefusedForCause, Ahead
<1> QED BY <1>1, <1>2, <1>3

\* The search starts with the port of Own in its list, if Own is there.
LEMMA AskStep == ASSUME Doors, Search, Ask PROVE Search'
<1>1. UNCHANGED <<gateway, admits, published, port>>
    BY DEF Ask, hosts
<1>2. PICK left : left = Backends(Homes)
    OBVIOUS
<1>3. upgrade' = [at |-> "asking", left |-> left, steady |-> Reachable]
    BY <1>2 DEF Ask
<1>4. Homes \in Seq(Hosts)
    BY MuxAssumption
<1>5. Lists(left, Homes, Len(Homes))
    BY <1>2, <1>4, BackendsListed DEF Doors
<1>6. left \in Seq(Ports \cup Strangers)
    BY <1>5 DEF Lists
<1>7. Reachable => Reachable' /\ Ahead(left, port'[Own])
    <2> SUFFICES ASSUME Reachable PROVE Reachable' /\ Ahead(left, port'[Own])
        OBVIOUS
    <2>1. PICK m \in 1..Len(Homes) : Homes[m] = Own
        BY <1>4 DEF Reachable, Range
    <2>2. published[Own] # NoPort /\ published[Own] = port[Own]
        BY MuxAssumption DEF Reachable, Doors
    <2>3. Ahead(left, port[Own])
        BY <1>5, <2>1, <2>2 DEF Lists, Ahead
    <2> QED BY <1>1, <2>3 DEF Reachable, Ahead
<1> QED BY <1>3, <1>6, <1>7 DEF Search, RefusedForCause, Answers

\* A port is passed over.  It is not that of Own, while Own is there.
LEMMA SkipStep ==
    ASSUME Search, upgrade.at \in {"asking", "held"}, upgrade.left # <<>>,
           UNCHANGED <<gateway, admits, published, port>>, upgrade' = Skip,
           ~(At(Head(upgrade.left), Own) /\ admits)
    PROVE  Search'
<1>1. PICK left \in Seq(Ports \cup Strangers) : left = upgrade.left
    BY DEF Search
<1>2. PICK rest : rest = Tail(left)
    OBVIOUS
<1>3. /\ Len(left) \in Nat /\ Len(left) > 0
      /\ rest \in Seq(Ports \cup Strangers) /\ Len(rest) = Len(left) - 1
      /\ \A k \in 1..Len(rest) : rest[k] = left[k + 1]
      /\ Head(left) = left[1]
    BY <1>1, <1>2
<1>4. upgrade' = [at |-> "asking", left |-> rest, steady |-> upgrade.steady]
    BY <1>1, <1>2 DEF Search, Skip
<1>5. upgrade.steady => Reachable' /\ Ahead(rest, port'[Own])
    <2> SUFFICES ASSUME upgrade.steady PROVE Reachable' /\ Ahead(rest, port'[Own])
        OBVIOUS
    <2>1. Reachable /\ Ahead(left, port[Own])
        BY <1>1 DEF Search
    <2>2. PICK k \in 1..Len(left) : left[k] = port[Own]
        BY <2>1 DEF Ahead
    <2>3. k # 1
        BY <1>1, <1>3, <2>1, <2>2 DEF Reachable, At
    <2>4. k - 1 \in 1..Len(rest) /\ (k - 1) + 1 = k
        BY <1>3, <2>3
    <2>5. rest[k - 1] = port[Own]
        BY <1>3, <2>2, <2>4
    <2> QED BY <2>1, <2>4, <2>5 DEF Reachable, Ahead
<1> QED BY <1>3, <1>4, <1>5 DEF Search, RefusedForCause

\* A port is asked.  That of Own, asked while Own is there, ends the search.
LEMMA TryStep == ASSUME Doors, Search, Try \/ StrangerAnswers PROVE Search'
<1>1. /\ UNCHANGED <<gateway, admits, published, port, strangers>>
      /\ upgrade.at \in {"asking", "held"} /\ upgrade.left # <<>>
    BY DEF Try, StrangerAnswers, hosts, Search
<1>2. CASE upgrade' = [upgrade EXCEPT !.at = "taken", !.left = <<>>]
           \/ upgrade' = [upgrade EXCEPT !.at = "busy", !.left = <<>>]
    <2>1. \/ upgrade' = [at |-> "taken", left |-> <<>>, steady |-> upgrade.steady]
          \/ upgrade' = [at |-> "busy", left |-> <<>>, steady |-> upgrade.steady]
        BY <1>2 DEF Search
    <2>2. /\ upgrade'.at \in {"taken", "busy"} /\ upgrade'.left = <<>>
          /\ upgrade' = [at |-> upgrade'.at, left |-> upgrade'.left,
                         steady |-> upgrade'.steady]
        BY <2>1
    <2>3. upgrade'.left \in Seq(Ports \cup Strangers)
        BY <2>2
    <2> QED BY <2>2, <2>3 DEF Search, RefusedForCause, Answers
<1>3. CASE upgrade' = [upgrade EXCEPT !.at = "lured"]
    <2>1. upgrade' = [at |-> "lured", left |-> upgrade.left, steady |-> upgrade.steady]
        BY <1>3 DEF Search
    <2> QED BY <2>1 DEF Search, RefusedForCause, Answers
<1>4. CASE upgrade' = [upgrade EXCEPT !.at = "held"] /\ Head(upgrade.left) \in strangers
    <2>1. upgrade' = [at |-> "held", left |-> upgrade.left, steady |-> upgrade.steady]
        BY <1>4 DEF Search
    <2>2. upgrade.steady => Reachable' /\ Ahead(upgrade.left, port'[Own])
        BY <1>1, <2>1 DEF Search, Reachable, Ahead
    <2>3. upgrade'.at = "held" /\ upgrade'.left = upgrade.left /\ upgrade'.steady = upgrade.steady
        BY <2>1
    <2>4. Ahead(upgrade'.left, port'[Own]) <=> Ahead(upgrade.left, port'[Own])
        BY <2>3 DEF Ahead
    <2>5. upgrade'.left # <<>> /\ Head(upgrade'.left) \in strangers'
        BY <1>1, <1>4, <2>3
    <2>6. upgrade'.left \in Seq(Ports \cup Strangers)
        BY <2>3 DEF Search
    <2> QED BY <2>1, <2>2, <2>3, <2>4, <2>5, <2>6 DEF Search, RefusedForCause
<1>5. CASE upgrade' = Skip /\ ~(At(Head(upgrade.left), Own) /\ admits)
    BY <1>1, <1>5, SkipStep
<1>6. upgrade.at = "held" => ~At(Head(upgrade.left), Own)
    BY MuxAssumption DEF Search, Doors, At
<1> QED BY <1>2, <1>3, <1>4, <1>5, <1>6 DEF Try, StrangerAnswers

\* A stranger comes, or goes and leaves the search to go on.
LEMMA StrangersStep ==
    ASSUME Doors, Search, NEW p \in Strangers, StrangerComes(p) \/ StrangerGoes(p)
    PROVE  Search'
<1>1. UNCHANGED <<gateway, admits, published, port>>
    BY DEF StrangerComes, StrangerGoes
<1>2. CASE StrangerComes(p)
    BY <1>1, <1>2, SearchKept DEF StrangerComes, Reachable
<1>3. CASE StrangerGoes(p)
    <2>1. p \in strangers /\ strangers' = strangers \ {p} /\ ~At(p, Own)
        BY <1>3, MuxAssumption DEF StrangerGoes, Doors, At
    <2>2. CASE upgrade.at = "held" /\ Head(upgrade.left) = p
        <3>1. upgrade' = Skip /\ upgrade.left # <<>>
            BY <1>3, <2>2 DEF StrangerGoes, Search
        <3> QED BY <1>1, <2>1, <2>2, <3>1, SkipStep
    <2>3. CASE upgrade.at = "lured" /\ Head(upgrade.left) = p
        <3>1. upgrade' = NoUpgrade
            BY <1>3, <2>3 DEF StrangerGoes
        <3> QED BY <3>1 DEF Search, NoUpgrade, RefusedForCause, Answers
    <2>4. CASE ~(upgrade.at \in {"held", "lured"} /\ Head(upgrade.left) = p)
        <3>1. UNCHANGED upgrade
            BY <1>3, <2>4 DEF StrangerGoes
        <3> QED BY <1>1, <2>1, <2>4, <3>1 DEF Search, Reachable, Ahead, RefusedForCause
    <2> QED BY <2>2, <2>3, <2>4
<1> QED BY <1>2, <1>3

\* No port is left: then Own has been missing.
LEMMA RefuseStep == ASSUME Search, Refuse PROVE Search'
<1>1. upgrade.at = "asking" /\ upgrade.left = <<>>
    BY DEF Refuse
<1>2. upgrade' = [at |-> "refused", left |-> <<>>, steady |-> upgrade.steady]
    BY <1>1 DEF Search, Refuse
<1>3. ~Ahead(upgrade.left, port[Own])
    BY <1>1 DEF Ahead
<1>4. ~upgrade.steady
    BY <1>1, <1>3 DEF Search
<1> QED BY <1>2, <1>4 DEF Search, RefusedForCause, Answers

\* The Hosts come and go during the search.
LEMMA HostsStep ==
    ASSUME Doors, Search, NEW h \in Hosts,
           StartOther(h) \/ Dispose(h) \/ Die(h) \/ \E p \in Ports : Listen(h, p)
    PROVE  Search'
<1>1. Own \in Hosts
    BY MuxAssumption
<1>2. CASE StartOther(h)
    BY <1>1, <1>2, SearchKept DEF StartOther, Begin, Doors, Reachable
<1>3. CASE \E p \in Ports : Listen(h, p)
    <2>1. PICK p \in Ports : Listen(h, p)
        BY <1>3
    <2>2. /\ gateway' = [gateway EXCEPT ![h] = "up"]
          /\ port' = [port EXCEPT ![h] = p]
          /\ published' = [published EXCEPT ![h] = p]
          /\ gateway[h] = "starting" /\ UNCHANGED <<admits, strangers, upgrade>>
        BY <2>1 DEF Listen, WriteGatewayPort, Doors
    <2>3. Reachable => Reachable' /\ UNCHANGED port[Own]
        BY <1>1, <2>2 DEF Reachable, Doors
    <2> QED BY <2>2, <2>3, SearchKept
<1>4. CASE Dispose(h) \/ Die(h)
    <2>1. CASE h = Own
        BY <1>4, <2>1, SearchKept DEF Dispose, Die, Gone
    <2>2. CASE h # Own
        <3>1. /\ UNCHANGED <<upgrade, admits, strangers>>
              /\ gateway' = [gateway EXCEPT ![h] = "down"]
              /\ port' = [port EXCEPT ![h] = NoPort]
            BY <1>4, <2>2 DEF Dispose, Die, Gone
        <3>2. UNCHANGED published \/ published' = [published EXCEPT ![h] = NoPort]
            BY <1>4 DEF Dispose, Die, ClearGatewayPort
        <3>3. Reachable => Reachable' /\ UNCHANGED port[Own]
            BY <1>1, <2>2, <3>1, <3>2 DEF Reachable, Doors
        <3> QED BY <3>1, <3>3, SearchKept
    <2> QED BY <2>1, <2>2
<1> QED BY <1>2, <1>3, <1>4

\* Every step keeps what the search has found.
LEMMA SearchStep == ASSUME Doors, Search, [Next]_vars PROVE Search'
<1>1. CASE \E config \in Configs, release \in Releases :
              Start(config, release) \/ Killed(config, release)
    <2>1. ~Reachable /\ UNCHANGED <<upgrade, strangers>>
        BY <1>1 DEF Start, Killed, Reachable, hosts
    <2> QED BY <2>1, SearchKept
<1>2. CASE \E h \in Hosts :
              StartOther(h) \/ Dispose(h) \/ Die(h) \/ (\E p \in Ports : Listen(h, p))
    BY <1>2, HostsStep
<1>3. CASE Pair
    BY <1>3, SearchKept DEF Pair, Reachable
<1>4. CASE Revoke \/ Leave \/ MuxDies
    BY <1>4, SearchKept DEF Revoke, Leave, MuxDies, hosts
<1>5. CASE UNCHANGED <<gateway, port, published, admits, strangers, upgrade>>
    BY <1>5, SearchKept DEF Reachable
<1> QED
    BY <1>1, <1>2, <1>3, <1>4, <1>5, AskStep, TryStep, StrangersStep, RefuseStep
       DEF Next, vars, hosts, Files, SelectQuick, ProbeRelay, ProbeHealth,
           ReadIdentity, ProbeSocket, CheckSocket, RelayHealthy, ProbeFails,
           ProbeEnds, MuxStarts, MuxStops, MuxExits

-----------------------------------------------------------------------------
\* The mux that the probe goes through lists the port of Own.
Listed == Here \/ port[Own] \in Range(Static) \/ probe.lent

\* What is known of Own was heard on its port, and what was heard, or is still to
\* be asked, is on a list that has that port for a reason.
Vouched ==
    /\ identity \in probe.ids => probe.heard
    /\ probe.heard => Listed
    /\ probe.at = "health" /\ Ahead(probe.left, port[Own]) => Listed
    /\ ProbeHeardThisHost

\* Without a probe nothing is claimed, and a step that leaves Own and its probe
\* alone changes nothing.
LEMMA VouchedKept ==
    ASSUME Vouched,
           probe' = NoProbe \/ UNCHANGED <<identity, port[Own], probe>>
    PROVE  Vouched'
<1>1. CASE probe' = NoProbe
    <2>1. ~Ahead(NoProbe.left, port'[Own])
        BY NothingProbed DEF Ahead
    <2>2. probe'.at = "idle" /\ probe'.ids = {} /\ ~probe'.heard
        BY <1>1, NothingProbed
    <2> QED BY <2>1, <2>2 DEF Vouched, ProbeHeardThisHost
<1>2. CASE UNCHANGED <<identity, port[Own], probe>>
    BY <1>2 DEF Vouched, Listed, Here, Ahead, ProbeHeardThisHost
<1> QED BY <1>1, <1>2

\* The probe begins with the ports of the moment.
LEMMA HealthVouched ==
    ASSUME Doors, NEW sel \in Selections, ProbeHealth(sel) PROVE Vouched'
<1>1. UNCHANGED <<port, published, identity>>
    BY DEF ProbeHealth, hosts, home
<1>2. PICK homes \in {Homes, Elsewhere} :
          probe' = [NoProbe EXCEPT !.at = "health", !.sel = sel,
                !.homes = homes, !.left = Backends(homes),
                !.lent = \E h \in Range(Elsewhere) : published[h] = port[Own]]
    BY DEF ProbeHealth
<1>3. homes \in Seq(Hosts)
    BY MuxAssumption
<1>4. PICK left : left = Backends(homes) /\ Lists(left, homes, Len(homes))
    BY <1>3, BackendsListed DEF Doors
<1>5. /\ probe'.at = "health" /\ probe'.homes = homes /\ probe'.left = left
      /\ probe'.ids = {} /\ ~probe'.heard
      /\ probe'.lent = \E h \in Range(Elsewhere) : published[h] = port[Own]
    BY <1>2, <1>4 DEF NoProbe
<1>6. ASSUME Ahead(left, port[Own]) PROVE Listed'
    <2>1. PICK k \in 1..Len(left) : left[k] = port[Own]
        BY <1>6 DEF Ahead
    <2>2. \/ left[k] \in Range(Static)
          \/ \E m \in 1..Len(homes) : left[k] = published[homes[m]]
        BY <1>4, <2>1 DEF Lists
    <2>3. ASSUME homes # Homes, NEW m \in 1..Len(homes), left[k] = published[homes[m]]
          PROVE  probe'.lent
        <3>1. homes = Elsewhere /\ homes[m] \in Range(Elsewhere)
            BY <1>3, <2>3 DEF Range
        <3> QED BY <1>5, <2>1, <2>3, <3>1
    <2>4. \/ port[Own] \in Range(Static) \/ homes = Homes \/ probe'.lent
        BY <2>1, <2>2, <2>3
    <2>5. Listed' <=> probe'.homes = Homes \/ port[Own] \in Range(Static) \/ probe'.lent
        BY <1>1 DEF Listed, Here
    <2> QED BY <1>5, <2>4, <2>5
<1>7. Ahead(probe'.left, port'[Own]) => Ahead(left, port[Own])
    BY <1>1, <1>5 DEF Ahead
<1> QED BY <1>5, <1>6, <1>7 DEF Vouched, ProbeHeardThisHost

\* A port is asked: whoever says that it is Own listens where Own does.
LEMMA ReadVouched ==
    ASSUME IInv, Doors, Probed, Lined, Vouched, ReadIdentity
    PROVE  Vouched'
<1>1. /\ UNCHANGED <<port, gateway, identity>>
      /\ probe.at = "health" /\ probe.left # <<>>
    BY DEF ReadIdentity, hosts, home
<1>2. PICK p, left, ids :
          /\ p = Head(probe.left) /\ left = Tail(probe.left) /\ ids = BackendIdentity(p)
          /\ probe' = [probe EXCEPT !.left = left, !.ids = @ \cup ids,
                                    !.heard = @ \/ port[Own] = p]
    BY DEF ReadIdentity
<1>3. /\ probe'.at = "health" /\ probe'.left = left /\ probe'.ids = probe.ids \cup ids
      /\ probe'.heard = (probe.heard \/ port[Own] = p)
      /\ UNCHANGED <<probe.homes, probe.lent>>
    BY <1>1, <1>2 DEF Probed, HasFields
<1>4. ASSUME identity \in ids PROVE port[Own] = p
    <2>1. PICK h \in Hosts : At(p, h) /\ identity = IdentityOf(h)
        BY <1>2, <1>4 DEF BackendIdentity
    <2>2. identity \in 0..MaxKeys
        BY HomeAssumption DEF IInv, HomeInv, HomeTypeOK
    <2>3. h = Own
        BY <2>1, <2>2, MuxAssumption DEF IdentityOf
    <2> QED BY <2>1, <2>3 DEF At
<1>5. port[Own] = p => Ahead(probe.left, port[Own])
    <2>1. 1 \in 1..Len(probe.left) /\ probe.left[1] = p
        BY <1>1, <1>2 DEF Lined
    <2> QED BY <2>1 DEF Ahead
<1>6. Ahead(left, port[Own]) => Ahead(probe.left, port[Own])
    <2> SUFFICES ASSUME NEW k \in 1..Len(left), left[k] = port[Own] PROVE Ahead(probe.left, port[Own])
        BY DEF Ahead
    <2>1. PICK list \in Seq(Ports \cup Strangers) : list = probe.left
        BY DEF Lined
    <2>2. /\ Len(list) \in Nat /\ Len(list) > 0 /\ Len(left) = Len(list) - 1
          /\ \A j \in 1..Len(left) : left[j] = list[j + 1]
        BY <1>1, <1>2, <2>1
    <2>3. k + 1 \in 1..Len(list) /\ list[k + 1] = port[Own]
        BY <2>2
    <2> QED BY <2>1, <2>3 DEF Ahead
<1>7. (Listed' <=> Listed) /\ (Ahead(probe'.left, port'[Own]) <=> Ahead(left, port[Own]))
    BY <1>1, <1>3 DEF Listed, Here, Ahead
<1> QED BY <1>1, <1>3, <1>4, <1>5, <1>6, <1>7 DEF Vouched, ProbeHeardThisHost

\* Any other step of the probe, which collects no more.
LEMMA StageVouched ==
    ASSUME IInv, Probed, Vouched,
           RelayHealthy \/ ProbeSocket \/ CheckSocket \/ ProbeFails \/ MuxStops \/ MuxDies
    PROVE  Vouched'
<1>1. UNCHANGED <<port, identity>>
    BY DEF RelayHealthy, ProbeSocket, CheckSocket, ProbeFails, MuxStops, MuxDies, hosts, home
<1>2. ASSUME NEW at, NEW left, probe' = [probe EXCEPT !.at = at, !.left = left],
             at # "health",
             at = "passed" => identity \in probe.ids \/ probe.sel.mode = "relay"
      PROVE  Vouched'
    <2>1. /\ probe'.at = at /\ UNCHANGED <<probe.sel, probe.homes, probe.ids,
                                           probe.heard, probe.lent>>
        BY <1>2 DEF Probed, HasFields
    <2>2. Listed' <=> Listed
        BY <1>1, <2>1 DEF Listed, Here
    <2>3. ProbeHeardThisHost'
        <3> SUFFICES ASSUME at = "passed", probe.sel.mode = "custom"
                     PROVE  probe.heard /\ Listed
            BY <2>1, <2>2 DEF ProbeHeardThisHost, Listed
        <3> QED BY <1>2 DEF Vouched
    <2> QED BY <1>1, <1>2, <2>1, <2>2, <2>3 DEF Vouched
<1>3. CASE UNCHANGED probe
    BY <1>1, <1>3, VouchedKept
<1>4. CASE RelayHealthy
    <2>1. probe' = [probe EXCEPT !.at = "passed", !.left = probe.left]
        BY <1>4 DEF RelayHealthy, Probed, HasFields
    <2>2. probe.sel.mode = "relay"
        BY <1>4 DEF RelayHealthy, IInv, ProbeInv
    <2> QED BY <1>2, <2>1, <2>2
<1>5. CASE ProbeSocket
    <2>1. PICK left : probe' = [probe EXCEPT !.at = "socket", !.left = left]
        BY <1>5 DEF ProbeSocket
    <2> QED BY <1>2, <2>1
<1>6. CASE CheckSocket
    <2>1. probe.at = "socket"
        BY <1>6 DEF CheckSocket
    <2>2. CASE probe' = [probe EXCEPT !.left = <<>>,
                  !.at = IF identity \in probe.ids THEN "passed" ELSE "failed"]
        <3>1. PICK at \in {"passed", "failed"} :
                  /\ at = "passed" => identity \in probe.ids
                  /\ probe' = [probe EXCEPT !.left = <<>>, !.at = at]
            BY <2>2
        <3>2. probe' = [probe EXCEPT !.at = at, !.left = <<>>]
            BY <3>1 DEF Probed, HasFields
        <3> QED BY <1>2, <3>1, <3>2
    <2>3. CASE probe' = [probe EXCEPT !.left = Tail(@)]
        <3>1. probe' = [probe EXCEPT !.at = "socket", !.left = Tail(probe.left)]
            BY <2>1, <2>3 DEF Probed, HasFields
        <3> QED BY <1>2, <3>1
    <2>4. CASE probe' = [probe EXCEPT !.at = "failed", !.left = <<>>]
        BY <1>2, <2>4
    <2> QED BY <1>6, <2>2, <2>3, <2>4 DEF CheckSocket
<1>7. CASE ProbeFails \/ MuxStops \/ MuxDies
    <2>1. UNCHANGED probe \/ probe' = [probe EXCEPT !.at = "failed", !.left = <<>>]
        BY <1>7 DEF ProbeFails, MuxStops, MuxDies
    <2> QED BY <1>2, <1>3, <2>1
<1> QED BY <1>4, <1>5, <1>6, <1>7

\* A step that touches neither the probe nor the mux: Own stays as it is while it
\* is probing.
LEMMA HostsVouched ==
    ASSUME IInv, Doors, Vouched,
           \/ \E config \in Configs, release \in Releases :
                 Start(config, release) \/ Killed(config, release)
           \/ \E h \in Hosts :
                 StartOther(h) \/ Dispose(h) \/ Die(h) \/ (\E p \in Ports : Listen(h, p))
    PROVE  Vouched'
<1>1. Own \in Hosts /\ (gateway[Own] # "up" => probe = NoProbe)
    BY MuxAssumption DEF IInv, ProbeInv
<1>2. CASE \E config \in Configs, release \in Releases :
              Start(config, release) \/ Killed(config, release)
    <2>1. probe' = NoProbe
        BY <1>1, <1>2 DEF Start, Killed
    <2> QED BY <2>1, VouchedKept
<1>3. CASE \E h \in Hosts : StartOther(h)
    BY <1>3, VouchedKept DEF StartOther, home
<1>4. CASE \E h \in Hosts, p \in Ports : Listen(h, p)
    <2>1. PICK h \in Hosts, p \in Ports : Listen(h, p)
        BY <1>4
    <2>2. /\ UNCHANGED <<probe, identity>> /\ gateway[h] = "starting"
          /\ port' = [port EXCEPT ![h] = p]
        BY <2>1 DEF Listen, home
    <2>3. CASE h = Own
        <3>1. probe' = NoProbe
            BY <1>1, <2>2, <2>3
        <3> QED BY <3>1, VouchedKept
    <2>4. CASE h # Own
        <3>1. UNCHANGED port[Own]
            BY <1>1, <2>2, <2>4 DEF Doors
        <3> QED BY <2>2, <3>1, VouchedKept
    <2> QED BY <2>3, <2>4
<1>5. CASE \E h \in Hosts : Dispose(h) \/ Die(h)
    <2>1. PICK h \in Hosts : Gone(h)
        BY <1>5 DEF Dispose, Die
    <2>2. CASE h = Own
        <3>1. probe' = NoProbe
            BY <2>1, <2>2 DEF Gone
        <3> QED BY <3>1, VouchedKept
    <2>3. CASE h # Own
        <3>1. UNCHANGED <<probe, identity>> /\ port' = [port EXCEPT ![h] = NoPort]
            BY <2>1, <2>3 DEF Gone, home
        <3>2. UNCHANGED port[Own]
            BY <1>1, <2>3, <3>1 DEF Doors
        <3> QED BY <3>1, <3>2, VouchedKept
    <2> QED BY <2>2, <2>3
<1> QED BY <1>2, <1>3, <1>4, <1>5

LEMMA VouchedStep ==
    ASSUME IInv, Doors, Probed, Lined, Vouched, [Next]_vars
    PROVE  Vouched'
<1>1. CASE \E sel \in Selections : ProbeRelay(sel)
    <2>1. PICK sel \in Selections : probe' = [NoProbe EXCEPT !.at = "relay", !.sel = sel]
        BY <1>1 DEF ProbeRelay
    <2>2. probe'.at = "relay" /\ probe'.ids = {} /\ ~probe'.heard
        BY <2>1 DEF NoProbe
    <2> QED BY <2>2 DEF Vouched, ProbeHeardThisHost
<1>2. CASE \E sel \in Selections : SelectQuick(sel)
    BY <1>2, VouchedKept DEF SelectQuick, SaveOverlay, hosts
<1>3. CASE ProbeEnds
    BY <1>3, VouchedKept DEF ProbeEnds
<1>4. CASE Pair \/ Revoke \/ Files
    BY <1>4, VouchedKept
       DEF Pair, Trust, Revoke, Files, Damage, RemoveDamaged, home, hosts
<1>5. CASE UNCHANGED <<home, port, probe>>
    BY <1>5, VouchedKept DEF home
<1> QED
    BY <1>1, <1>2, <1>3, <1>4, <1>5, HealthVouched, ReadVouched, StageVouched, HostsVouched
       DEF Next, vars, hosts, Ask, Try, StrangerAnswers, StrangerComes, StrangerGoes,
           Refuse, Leave, MuxStarts, MuxExits

LEMMA SearchInit == Init => Doors /\ Search /\ Probed /\ Lined /\ Vouched
<1> SUFFICES ASSUME Init PROVE Doors /\ Search /\ Probed /\ Lined /\ Vouched
    OBVIOUS
<1>1. Doors
    BY MuxAssumption DEF Init, Doors
<1>2. Search
    BY DEF Init, Search, NoUpgrade, RefusedForCause, Answers
<1>3. Probed /\ Lined
    BY NothingProbed DEF Init, Probed, Lined, NoProbe
<1>4. Vouched
    BY NothingProbed DEF Init, Vouched, Ahead, ProbeHeardThisHost
<1> QED BY <1>1, <1>2, <1>3, <1>4

\* The variables have their types and no two Gateways listen on one port, for
\* any number of Hosts and ports.  (gateway-port.ts, mux-cli.ts:35-42.)
THEOREM MuxTypeOK == Spec => []TypeOK
<1> DEFINE J == IInv /\ Doors /\ Search /\ Probed
<1>1. Init => J
    BY MuxInit, SearchInit
<1>2. J /\ [Next]_vars => J'
    BY MuxNext, DoorsStep, SearchStep, ProbedStep DEF IInv
<1>3. J => TypeOK
    BY DEF IInv, HomeInv, Doors, Search, Probed, TypeOK
<1> HIDE DEF J
<1> QED BY <1>1, <1>2, <1>3, PTL DEF Spec

\* A phone is told 401 only if its Host was gone, not yet published or did not
\* admit it at some time during the search, for any number of Hosts, port files
\* and static ports.  (endpoint-mux.ts:84-100, mux-cli.ts:35-42.)
THEOREM MuxRefusedForCause == Spec => []RefusedForCause
<1> DEFINE J == Doors /\ Search
<1>1. Init => J
    BY SearchInit
<1>2. J /\ [Next]_vars => J'
    BY DoorsStep, SearchStep
<1>3. J => RefusedForCause
    BY DEF Search
<1> HIDE DEF J
<1> QED BY <1>1, <1>2, <1>3, PTL DEF Spec

\* No address passes a probe unless the port of this Host was asked during it, and
\* that only through a mux that has the Home or the port of this Host, or a stale
\* port file that names it: for any number of Hosts, keys and ports that change
\* hands meanwhile.  (endpoint-settings.ts:51-54, endpoint-mux.ts:26-43, 71-82.)
THEOREM MuxProbeHeardThisHost == Spec => []ProbeHeardThisHost
<1> DEFINE J == IInv /\ Doors /\ Probed /\ Lined /\ Vouched
<1>1. Init => J
    BY MuxInit, SearchInit
<1>2. J /\ [Next]_vars => J'
    BY MuxNext, DoorsStep, ProbedStep, LinedStep, VouchedStep DEF IInv
<1>3. J => ProbeHeardThisHost
    BY DEF Vouched
<1> HIDE DEF J
<1> QED BY <1>1, <1>2, <1>3, PTL DEF Spec
=============================================================================
