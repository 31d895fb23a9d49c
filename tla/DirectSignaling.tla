--------------------------- MODULE DirectSignaling --------------------------
(***************************************************************************)
(* One signaling socket of a room: attachDirectSignaling of                *)
(* src/direct-signaling.ts, the WebRTC peers of src/webrtc-host.ts it      *)
(* makes, and the tunnel that onSignal of src/index.ts keeps on the        *)
(* channel handed to it.                                                   *)
(*                                                                         *)
(* Every message starts a negotiation, which awaits the answer, the end of *)
(* the peer before, and the channel; negotiations interleave at these      *)
(* three points.  A negotiation is named by its generation.  How a peer    *)
(* connects is external (werift, the phone): an answered peer opens its    *)
(* channel or fails, whenever it likes.                                    *)
(***************************************************************************)
EXTENDS Integers, Sequences

CONSTANTS
    MaxMessages      \* bound on the messages

ASSUME SignalingAssumption == MaxMessages \in Nat

VARIABLES
    closed,          \* closed: the room gate was closed
    generation,      \* generation
    at,              \* where each negotiation is: generation -> place
    peer,            \* peer: the negotiation it is of, 0 for null
    alive,           \* peers that have not been closed
    answers,         \* the answers sent, in order
    tunnel,          \* tunnelGate: the negotiation it is of, 0 for null
    open             \* tunnels that have been attached and not closed

signalingVars == <<closed, generation, at, peer, alive, answers, tunnel, open>>
tunnels == <<tunnel, open>>

Places == {"accepting", "replacing", "answered", "channel", "failed", "stray"}

SignalingInit ==
    /\ closed = FALSE /\ generation = 0 /\ at = <<>>
    /\ peer = 0 /\ alive = {} /\ answers = <<>>
    /\ tunnel = 0 /\ open = {}

Go(g, place) == at' = [at EXCEPT ![g] = place]

\* An offer: acceptDirectOffer makes a peer and prepares its answer.
Offer ==
    /\ ~closed /\ generation < MaxMessages
    /\ generation' = generation + 1
    /\ at' = Append(at, "accepting")
    /\ alive' = alive \cup {generation'}
    /\ UNCHANGED <<closed, peer, answers, tunnels>>

\* Any other message: decodeOffer throws, after the generation has changed.
Stray ==
    /\ ~closed /\ generation < MaxMessages
    /\ generation' = generation + 1
    /\ at' = Append(at, "stray")
    /\ UNCHANGED <<closed, peer, alive, answers, tunnels>>

Answer(g) == answers' = Append(answers, g)

\* Closing a peer ends its tunnel.
ClosePeers(ps) == alive' = alive \ ps /\ open' = open \ ps

\* Mutant: an offer that is no longer the last one is gone on with.
AcceptedAnyway(g) ==
    /\ at[g] = "accepting"
    /\ peer' = g
    /\ IF peer = 0 THEN Go(g, "answered") /\ Answer(g) /\ UNCHANGED <<alive, open>>
       ELSE ClosePeers({peer}) /\ Go(g, "replacing") /\ UNCHANGED answers
    /\ UNCHANGED <<closed, generation, tunnel>>

\* The answer is ready.  A peer that is out of date is closed; else it takes
\* the place of the one before, which is closed first.
Accepted(g) ==
    /\ at[g] = "accepting"
    /\ IF closed \/ g # generation
       THEN Go(g, "failed") /\ ClosePeers({g}) /\ UNCHANGED <<peer, answers>>
       ELSE /\ peer' = g
            /\ IF peer = 0
               THEN Go(g, "answered") /\ Answer(g) /\ UNCHANGED <<alive, open>>
               ELSE /\ ClosePeers({peer}) /\ Go(g, "replacing")
                    /\ UNCHANGED answers
    /\ UNCHANGED <<closed, generation, tunnel>>

\* It could not be made: the peer is closed.
AcceptFails(g) ==
    /\ at[g] = "accepting"
    /\ Go(g, "failed") /\ ClosePeers({g})
    /\ UNCHANGED <<closed, generation, peer, answers, tunnel>>

\* The peer before has closed: the answer is sent.
Replaced(g) ==
    /\ at[g] = "replacing"
    /\ Go(g, "answered") /\ Answer(g)
    /\ UNCHANGED <<closed, generation, peer, alive, tunnels>>

\* onChannel: the tunnel before is closed, a new one attached.
OnChannel(g) ==
    /\ tunnel' = g
    /\ open' = (open \ {tunnel}) \cup {g}

\* The channel of a peer opens: it is handed on if the offer is the last.
Channel(g) ==
    /\ at[g] = "answered" /\ g \in alive
    /\ Go(g, "channel")
    /\ IF ~closed /\ g = generation THEN OnChannel(g) ELSE UNCHANGED tunnels
    /\ UNCHANGED <<closed, generation, peer, alive, answers>>

\* The connection fails, or was closed, before there was a channel.
NoChannel(g) ==
    /\ at[g] = "answered"
    /\ Go(g, "failed")
    /\ UNCHANGED <<closed, generation, peer, alive, answers, tunnels>>

\* The gate of the room is closed, by the Host or with the socket: the tunnel,
\* then the signaling and its peer.
Close ==
    /\ ~closed
    /\ closed' = TRUE /\ generation' = generation + 1
    /\ alive' = alive \ {peer} /\ peer' = 0
    /\ tunnel' = 0 /\ open' = open \ {tunnel, peer}
    /\ UNCHANGED <<at, answers>>

SignalingNext ==
    \/ Offer \/ Stray \/ Close
    \/ \E g \in DOMAIN at : \/ Accepted(g) \/ AcceptFails(g) \/ Replaced(g)
                            \/ Channel(g) \/ NoChannel(g)

SignalingSpec == SignalingInit /\ [][SignalingNext]_signalingVars

-----------------------------------------------------------------------------
Last == Len(at)

\* The variables have their types.
SignalingTypeOK ==
    /\ closed \in BOOLEAN /\ generation \in 0..(MaxMessages + 1)
    /\ at \in Seq(Places) /\ generation = Last + (IF closed THEN 1 ELSE 0)
    /\ {peer, tunnel} \subseteq DOMAIN at \cup {0}
    /\ alive \cup open \subseteq DOMAIN at
    /\ answers \in Seq(DOMAIN at)

\* No peer and no tunnel is left behind, however the negotiations overlap: a
\* peer that is alive is the one the gate will close, or one whose turn is
\* yet to come; a tunnel that is open is the one the room gate will close.
\* And an answer that has been overtaken is harmless: while the peer before
\* closes the next offer may be answered first, so answers do not leave in the
\* order of the offers, but one that goes out after that of a later offer is of
\* a peer that has been closed.  (attachDirectSignaling: every offer replaces
\* the prior peer.)
NothingLeftBehind ==
    /\ SignalingTypeOK
    /\ \A g \in alive : g = peer \/ at[g] = "accepting"
    /\ open \subseteq {tunnel} \ {0}
    /\ closed => peer = 0 /\ tunnel = 0
    /\ \A i, k \in DOMAIN answers :
          i < k /\ answers[i] > answers[k] => answers[k] \notin alive \cup {tunnel}
=============================================================================
