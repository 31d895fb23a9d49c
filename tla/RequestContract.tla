--------------------------- MODULE RequestContract --------------------------
(***************************************************************************)
(* What a carrier promises a phone about its calls, without frames, jobs,  *)
(* cookies or sessions on the Host: a request is answered only if it was   *)
(* asked in the session the phone is in, and once, or twice where its      *)
(* response was reset; a bridge opens once it was asked for, and never     *)
(* again when it is over; and a new hello leaves nothing of the session    *)
(* before.                                                                 *)
(***************************************************************************)
EXTENDS Naturals

CONSTANT Ids

VARIABLES
    hello,      \* number of the session the phone is in
    call,       \* what has come of each id in it
    doubled     \* the requests whose response was reset

Fresh == [id \in Ids |-> "fresh"]

Init == hello \in {0, 1} /\ call = Fresh /\ doubled = {}

Turn(id, from, to) ==
    /\ call[id] \in from
    /\ call' = [call EXCEPT ![id] = to]
    /\ UNCHANGED <<hello, doubled>>

Ask(id) == Turn(id, {"fresh"}, "asked")
Answer(id) == Turn(id, {"asked"}, "answered")

\* A reset is reported twice, and its request may be answered twice.
Reset(id) ==
    /\ call[id] = "asked"
    /\ doubled' = doubled \cup {id}
    /\ UNCHANGED <<hello, call>>

AnswerAgain(id) == id \in doubled /\ Turn(id, {"answered"}, "twice")

Open(id) == Turn(id, {"fresh"}, "opening")
Opened(id) == Turn(id, {"opening"}, "open")
Over(id) == Turn(id, {"opening", "open"}, "over")

Renew == hello' = hello + 1 /\ call' = Fresh /\ doubled' = {}

Next ==
    \/ Renew
    \/ \E id \in Ids :
          \/ Ask(id) \/ Answer(id) \/ Reset(id) \/ AnswerAgain(id)
          \/ Open(id) \/ Opened(id) \/ Over(id)

Spec == Init /\ [][Next]_<<hello, call, doubled>>
=============================================================================
