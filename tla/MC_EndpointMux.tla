---------------------------- MODULE MC_EndpointMux --------------------------
(* Port 1 is a static backend, and a stranger may take port 2; the other    *)
(* Host comes before the phone's in the list of Homes, and is alone in that *)
(* of the other mux.                                                       *)
EXTENDS EndpointMux

CONSTANT other

StaticPorts == <<1>>
HomeList == <<other, Own>>
OtherHomes == <<other>>

Configurations ==
    {[mode |-> m, custom |-> c, relay |-> "wss", rest |-> TRUE] :
        m \in {"quick", "custom"}, c \in {"", "query"}}

PageChoices ==
    {[mode |-> "quick", url |-> ""], [mode |-> "custom", url |-> "https"],
     [mode |-> "custom", url |-> "query"], [mode |-> "relay", url |-> "wss"]}
=============================================================================
