----------------------------- MODULE QuickTunnel ----------------------------
(***************************************************************************)
(* QuickTunnelController of src/quick-tunnel.ts: the owner of one tunnel   *)
(* process.  A controller is a record; the operators below are the methods *)
(* and the process events, as functions on records.  What the controller   *)
(* tells its listener is left to the module that owns the listener.        *)
(***************************************************************************)
EXTENDS Integers

CONSTANTS
    Urls,           \* HTTPS addresses a tunnel process may print
    NoUrl           \* currentEndpoint = null

ASSUME NoUrlAssumption == NoUrl \notin Urls

\* child = TRUE when a process is owned; local is the port of the Gateway the
\* process serves (0 for none).  said is no field of the source: the last
\* address the present process has printed.
Controller == [child: BOOLEAN, stopping: BOOLEAN, local: Nat,
               endpoint: Urls \cup {NoUrl}, said: Urls \cup {NoUrl}]

Idle == [child |-> FALSE, stopping |-> FALSE, local |-> 0,
         endpoint |-> NoUrl, said |-> NoUrl]

Alive(c) == c.child /\ ~c.stopping

\* start(): a process for a loopback Gateway.
Started(c, local) ==
    [c EXCEPT !.child = TRUE, !.stopping = FALSE, !.local = local,
              !.said = NoUrl]

\* stop(): the process is killed and everything about it forgotten.
Stopped(c) == [Idle EXCEPT !.stopping = TRUE]

\* consume(): an address is news unless it is the current one.  Output of a
\* process that is no longer owned, or is being stopped, is ignored.
IsNews(c, url) == url # c.endpoint

Heard(c, url) == [c EXCEPT !.endpoint = url, !.said = url]

\* 'exit' with a code other than 0: another process for the same Gateway.
\* The current address is kept for the 'rotated' report.
Restarts(c) == c.local # 0

Respawned(c) == [c EXCEPT !.child = TRUE, !.said = NoUrl]

\* 'exit' with code 0, or 'error': the process is gone.
Ended(c) == [c EXCEPT !.child = FALSE, !.endpoint = NoUrl, !.said = NoUrl]
=============================================================================
