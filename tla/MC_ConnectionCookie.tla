------------------------ MODULE MC_ConnectionCookie -------------------------
(* Interchangeable requests, and interchangeable WebSockets.                *)
EXTENDS ConnectionCookie, TLC

Interchangeable == Permutations(HttpCalls) \cup Permutations(WsCalls)
=============================================================================
