--------------------------- MODULE PairingContract --------------------------
(***************************************************************************)
(* What the pairing credentials promise, without tables, files, expiry or  *)
(* crashes: a growing record of what was acknowledged to whom, and the     *)
(* tokens whose revocation was answered.  A code is acknowledged once, a   *)
(* token belongs to one Client Instance, and a revoked token is never      *)
(* acknowledged anew, to anybody.                                          *)
(***************************************************************************)
EXTENDS Integers

CONSTANTS
    Grants,     \* possible acknowledgements
    Tokens      \* possible tokens

VARIABLES granted, revokedTokens

Init == granted = {} /\ revokedTokens = {}

\* A pairing code, acknowledged for the first time, gives a token that nobody
\* has been told before.
Pair(g) ==
    /\ g.code # 0
    /\ \A h \in granted : h.code # g.code /\ h.token # g.token
    /\ g.token \notin revokedTokens
    /\ granted' = granted \cup {g}
    /\ UNCHANGED revokedTokens

\* A token is acknowledged to its holder, who is the first to present it.
Admit(g) ==
    /\ g.code = 0
    /\ \A h \in granted : h.token = g.token => h.claimant = g.claimant
    /\ g.token \notin revokedTokens
    /\ granted' = granted \cup {g}
    /\ UNCHANGED revokedTokens

Revoke(token) ==
    /\ revokedTokens' = revokedTokens \cup {token}
    /\ UNCHANGED granted

Next ==
    \/ \E g \in Grants : Pair(g) \/ Admit(g)
    \/ \E token \in Tokens : Revoke(token)

Spec == Init /\ [][Next]_<<granted, revokedTokens>>
=============================================================================
