SPECIFICATION CardFairSpec
CONSTANTS
    Relays = {r1, r2}
    Tunnels = {t1}
    NoUrl = none
    Nothing = nothing
    Lost = lost
    MaxPolls = 1
    MaxSaves = 2
INVARIANTS
    QrOfSelection
PROPERTIES
    QrCatchesUp
