SPECIFICATION Spec
SYMMETRY Phones
CONSTANTS
    Claimants = {phone1, phone2}
    NoClaimant = NoClaimant
    TtlMs = 0
    MaxLiveDevices = 3
    RelayUrls = {relay1}
    FirstRelay = relay1
    SeatKinds = {"tunnel"}
    MaxClock = 1
    MaxCodes = 2
    MaxTokens = 2
    MaxSaves = 1
INVARIANTS
    RevokeClosesGatewaySession
