SPECIFICATION Spec
CONSTANTS
    Claimants = {phone1, phone2}
    NoClaimant = NoClaimant
    TtlMs = 0
    MaxLiveDevices = 2
    MaxClock = 1
    MaxCodes = 2
    MaxTokens = 2
    MaxLegacy = 2
    MaxHeld = 1
SYMMETRY Phones
INVARIANTS
    TypeOK
    CodeSingleUse
    TokenHasOneHolder
    RevokedForGood
    AckedTokenDurable
    RowsLimited
PROPERTIES
    RetiredForSuccessor
    ImplementsContract
