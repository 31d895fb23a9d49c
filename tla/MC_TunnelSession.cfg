SPECIFICATION FairSpec
CONSTANTS
    Ids = {a, b}
    NoId = NoId
    MaxBody = 1
    MaxUpload = 2
    Eager = FALSE
    Refused = {"http-req", "ws-open"}
    MaxSessions = 2
    MaxFlight = 2
INVARIANTS
    SessionsApart
    KeepsCarrier
    AnsweredOnce
PROPERTIES
    RequestSettles
    ImplementsRequestContract
CHECK_DEADLOCK FALSE
