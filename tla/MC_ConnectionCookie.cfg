SPECIFICATION FairSpec
CONSTANTS
    HttpCalls = {h1, h2}
    WsCalls = {w1}
    NoCookie = NoCookie
    MaxConnections = 2
    MaxCookies = 2
INVARIANTS
    TypeOK
    NoForgottenWaiter
    SentCookieIsCurrent
    RejectedNotKept
PROPERTIES
    WaitersSettle
CHECK_DEADLOCK FALSE
