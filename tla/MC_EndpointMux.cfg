SPECIFICATION FairSpec
CONSTANTS
    other = other
    Own = own
    Hosts = {own, other}
    Ports = {1, 2}
    NoPort = NoPort
    Strangers = {2}
    Static <- StaticPorts
    Homes <- HomeList
    Elsewhere <- OtherHomes
    Releases = {"old", "new", "broken"}
    Verified = {"old"}
    Blocked = {"broken"}
    Configs <- Configurations
    Selections <- PageChoices
    Missing = Missing
    Corrupt = Corrupt
    MaxKeys = 2
INVARIANTS
    TypeOK
    RefusedForCause
    ProbeHeardThisHost
    StartsAsItWas
PROPERTIES
    PhoneGetsThrough
