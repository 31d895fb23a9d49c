SPECIFICATION Spec
CONSTANTS
    Urls = {url1, url2}
    NoUrl = NoUrl
    ConfigMode = "quick"
    Ports = {1, 2}
    MaxControllers = 2
SYMMETRY Addresses
INVARIANTS
    TypeOK
    ModeDecides
    AdvertisedTunnelRuns
