SPECIFICATION Spec
SYMMETRY Addresses
CONSTANTS
    Urls = {url1, url2}
    NoUrl = NoUrl
    ConfigMode = "quick"
    Ports = {1, 2}
    MaxControllers = 2
INVARIANTS
    DisposedTakesNoSeat
