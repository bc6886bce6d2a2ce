SPECIFICATION Spec
CONSTANTS
    ccA = ccA
    ccB = ccB
    mice = mice
    p2p = p2p
    castProv = castProv
    miceProv = miceProv
    p2pProv = p2pProv
    ip = ip
    mac = mac
    mac2 = mac2
    NoSink = NoSink
    Providers = {castProv, miceProv, p2pProv}
    Addresses = {ip, mac, mac2}
    Sinks <- MCSinks
    Owner <- MCOwner
    Priority <- MCPriority
    Matches <- DistinctMatches
    Window = TRUE
    MaxMetas = 4
INVARIANTS
    Complete
    ListenersFollow
PROPERTIES
    IdentityStable
    ImplementsDirectory
