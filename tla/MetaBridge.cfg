SPECIFICATION Spec
CONSTANTS
    ccA = ccA
    ccB = ccB
    mice = mice
    p2p = p2p
    castProv = castProv
    miceProv = miceProv
    p2pProv = p2pProv
    ip = ip
    mac = mac
    mac2 = mac2
    NoSink = NoSink
    Providers = {castProv, miceProv, p2pProv}
    Addresses = {ip, mac, mac2}
    Sinks <- BridgeSinks
    Owner <- BridgeOwner
    Priority <- BridgePriority
    Matches <- BridgeMatches
    Window = FALSE
    MaxMetas = 5
INVARIANTS
    DeDuplicated
    Usable
    NoStrangers
CHECK_DEADLOCK FALSE
