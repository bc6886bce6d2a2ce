SPECIFICATION Spec
CONSTANTS
    Peers = {p1, p2}
    None = None
    MaxRequests = 2
INVARIANTS
    OneStream
    PageFollows
    SearchFollows
    PeersListed
    SessionThere
SYMMETRY MCSymmetry
CHECK_DEADLOCK FALSE
