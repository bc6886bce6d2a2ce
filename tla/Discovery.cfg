SPECIFICATION Spec
CONSTANTS
    Names = {tv}
    v4 = v4
    v6 = v6
    Addresses = {v4, v6}
    IPv4 = {v4}
    Hosts <- MCHosts
    None = None
    MaxNotes = 2
    Tasks = {t1, t2}
    MaxSinks = 2
    MaxRetries = 1
SYMMETRY MCSymmetry
INVARIANTS
    NoGhosts
    Found
PROPERTY
    StreamsKept
CHECK_DEADLOCK FALSE
