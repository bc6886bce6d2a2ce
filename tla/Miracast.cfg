SPECIFICATION FairSpec
CONSTANTS
    MaxLive = 2
INVARIANTS
    NoLeftovers
    PendingExpected
    Served
PROPERTIES
    ImplementsSink
    Settles
\* The process may have aborted.
CHECK_DEADLOCK FALSE
