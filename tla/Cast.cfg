SPECIFICATION FairSpec
CONSTANTS
    MaxStack = 16
    MaxInbox = 2
    MaxChanges = 1
INVARIANTS
    Restartable
    SourcesConnected
    SendersConnected
    RecursionNeedsDeadLink
    LoadedServed
    NothingLeftPlaying
PROPERTIES
    ImplementsSink
    Settles
CHECK_DEADLOCK FALSE
