SPECIFICATION FairSpec
INVARIANTS
    FailuresNoticed
    SourcesHaveSession
    AudioCleanedUp
PROPERTIES
    StopsWhenTold
\* A process that crashed or hangs is never started again.
CHECK_DEADLOCK FALSE
