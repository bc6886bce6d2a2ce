SPECIFICATION FairSpec
CONSTANTS
    Formats = {"usable", "silent", "none"}
    MaxOptions = 2
INVARIANTS
    InStep
    ParamsKnown
PROPERTIES
    SessionsLast
    Completes
\* The process may have crashed.
CHECK_DEADLOCK FALSE
