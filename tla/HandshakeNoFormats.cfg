SPECIFICATION Spec
CONSTANTS
    Formats = {"usable", "none"}
    MaxOptions = 1
INVARIANT FallsBack
CHECK_DEADLOCK FALSE
