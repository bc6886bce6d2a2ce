\* The process may end: g_error, or a null pointer.
CHECK_DEADLOCK FALSE
SPECIFICATION Spec
CONSTANTS
    None = None
    MaxCodecs = 2
    MaxAnswers = 2
    Descriptors <- MCDescriptors
    Ports <- MCPorts
    Followed <- MCFollowed
INVARIANTS
    Repairable
    Selected
    EncodedAsTold
