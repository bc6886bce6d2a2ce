SPECIFICATION Spec
CONSTANTS
    MaxStack = 16
    MaxInbox = 1
    MaxChanges = 1
INVARIANTS
    CtrlDisconnected
CHECK_DEADLOCK FALSE
