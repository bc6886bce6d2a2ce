SPECIFICATION Spec
INVARIANT SignalExits
CHECK_DEADLOCK FALSE
