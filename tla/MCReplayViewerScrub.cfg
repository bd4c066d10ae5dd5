SPECIFICATION Spec
CONSTANTS
    Logs <- MCLogs
    Mid <- MCMid
    None = None
    Mid0 = 100
    MaxInputs = 1
INVARIANT ShownIsPrefix
CHECK_DEADLOCK FALSE
