SPECIFICATION Spec
CONSTANTS
    Logs <- MCLogs
    Mid <- MCMid
    None = None
    Mid0 = 100
    MaxInputs = 4
INVARIANTS TypeOK NeverTwice PanelsMatchBook ChecksumOfScreen
PROPERTIES EndRestoresReplay PlaybackEnds
CHECK_DEADLOCK FALSE
