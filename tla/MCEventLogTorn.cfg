SPECIFICATION Spec
CONSTANTS
    Events <- MCEvents
    Wirings <- MCWirings
    Base = 2
    MaxEvents = 3
INVARIANT ReplayIsPrefix
CHECK_DEADLOCK FALSE
