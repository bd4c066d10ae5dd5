SPECIFICATION Spec
CONSTANTS
    Events <- MCEvents
    Wirings <- MCWirings
    Base = 2
    MaxEvents = 3
INVARIANTS TypeOK ReplayFaithful CleanExitReplaysAll LogKeepsUp
PROPERTY ReplayEnds
CHECK_DEADLOCK FALSE
