SPECIFICATION Spec
CONSTANTS
    Capacity = 4
    Values = {v1, v2}
    Torn = Torn
    Nothing = Nothing
INVARIANTS TypeOK NoRace ViewsAreSafe
PROPERTIES ImplementsFifo FrontIsPopped
