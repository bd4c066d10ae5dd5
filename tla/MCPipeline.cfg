SPECIFICATION Spec
CONSTANTS
    Updates = 12
    NumSymbols = 2
    TicksPerOrder = 2
    MdCapacity = 4
    OrderCapacity = 3
INVARIANTS TypeOK EndToEnd
PROPERTIES UpdatesHandedOver OrdersHandedOver Terminates
