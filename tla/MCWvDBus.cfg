CONSTANTS
    a = a
    b = b
    n = n
    Clients = {a, b}
    Names = {n}
    Bus = bus
    None = none
    Started = {a}
    Roles <- AllRoles
    Budget = 3
SPECIFICATION Spec
INVARIANTS
    ConnsConsistent
    SendsInOrder
    OneAnswerEach
    SignalsInOrder
PROPERTIES
    Answered
    NamesAreReleased
CHECK_DEADLOCK FALSE
