SPECIFICATION Spec
CONSTANTS
    Agent = {a1, a2, a3}
    Token = {t1, t2}
    NoToken = NoToken
    Faults = {"call", "write", "crash"}
    MaxCrashes = 2
SYMMETRY Symmetry
INVARIANTS GuestSurvives OneGuestWhenFree NetworksReserved NothingLeaks
PROPERTIES KeepsTheFence
CHECK_DEADLOCK FALSE
