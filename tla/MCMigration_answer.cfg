SPECIFICATION Spec
CONSTANTS
    Agent = {a1, a2, a3}
    Token = {t1}
    NoToken = NoToken
    Faults = {"read"}
    MaxCrashes = 0
SYMMETRY Symmetry
INVARIANTS GuestSurvives
CHECK_DEADLOCK FALSE
