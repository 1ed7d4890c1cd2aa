SPECIFICATION Spec
CONSTANTS
    Row = {r1, r2, r3}
    NoRow = NoRow
    Unknown = Unknown
    Instance = {i1, i2}
    Admin = {a1, a2}
SYMMETRY Symmetry
INVARIANTS ReferencedIsAvailable GuestKeepsNetwork AvailableIsOnNode
CHECK_DEADLOCK FALSE
