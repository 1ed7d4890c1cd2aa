SPECIFICATION Spec
CONSTANTS
    Instance = {i1, i2}
    Address = {x1, x2}
    NoAddress = NoAddress
    NoOwner = NoOwner
    Admin = {a1}
    MaxByHand = 1
    ReadFails = FALSE
    PoolCap = 2
    MaxEntry = 2
SYMMETRY Symmetry
INVARIANTS PoolAddressReserved SharedOnlyByHand NoOrphanEntry
PROPERTIES OwnershipKept OutOfServiceStays
CHECK_DEADLOCK FALSE
