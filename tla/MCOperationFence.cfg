SPECIFICATION Spec
CONSTANTS
    Request = {r1, r2, r3}
    Token = {t1, t2, t3}
    Ref = {f1}
    NoRef = NoRef
    Free = Free
    CallerAction = {"power:reinstall"}
    Retaining = {"power:reinstall"}
    Faults = TRUE
SYMMETRY Symmetry
INVARIANTS FenceExclusive DestructiveWorkFenced MemoryFlagOwned FenceAccounted
PROPERTIES FenceNeverStolen NoRerunAfterSuccess ImplementsExclusiveFence
CHECK_DEADLOCK FALSE
