SPECIFICATION Spec
CONSTANTS
    Request = {r1, r2}
    Token = {t1, t2}
    Ref = {f1}
    NoRef = NoRef
    Free = Free
    CallerAction = {"power:reinstall"}
    Retaining = {"power:reinstall"}
    Faults = FALSE
PROPERTIES SuccessIsFinal
CHECK_DEADLOCK FALSE
