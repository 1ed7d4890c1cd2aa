SPECIFICATION Spec
CONSTANTS
    Replica = {m1, m2}
    Request = {r1, r2}
    Token = {t1, old}
    Legacy = {old}
    NoToken = NoToken
    NoReplica = NoReplica
    Resolution = 2
    TTL = 2
    MaxTime = 4
    MaxChange = 2
SYMMETRY Symmetry
PROPERTIES RevokedStaysOut OldPasswordStaysOut FreshTokenWorks
CHECK_DEADLOCK FALSE
