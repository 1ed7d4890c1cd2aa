SPECIFICATION Spec
CONSTANTS
    Instance = {i1}
    Group = {g1}
    Request = {q1, q2, q3}
    NoOne = NoOne
    Kept = Kept
    MaxEdit = 2
SYMMETRY Symmetry
INVARIANTS NoDanglingBinding GroupRulesApplied LocalEditApplied
CHECK_DEADLOCK FALSE
