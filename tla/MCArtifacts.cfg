CONSTANTS
    Name = {n1}
    Backup = {b1}
    Image = {g1, g2}
    File = {f1, f2}
    None = None
    Fresh = Fresh
    Part = Part
    NoDisk = NoDisk
    MaxWrite = 1
SPECIFICATION Spec
SYMMETRY Symmetry
CONSTRAINT Scope
INVARIANTS TypeOK AvailableHasFile HalfWrittenIsFenced SnapshotsAreTheRows PurgeLeavesNothing
CHECK_DEADLOCK FALSE
