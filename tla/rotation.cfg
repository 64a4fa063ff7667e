\* Three processes, up to two rotations, overlapping and crashing.
SPECIFICATION RotationSpec
CONSTANTS
    p1 = p1
    p2 = p2
    p3 = p3
    Procs = {p1, p2, p3}
    MaxKeys = 3
    MaxSigned = 3
SYMMETRY SymProcs
INVARIANTS KeyAnnounced
CHECK_DEADLOCK FALSE
