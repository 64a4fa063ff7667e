\* Three overlapping callers with one batch size, three batches.
SPECIFICATION AnchorSpec
CONSTANTS
    c1 = c1
    c2 = c2
    c3 = c3
    Anchorers = {c1, c2, c3}
    SizeOf <- OneSize
    MaxEntries = 6
    MaxLog = 4
SYMMETRY SymCallers
INVARIANTS Consecutive RekorAgrees
