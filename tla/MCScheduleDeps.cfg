CONSTANTS
    a = a
    b = b
    e = e
    N = 4
    Allocs <- MCAllocs
    InputAllocs <- MCInputAllocs
    EmptyAllocs <- MCEmptyAllocs
SPECIFICATION DepsSpec
INVARIANTS ConflictsOrdered OnlyConflicts Reduced PerformIdentically
CHECK_DEADLOCK FALSE
