SPECIFICATION Spec
CHECK_DEADLOCK FALSE
CONSTANTS
    c1 = c1
    c2 = c2
    c3 = c3
    c4 = c4
    p1 = p1
    p2 = p2
    p3 = p3
    p4 = p4
    NULL = NULL
    Cpus <- MCCpus
    Procs <- MCProcs
    MAX_QUEUE_SIZE = 3
INVARIANTS
    TypeOK
    ArrayIsSequence
    NeverAbsent
    FreedOnlyInFlight
CONSTRAINTS
    OneTraversal
SYMMETRY Symmetry
