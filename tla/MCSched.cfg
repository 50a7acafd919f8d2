SPECIFICATION Spec
CONSTANTS
    p1 = p1
    p2 = p2
    p3 = p3
    Procs <- MCProcs
    Prio <- MCPrio
    Cpus = {c1, c2}
    NULL = NULL
    MAX_PRIO = 3
    MAX_QUEUE_SIZE = 3
INVARIANTS
    TypeOK
    SlotsInRange
    ScanProgress
PROPERTIES
    WorkConserving
    ImplementsMlqSystem
