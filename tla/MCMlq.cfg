SPECIFICATION BypassSpec
CONSTANTS
    p1 = p1
    p2 = p2
    p3 = p3
    p4 = p4
    Procs <- MCProcs
    Prio <- MCPrio
    Cpus = {c1, c2}
    NULL = NULL
    MAX_PRIO = 3
    MAX_QUEUE_SIZE = 2
INVARIANTS
    OnePlace
    RunningListExact
    BoundedBypass
PROPERTIES
    NoStarvation
