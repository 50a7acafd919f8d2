SPECIFICATION FairSpec
CONSTANTS
    p1 = p1
    p2 = p2
    p3 = p3
    c1 = c1
    c2 = c2
    NULL = NULL
    LOADER = LOADER
    Procs <- MCProcs
    Prio <- MCPrio
    Size <- MCSize
    Start <- MCStart
    Load <- MCLoad
    Cpus <- MCCpus
    Devs <- MCDevs
    MAX_PRIO = 2
    MAX_QUEUE_SIZE = 2
    Horizon = 3
    time_slot = 2
PROPERTIES
    CpusStop
