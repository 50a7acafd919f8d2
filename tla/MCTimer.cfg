SPECIFICATION FairSpec
CONSTANTS
    N = 3
    MaxSlots = 3
INVARIANTS
    TypeOK
    WorkInLockStep
    NoLostWakeup
    NoWriteRace
    ExitedAlone
PROPERTIES
    ClockStableInSlot
    NextSlotReturns
    TimerTerminates
    ImplementsLockStep
