\* Three threads, one of them halted or none: then all can go to sleep, and a thread
\* can be alone.  Two ticks to a period and one tick in a trace window: a tick can
\* fall into a window, a period cannot expire there.  It stops when all sleep.
CONSTANTS
    N = 3
    TimerPeriod = 2
    BootTicks = 1
    TraceTicks = 1
    Depths = {0, 1}
    HaltedSets = {{}, {2}}
    LateYield = FALSE
SPECIFICATION Spec
CHECK_DEADLOCK FALSE
INVARIANTS TypeOK OwnContext SearchEnds
PROPERTIES ResumesWhereItStopped TurnComesNearer RunnableRuns
