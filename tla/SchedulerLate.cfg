\* Three threads, one of them halted.  Two ticks to a period and one tick in
\* a trace window: a tick can fall into a window, a period cannot expire there.
CONSTANTS
    N = 3
    TimerPeriod = 2
    BootTicks = 1
    TraceTicks = 1
    Depths = {0, 1}
    HaltedSets = {{2}}
    LateYield = TRUE
SPECIFICATION Spec
INVARIANT SavedContext
