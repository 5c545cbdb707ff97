\* The timer between semcount-- and enqueue_sem leaves a thread asleep that no
\* signal will wake.
CONSTANTS
    N = 3
    Idle = {2}
    NSEM = 1
    NSEMQUEUE = 1
    Counts = {0, 1}
    MaxDebt = 2
SPECIFICATION Spec
INVARIANT SleepersAreQueued
