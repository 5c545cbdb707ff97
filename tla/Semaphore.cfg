\* Three threads that call anything on one semaphore, and one that has halted: two
\* can be creating it while the third uses it and dequeues a -1.  Two places in the
\* waiting queue: the loop of create_sem can stand half-way, and a third waiter
\* finds the queue full.
CONSTANTS
    N = 4
    Idle = {3}
    NSEM = 1
    NSEMQUEUE = 2
    Counts = {0, 1}
    MaxDebt = 3
SPECIFICATION Spec
CHECK_DEADLOCK FALSE
INVARIANTS TypeOK QueuedThreadsSleep WokenOnce
