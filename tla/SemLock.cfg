\* Three threads that share one lock, and one that has halted.  Two places in
\* the waiting queue, so that the order of waking matters.
CONSTANTS
    N = 4
    Idle = {3}
    NSEM = 1
    NSEMQUEUE = 2
    Counts = {1}
    MaxDebt = 2
    Creator = 0
SPECIFICATION LockSpec
INVARIANT MutualExclusion
PROPERTIES HandedOnInOrder GrantedReturns
