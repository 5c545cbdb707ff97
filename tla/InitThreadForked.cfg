\* Parent and child as fork_thread leaves them, nothing else runs; the child
\* may lose the processor at any time.
CONSTANTS
    N = 2
    Idle = {}
    NSEM = 1
    NSEMQUEUE = 2
    Counts = {0}
    MaxDebt = 2
    Pipe = 0
    Parent = 0
    Child = 1
    ForkDisturbed = TRUE
CHECK_DEADLOCK FALSE
SPECIFICATION InitThreadSpec
INVARIANT ToldApart
