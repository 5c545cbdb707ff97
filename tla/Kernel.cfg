\* Parent and child as fork_thread leaves them, nothing else runs; the child
\* keeps the processor until it knows what it is.  The memory is that of the
\* kernel as clang -O0 builds it; the loader's map grows twice.
CONSTANTS
    N = 2
    Idle = {}
    NSEM = 1
    NSEMQUEUE = 2
    Counts = {0}
    MaxDebt = 2
    Pipe = 0
    Parent = 0
    Child = 1
    ForkDisturbed = FALSE
    Spare = 1
    MaxMap = 3
    BssStart = 1100192
    BssEnd = 1114268
    FrameBuffer = 1073741824
    FbSize = 3768320
    Firmware <- FirmwareBelow1GB
    Ports = {0, 1}
    ClbUnit = 1024
    TICKS = 1
    Word = 1048576
    Modes <- TwoModes
    Bytes = {"printable", "newline", "DEL"}
    MaxKeys = 2
    Stacks = {0, 1}
    Faulting = {2, 13}
SPECIFICATION KernelSpec
INVARIANTS MapFitsPool Deliverable DotsInFrame ReceiveOK
PROPERTIES TablesKept ComesUp InLineIsServed
