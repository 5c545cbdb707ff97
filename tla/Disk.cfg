\* Entries of two sectors: requests of one sector, of one entry, and of more; two
\* ports.  The driver has no limit to its polling: it can stop for good.
CONSTANTS
    SLOTS = 2
    SECTORS = 2
    BUSES = 1
    DEVICES = 2
    FUNCS = 2
    Machines <- TwoMachines
    PORTS = 2
    PortSets <- ThreeSets
    SectorInodes = 1
    Filesystems <- ThreeFilesystems
    Others <- FourRequests
SPECIFICATION DiskSpec
CHECK_DEADLOCK FALSE
INVARIANTS TypeOK IssuedIsBuilt WholeTransfer FoundIsController StartsClean TableIsDisk
PROPERTIES CallReturns InitEnds
