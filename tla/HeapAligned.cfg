\* Eight units that begin at an aligned one, as in tests/malloc-test.cpp.
CONSTANTS
    HeapSize = 8
    Requests = {2}
    Align = 4
    Offset = 1
SPECIFICATION AlignedSpec
INVARIANT BlocksApart
