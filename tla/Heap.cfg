\* Seven units: three blocks of two leave room, so that a block can be freed
\* between two others, next to a free one, or both.
CONSTANTS
    HeapSize = 7
    Requests = {2, 3}
SPECIFICATION Spec
INVARIANTS EveryUnitInOneBlock OrderedAndMerged
PROPERTY ImplementsAllocator
