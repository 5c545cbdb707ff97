\* Three cells: the smallest ring in which head, tail and a gap can be apart
\* and the head wraps while entries are inside; room for one string and a part
\* of another.
CONSTANTS
    Size = 3
    Values = {a, b, nul}
    Empty = none
    Nul = nul
    a = a
    b = b
    Strings <- StringsOfTwo
SPECIFICATION StringSpec
INVARIANT RingInv
PROPERTIES ImplementsFifo TakesNextString ReadReturns
