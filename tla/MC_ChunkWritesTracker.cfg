CONSTANTS
    t1 = t1  t2 = t2  t3 = t3
    Threads <- MCThreads
    Writes = {1, 2}
    MaxChunkSize = 10
    SplitTestFactor = 5
    MaxBytes = 8
SYMMETRY MCSymmetry
SPECIFICATION Spec
INVARIANT SplitLockExclusive
\* A tracker whose chunk receives no more writes rests; nothing is owed.
CHECK_DEADLOCK FALSE
