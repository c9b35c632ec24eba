SPECIFICATION Spec
CONSTANTS
    Threads = {t1, t2}
    Buffers = {b1, b2, b3}
    MaxInt = 7
    Minimums = {0, 2, 5, 7}
    Alignments = {0, 2, 3}
    Requests <- MCRequests
    BucketLimit = 3
SYMMETRY BufferSymmetry
INVARIANT ForeignIgnored
