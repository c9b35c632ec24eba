SPECIFICATION Spec
CONSTANTS
    t1 = t1
    t2 = t2
    Threads = {t1, t2}
    Files <- MCFiles
    Types <- MCTypes
    NoThread = NoThread
    NoFile = NoFile
INVARIANT RegistersAllReachable
