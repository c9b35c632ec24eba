SPECIFICATION Spec
CONSTANTS
    AppThreads = {t1, t2}
    CleanerThread = cleaner
    Objs = {o1, o2, o3}
    States = {s1, s2, s3, s4}
    Graphs = {g1}
    Levels = {l1}
    DefaultLevel = l1
    MaxGlobalCache = 2
    Null = Null
    NoGraph = NoGraph
    NoThread = NoThread
SYMMETRY PoolSymmetry
INVARIANTS TypeOK ExclusiveOwnership NoUseAfterRecycle CachedInSync
PROPERTIES LeaksOnlyOnExitOrFailure
