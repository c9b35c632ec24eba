SPECIFICATION Spec
CONSTANTS
    AppThreads = {t1, t2}
    CleanerThread = cleaner
    Objs = {o1, o2}
    States = {s1, s2}
    Graphs = {g1}
    Levels = {l1, l2}
    DefaultLevel = l1
    MaxGlobalCache = 1
    Null = Null
    NoGraph = NoGraph
    NoThread = NoThread
INVARIANTS StartsAtDefaultLevel
