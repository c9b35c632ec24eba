SPECIFICATION FairSpec
CONSTANTS
    AppThreads = {t1}
    CleanerThread = cleaner
    Objs = {o1, o2}
    States = {s1, s2}
    Graphs = {g1, g2}
    Levels = {l1}
    DefaultLevel = l1
    MaxGlobalCache = 1
    Null = Null
    NoGraph = NoGraph
    NoThread = NoThread
INVARIANT RequestedGraph
PROPERTIES ImplementsExclusiveEngine DroppedIsReclaimed ClosersReturn
