SPECIFICATION Spec
CONSTANT MaxInt = 3
INVARIANTS
    TypeOK
    NothingLeftBehind
    OutputOnlyOnSuccess
    QuietInCritical
    NoCallWhilePending
    AccessInside
    EscapesOnlyWhere
CHECK_DEADLOCK FALSE
