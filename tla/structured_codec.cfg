SPECIFICATION Spec
CONSTANTS
    Schema <- MCSchema
    Root = "root"
    Messages <- MCMessages
    Orders <- MCOrders
    Batch = 2
INVARIANTS
    TypeOK
    Faithful
    StreamsNotSwapped
    StreamsHaveClusters
    LastSampleIntact
PROPERTY EveryCallEnds
