SPECIFICATION FairSpec
CONSTANTS
    TaskCount = 4
    Items <- MCItems
    ThreadLimit = 3
    Concurrency = {1, 2, 5}
    Unset = Unset
INVARIANTS
    OneOwner
    NoIndexLost
    NoThreadOutlivesPool
    ReportIsComplete
    ConcurrencyBound
    CounterBound
    Inv
PROPERTIES
    WrittenOnce
    ImplementsContract
