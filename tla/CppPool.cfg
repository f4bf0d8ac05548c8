SPECIFICATION FairSpec
CONSTANTS
    TaskCount = 3
    Items <- MCItems
    Concurrency = {1, 2, 5}
    ThreadsCanFail = TRUE
    Unset = Unset
INVARIANTS
    TypeOK
    OneWriter
    JoinedBeforeRead
PROPERTIES
    AlwaysStops
    ImplementsContract
