SPECIFICATION FairSpec
CONSTANTS
    TaskCount = 3
    Items <- MCItems
    Concurrency = {1, 2, 5}
    DescriptorLimit = 2
    Found = {"open", "closed"}
    Unset = Unset
\* Without a blocking thread the scan really stops: see ScanEnds.
CHECK_DEADLOCK FALSE
INVARIANTS
    TypeOK
    PermitsAreConserved
    PermitMeansThread
    AwaitedInOrder
    EnoughDescriptors
PROPERTIES
    ScanEnds
    ImplementsContract
