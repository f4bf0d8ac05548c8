SPECIFICATION FairSpec
CONSTANTS
    TaskCount = 4
    Items <- MCItems
    Concurrency = {1, 2, 3}
    DescriptorLimit = 2
    Unset = Unset
INVARIANTS
    TypeOK
    PermitsAreConserved
    NoTaskOutlivesScan
    EnoughDescriptors
PROPERTIES
    AlwaysStops
    ImplementsContract
