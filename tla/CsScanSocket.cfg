SPECIFICATION FairSpec
CONSTANTS
    TaskCount = 4
    Items <- MCItems
    Concurrency = {3}
    DescriptorLimit = 2
    Unset = Unset
INVARIANTS
    EndsWithReport
