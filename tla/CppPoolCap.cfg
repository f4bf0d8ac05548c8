SPECIFICATION FairSpec
CONSTANTS
    TaskCount = 3
    Items <- MCItems
    Concurrency = {1, 2, 5}
    ThreadsCanFail = FALSE
    Unset = Unset
INVARIANTS
    DocumentedCap
