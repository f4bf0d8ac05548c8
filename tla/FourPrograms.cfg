SPECIFICATION Spec
CONSTANTS
    BannerMax = 3
    Inputs <- EveryInput
INVARIANTS
    Interchangeable
    NoScanWithoutPermission
    ScanPreconditions
    OutcomeAsDocumented
    ExitCodesAreHonest
    TableReadsBack
    JsonReadsBack
