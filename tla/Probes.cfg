SPECIFICATION FairSpec
CONSTANTS
    TimeoutTicks = 3
    BannerTicks = 2
    MaxInterrupts = 2
INVARIANTS
    TypeOK
    DescriptorIsOwned
    OnlyOpenPortsAreRead
    TimeIsBounded
PROPERTIES
    ImplementsContract
    AlwaysReturns
