SPECIFICATION Spec
CONSTANTS
    BannerMax = 3
    Inputs <- IPv6First
INVARIANTS
    Interchangeable
