SPECIFICATION Spec
CONSTANTS
    BannerMax = 3
    Inputs <- PlusSign
INVARIANTS
    Interchangeable
