SPECIFICATION Spec
CONSTANTS
    BannerMax = 3
    Inputs <- UniqueLocal
INVARIANTS
    DocumentedGuard
