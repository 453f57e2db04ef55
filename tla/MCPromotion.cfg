CONSTANTS
    Threads = {t1, t2}
    MaxModels = 3
    Overall <- MCOverall
SPECIFICATION Spec
SYMMETRY ThreadSymmetry
INVARIANTS
    OneProduction
    ProductionKept
    ApprovableIsTrained
PROPERTIES
    OwnerDecides
    AdoptKeepsBest
    SwapsAreAtomic
