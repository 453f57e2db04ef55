CONSTANTS
    Threads = {t1, t2}
    f1 = f1
    f2 = f2
    Files = {f1, f2}
    Good <- MCGood
    MaxApprovals = 2
SYMMETRY MCSymmetry
SPECIFICATION Spec
INVARIANTS
    ProductionPasses
    BranchHoldsChange
PROPERTIES
    OwnerApproved
