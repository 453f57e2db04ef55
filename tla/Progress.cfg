CONSTANTS
    Threads = {t1, t2}
    MaxModels = 2
    Overall <- MCOverallTwo
    Calls = {t1, t2}
SPECIFICATION ProgressSpec
INVARIANTS
    ReturnMeansOver
PROPERTIES
    ProductionReturns
    KillEndsChildren
    OverdueRunsReturn
