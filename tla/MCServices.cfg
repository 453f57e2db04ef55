CONSTANTS
    Threads = {t1, t2, t3}
    MaxCalls = 6
    Callers = {t1, t2}
    Limit = 2
    Window = 2
    MaxTime = 3
    MaxAttempts = 4
    Payers = {t1, t2}
    Amounts = {1, 2}
    CreditLimits = {1, 3}
    MaxCosts = 4
    Runners = {t1, t2}
    clean = clean
    spare = spare
    twin = twin
    faint = faint
    dirty = dirty
    Samples = {clean, spare, twin, faint, dirty}
    Text <- MCText
    Refused = {dirty}
    Poor = {faint}
    SeedData = {clean}
    Extras <- MCExtras
    MaxCycles = 3
    Clients = {t1, t2}
    HubRefs = {hub1, hub2}
    GgufRefs = {gguf1}
    Nothing = nothing
    Trainers = {t1, t2}
    math = math
    safety = safety
    Suites = {math, safety}
    Safety = safety
    Cases <- MCCases
    LastModel = 2
    Taps = {t1, t2}
SYMMETRY MCSymmetry
SPECIFICATION ServicesSpec
INVARIANTS
    BreakNamesRace
    AttemptsBounded
    BooksBalance
    VersionNamesData
    NeverForgets
    LoadedIsWhole
    
    ApprovedIsApplied
PROPERTIES
    AppendOnly
    
CHECK_DEADLOCK FALSE
