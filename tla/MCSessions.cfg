CONSTANTS
    Threads = {t1, t2}
    Devices = {d1}
    NoDevice = none
    MaxPerDevice = 1
    Ttl = 3
    IdleTimeout = 2
    MaxSessions = 3
    MaxTime = 3
SPECIFICATION Spec
SYMMETRY ThreadSymmetry
INVARIANTS
    CapHolds
    NoLateEntry
PROPERTIES
    EndsForAReason
