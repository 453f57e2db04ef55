CONSTANTS
    Threads = {t1, t2}
    MaxCalls = 4
SPECIFICATION Spec
INVARIANTS
    NoFalseAlarm
CHECK_DEADLOCK FALSE
