CONSTANTS
    Threads = {t1, t2}
    Bodies <- MCBodies
    MaxLoops = 2
SPECIFICATION FairSpec
INVARIANTS
    OneLoop
PROPERTIES
    OnlySeedsAfterStop
    WorkDrains
    LoopsEnd
