CONSTANTS
    Threads = {t1, t2}
    Bodies <- MCBodies
    MaxLoops = 1
SPECIFICATION Spec
PROPERTIES
    KillBlocksWork
