CONSTANTS
    Threads = {t1}
    Models = {m1}
    Copies = {c1}
    Releases <- MCReleases
    Front <- MCFront
SPECIFICATION Spec
INVARIANT RestoreGivesBack
