CONSTANTS
    Threads = {t1, t2}
    Releases <- MCReleases
    Front <- MCFront
    Models = {m1}
    Copies = {c1}
SYMMETRY MCSymmetry
SPECIFICATION Spec
INVARIANTS
    StartCanFinish
    VersionMeansDone
    SnapshotHasCheckpoints
    RowsHaveFiles
    ListedIsComplete
    VerifiedChain
