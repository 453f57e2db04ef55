CONSTANTS
    Threads = {t1, t2}
    d1 = d1
    d2 = d2
    h1 = h1
    h2 = h2
    Hashes = {d1, d2, h1, h2}
    Docs = {d1, d2}
    Pieces <- MCPieces
    Lists <- MCLists
    Notes <- MCNotes
    SHORT_TERM_CAP = 1
    MaxRows = 3
SYMMETRY MCSymmetry
SPECIFICATION Spec
INVARIANTS
    CapHolds
    DeletedIsLogged
    NoDocumentTwice
PROPERTIES
    PinnedSurvive
