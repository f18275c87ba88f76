\* The GUI thread with one web thread and no magnet links.
SPECIFICATION Spec
CONSTANTS
    Torrents = {t1}
    Magnets = {}
    Paths = {noPath, p1}
    NoPath = noPath
    Groups = {noGroup}
    NoGroup = noGroup
    None = None
    WebThreads = {w1}
    MaxQueue = 2
SYMMETRY Symmetry
INVARIANTS FreshEntriesAreLive StoredOnDisk CleanMeansSaved
PROPERTIES RestartRestores
