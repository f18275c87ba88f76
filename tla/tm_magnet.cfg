\* A torrent that is opened as a magnet link or as a file.
SPECIFICATION Spec
CONSTANTS
    Torrents = {m1}
    Magnets = {m1}
    Paths = {noPath,p1}
    NoPath = noPath
    Groups = {noGroup}
    NoGroup = noGroup
    None = None
    WebThreads = {}
    MaxQueue = 2
SYMMETRY Symmetry
INVARIANTS FreshEntriesAreLive StoredOnDisk CleanMeansSaved
PROPERTIES RestartRestores
