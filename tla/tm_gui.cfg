\* The GUI thread and libtorrent, without the web server and magnet links.
SPECIFICATION Spec
CONSTANTS
    Torrents = {t1}
    Magnets = {}
    Paths = {noPath, p1, p2}
    NoPath = noPath
    Groups = {noGroup, g1}
    NoGroup = noGroup
    None = None
    WebThreads = {}
    MaxQueue = 2
SYMMETRY Symmetry
INVARIANTS TypeOK CleanMeansSaved SessionStorageDiskAgree GroupSaved
PROPERTIES RestartRestoresGroups
