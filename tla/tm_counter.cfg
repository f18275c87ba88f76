\* onClose with two torrents.
SPECIFICATION Spec
CONSTANTS
    Torrents = {t1, t2}
    Magnets = {}
    Paths = {noPath}
    NoPath = noPath
    Groups = {noGroup}
    NoGroup = noGroup
    None = None
    WebThreads = {}
    MaxQueue = 2
INVARIANTS CloseReceivesEverySave
