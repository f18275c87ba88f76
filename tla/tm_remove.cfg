\* RemoveTorrent against the documentation of save_resume_data.
SPECIFICATION Spec
CONSTANTS
    Torrents = {t1}
    Magnets = {}
    Paths = {noPath}
    NoPath = noPath
    Groups = {noGroup}
    NoGroup = noGroup
    None = None
    WebThreads = {}
    MaxQueue = 2
PROPERTIES NoRemoveBeforeSaved
