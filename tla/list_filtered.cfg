\* Filters that append and filterData treat differently, groups, the web
\* server.  The program stops where it follows a wild pointer.
SPECIFICATION Spec
CONSTANTS
    Torrents = {t1, t2}
    NoTorrent = NULL
    Statuses = {"queued", "stalled", "uploading"}
    Filters = {"NONE", "ACTIVE", "NOT_ACTIVE"}
    Groups = {noGroup, g1}
    NoGroup = noGroup
    WebServer = TRUE
    Links = {t1, t2}
CHECK_DEADLOCK FALSE
SYMMETRY Symmetry
INVARIANTS TypeOK ViewOfList
PROPERTIES CurrentFollowsRemoval
