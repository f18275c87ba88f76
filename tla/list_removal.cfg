\* Filters, without the web server, after the first refresh.
SPECIFICATION SettledSpec
CONSTANTS
    Torrents = {t1, t2, t3}
    NoTorrent = NULL
    Statuses = {"stalled", "uploading"}
    Filters = {"NONE", "ACTIVE"}
    Groups = {noGroup}
    NoGroup = noGroup
    WebServer = FALSE
    Links = {}
CHECK_DEADLOCK FALSE
PROPERTIES RemovesOnlyWhatWasAsked
