\* No filter but NONE, one group, no web server.
SPECIFICATION SettledSpec
CONSTANTS
    Torrents = {t1, t2, t3}
    NoTorrent = NULL
    Statuses = {"downloading"}
    Filters = {"NONE"}
    Groups = {noGroup}
    NoGroup = noGroup
    WebServer = FALSE
    Links = {t1, t2}
PROPERTIES ImplementsLibrary
