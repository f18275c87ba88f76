\* Two of three handlers, one kept when idle; three connections, one peer of
\* which does not read.
SPECIFICATION FairSpec
CONSTANTS
    Handlers = {h1, h2, h3}
    Conns = {c1, c2, c3}
    Stalled = {c3}
    MaxThreads = 2
    MinThreads = 1
    MaxHalves = 2
    NoConn = NoConn
    Off = Off
    Free = Free
INVARIANTS TypeOK OneConnection RequestsUnmixed OpenIsTimed NothingLeftUnread
PROPERTIES RejectsOnlyWhenFull ConnectionsEnd GuiReturns
