\* Two threads, two hashes and one that to_hex cuts short, two peers.
SPECIFICATION Spec
SYMMETRY Symmetry
CONSTANTS
    Threads = {t1, t2}
    Hashes = {x1, x2, nul}
    NulHashes = {nul}
    Addrs = {1, 2}
    NumWants = {0, 1}
    DefaultWant = 2
    NoRequest = NoRequest
INVARIANTS TypeOK SwarmUnlessOverlap OnlyAnnounced
PROPERTIES LeavesByStopping RepliesFit
