\* The server alone, two connections used by arbitrary peers.
SPECIFICATION ServerSpec
CONSTANTS
    t1 = t1
    t2 = t2
    p1 = p1
    c1 = c1
    c2 = c2
    Tests = {t1, t2}
    NoTest = NoTest
    Payloads = {p1}
    Unreadable = {}
    Conns = {c1, c2}
    ClientJobs <- MCClientJobs
    ServerJobs <- MCServerJobs
    PeerUploads <- MCPeerUploads
VIEW ServerView
CONSTRAINT FewServerZips
SYMMETRY Symmetry
INVARIANTS
    ServerTypeOK
    LiveOfOneCapcon
    JobsBacked
PROPERTIES
    NothingDropped
    UploadsKept
    StartsOnlyPrepared
