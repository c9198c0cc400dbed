\* The client is killed, the connection breaks, the server restarts: up to two of them.
SPECIFICATION SystemSpec
CONSTANTS
    t1 = t1
    t2 = t2
    t3 = t3
    p1 = p1
    p2 = p2
    p3 = p3
    p4 = p4
    p5 = p5
    c1 = c1
    c2 = c2
    Tests = {t1, t2}
    NoTest = NoTest
    Payloads = {p1, p2}
    Unreadable = {}
    Conns = {c1, c2}
    NoConn = NoConn
    RetryLimit = 1
    RetryTime = 1
    NoPayloadList = {}
    ClientJobs <- MCFewClientJobs
    ServerJobs <- MCFewServerJobs
    PeerUploads <- MCPeerUploads
    Faults = {"client_killed", "capcon_torn", "link_broken", "server_restart"}
    MaxFaults = 2
    Overruns = {}
    MayExceed = {t1}
    MayNotParse = {}
INVARIANTS
    SystemTypeOK
    ExecutedOncePerServer
    NothingLeftBehind
    RepliesFit
    NoOrphanJobs
PROPERTIES
    StagedIsKeptUnlessKilled
    CapturesApart
VIEW FaultView
SYMMETRY Symmetry
