\* The server fails to write an upload.
SPECIFICATION SystemSpec
CONSTANTS
    t1 = t1
    t2 = t2
    t3 = t3
    p1 = p1
    p2 = p2
    p3 = p3
    p4 = p4
    p5 = p5
    c1 = c1
    c2 = c2
    Tests = {t1, t2}
    NoTest = NoTest
    Payloads = {p1, p2, p3}
    Unreadable = {}
    Conns = {c1, c2}
    NoConn = NoConn
    RetryLimit = 2
    RetryTime = 1
    NoPayloadList = {}
    ClientJobs <- MCClientJobs
    ServerJobs <- MCServerJobs
    PeerUploads <- MCPeerUploads
    Faults = {"upload_not_saved"}
    MaxFaults = 1
    Overruns = {}
    MayExceed = {}
    MayNotParse = {}
INVARIANTS
    AcknowledgedIsSaved
