\* Nothing fails; the payload p3 may run on into later captures, on both machines.
SPECIFICATION SystemSpec
CONSTANTS
    t1 = t1
    t2 = t2
    t3 = t3
    p1 = p1
    p2 = p2
    p3 = p3
    p4 = p4
    p5 = p5
    c1 = c1
    c2 = c2
    Tests = {t1, t2, t3}
    NoTest = NoTest
    Payloads = {p1, p2, p3, p4, p5}
    Unreadable = {p5}
    Conns = {c1, c2}
    NoConn = NoConn
    RetryLimit = 2
    RetryTime = 1
    NoPayloadList = {}
    ClientJobs <- MCClientJobs
    ServerJobs <- MCServerJobs
    PeerUploads <- MCPeerUploads
    Faults = {}
    MaxFaults = 0
    Overruns = {p3}
    MayExceed = {}
    MayNotParse = {}
INVARIANTS
    RecordsExact
    AcknowledgedIsSaved
PROPERTIES
    TriggersTogether
    CampaignKept
