\* One fault of any kind, an archive that may be too large, a test that may not parse:
\* does the campaign end unless that is in its way, and is a restart harmless?
SPECIFICATION SystemSpec
CONSTANTS
    t1 = t1
    t2 = t2
    t3 = t3
    p1 = p1
    p2 = p2
    p3 = p3
    p4 = p4
    p5 = p5
    c1 = c1
    c2 = c2
    Tests = {t1, t2}
    NoTest = NoTest
    Payloads = {p1, p2}
    Unreadable = {}
    Conns = {c1, c2}
    NoConn = NoConn
    RetryLimit = 2
    RetryTime = 1
    NoPayloadList = {}
    ClientJobs <- MCFewClientJobs
    ServerJobs <- MCSplitServerJobs
    PeerUploads <- MCPeerUploads
    Faults = {"client_killed", "capcon_torn", "link_broken", "server_restart", "upload_not_saved"}
    MaxFaults = 1
    Overruns = {p2}
    MayExceed = {t2}
    MayNotParse = {t2}
PROPERTIES
    CampaignEnds
    OutputsSurviveRestart
