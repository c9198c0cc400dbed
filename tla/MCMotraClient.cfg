\* The client alone, before an arbitrary server, killed at any step.
\* A client that was told there is no test left has stopped for good.
SPECIFICATION ClientSpec
CONSTANTS
    t1 = t1
    t2 = t2
    p1 = p1
    c1 = c1
    Tests = {t1, t2}
    NoTest = NoTest
    Payloads = {p1}
    Unreadable = {}
    Conns = {c1}
    NoConn = NoConn
    RetryLimit = 2
    RetryTime = 1
    NoPayloadList = {t2}
    ClientJobs <- MCClientJobs
    ServerJobs <- MCServerJobs
VIEW ClientView
CONSTRAINT FewArchives
INVARIANTS
    ClientTypeOK
    AcknowledgedIsStored
    RestartFindsCapture
    ArchivesNamedByCapcon
PROPERTIES
    RemovedIsStaged
CHECK_DEADLOCK FALSE
