---------------------------- MODULE MotraClient ----------------------------
(***************************************************************************)
(* The measurement client: the state machine MeasurementClient, its        *)
(* connection, its three workspaces, and the systemd timers that run the   *)
(* payloads and bring the client back after a capture.                     *)
(*                                                                         *)
(* client_state is the state of the machine, "off" when no client process  *)
(* exists and "finished" once it has exited because no test is left.  A    *)
(* process lives from one start to one exit, its memory (retries, the      *)
(* connection, pending_files, the current CapCon) with it; the workspaces  *)
(* and the timers survive.                                                 *)
(***************************************************************************)
EXTENDS MotraWire

CONSTANTS
    NoConn,        \* self.websocket is None
    RetryLimit,    \* retry_limit of the client's configuration
    RetryTime,     \* retry_time, the first waiting time
    NoPayloadList  \* CapCons without a "payload" list
ASSUME ClientAssumption ==
    /\ NoConn \notin Conns
    /\ RetryLimit \in Nat /\ RetryTime \in Nat
    /\ NoPayloadList \subseteq Tests
    /\ \A t \in NoPayloadList : Jobs(t) = {}

VARIABLES
    client_state, conn, retries, retry_time,              \* the process
    pending_files, current,
    client_live, staging, archive,                        \* workspaces
    restart_timer, client_unit                            \* systemd on the client

backoff    == <<retries, retry_time>>
process    == <<client_state, conn, backoff, pending_files, current>>
clientDisk == <<client_live, staging, archive>>
timers     == <<restart_timer, client_unit>>
clientVars == <<process, clientDisk, timers>>

ClientState ==
    {"off", "finished", "disconnected", "connecting", "connected",
     "upload_data_available", "preparing_ready_for_test", "offline_testing"}

ClientTypeOK ==
    /\ client_state \in ClientState
    /\ conn \in Conns \cup {NoConn}
    /\ retries \in 0..RetryLimit
    /\ retry_time = RetryTime + 2 * retries
    /\ pending_files \subseteq Tests
    /\ current \in TestId
    /\ client_live \subseteq File
    /\ staging \in [Tests -> Archive]
    /\ archive \in [Tests -> Archive]
    /\ restart_timer \in BOOLEAN
    /\ client_unit \in [Payloads -> UnitState]

ClientInit ==
    /\ client_state = "off" /\ conn = NoConn
    /\ retries = 0 /\ retry_time = RetryTime
    /\ pending_files = {} /\ current = NoTest
    /\ client_live = {}
    /\ staging = [t \in Tests |-> NoZip]
    /\ archive = [t \in Tests |-> NoZip]
    /\ restart_timer = FALSE
    /\ client_unit = [p \in Payloads |-> "none"]

-----------------------------------------------------------------------------
(* The life of the process *)

Running == client_state \notin {"off", "finished"}

(* The process is gone, whether by exit(), an exception or a kill: its     *)
(* memory is lost and its socket closed.                                   *)
Gone(s) ==
    /\ client_state' = s
    /\ retries' = 0 /\ retry_time' = RetryTime
    /\ conn' = NoConn /\ pending_files' = {} /\ current' = NoTest
    /\ link' = IF conn = NoConn THEN link ELSE Close(link, conn)

Dies == Gone("off") /\ UNCHANGED <<to_server, to_client, clientDisk, timers>>

(* Entering "disconnected": backoff() counts a retry and lengthens the     *)
(* next wait, or gives up.  The very first entry counts too.               *)
BadMayRetry(n) == n <= RetryLimit
MayRetry(n) == n < RetryLimit

Disconnected(n) ==
    /\ MayRetry(n)
    /\ client_state' = "disconnected"
    /\ retries' = n + 1 /\ retry_time' = retry_time + 2
    /\ UNCHANGED <<conn, pending_files, current, link>>

GivesUp(n) == ~MayRetry(n) /\ Gone("off")

ClientStarts ==
    /\ client_state = "off"
    /\ Disconnected(0) \/ GivesUp(0)
    /\ UNCHANGED <<to_server, to_client, clientDisk>>

(* motra-client@{CapConID}.service fires when the capture is over *)
BadTimerFires == restart_timer /\ UNCHANGED restart_timer   \* periodic
TimerFires == restart_timer /\ restart_timer' = FALSE

StartsByTimer ==
    /\ TimerFires
    /\ ClientStarts
    /\ UNCHANGED client_unit

(* The operator starts the first client, and one that died.  That nobody   *)
(* does so while a capture runs is an assumption on the operator: motra    *)
(* client does not look for the timer.                                     *)
StartsByOperator ==
    /\ ~restart_timer
    /\ ClientStarts
    /\ UNCHANGED timers

(* A reply is there to be read, of the type the state waits for *)
Expected ==
    CASE client_state = "connecting"               -> "SERVER_HELLO"
      [] client_state = "upload_data_available"    -> "UPLOAD_COMPLETE"
      [] client_state = "preparing_ready_for_test" -> "CAPCON"
      [] client_state = "offline_testing"          -> "EXECUTE_CAPCON"

Waits == client_state \in {"connecting", "upload_data_available",
                           "preparing_ready_for_test", "offline_testing"}

Received == Head(to_client[conn])

Reads ==
    /\ Waits
    /\ to_client[conn] # <<>>
    /\ to_client' = Drop(to_client, conn)

Handles(s) == client_state = s /\ Reads /\ Received.type = Expected

(* parse_raw_data: another type of message makes the handler raise *)
BadReply ==
    /\ Reads /\ Received.type # Expected
    /\ Gone("off")
    /\ UNCHANGED <<to_server, clientDisk, timers>>

(* parse_raw_data: the connection is closed, exit(1) *)
ConnectionLost ==
    /\ Waits /\ to_client[conn] = <<>> /\ link[conn] = "closed"
    /\ Dies

-----------------------------------------------------------------------------
(* disconnected -> connecting: open the socket and send CLIENT_HELLO *)

Connects(c) ==
    /\ client_state = "disconnected"
    /\ link[c] = "closed"
    /\ link' = [link EXCEPT ![c] = "open"]
    /\ to_server' = Post(Empty(to_server, c), c, Msg("CLIENT_HELLO", NoTest))
    /\ to_client' = Empty(to_client, c)
    /\ conn' = c
    /\ client_state' = "connecting"
    /\ UNCHANGED <<backoff, pending_files, current, clientDisk, timers>>

(* No server there: connection_failed, back to "disconnected" *)
ConnectFails ==
    /\ client_state = "disconnected"
    /\ Disconnected(retries) \/ GivesUp(retries)
    /\ UNCHANGED <<to_server, to_client, clientDisk, timers>>

HandleServerHello ==
    /\ Handles("connecting")
    /\ client_state' = "connected"
    /\ UNCHANGED <<link, to_server, conn, backoff, pending_files, current, clientDisk, timers>>

-----------------------------------------------------------------------------
(* Uploads *)

Sends(m) == to_server' = SendTo(to_server, conn, m)

(* start_upload while a file is pending, upload_complete when none is left *)
UploadNext(pending, staged) ==
    \/ \E t \in pending :
        /\ staged[t].there
        /\ Sends(Upload(t, staged[t].files))
        /\ pending_files' = pending \ {t}
        /\ client_state' = "upload_data_available"
        /\ UNCHANGED <<link, conn, backoff, current>>
    \/ /\ pending = {}
       /\ Sends(Msg("REQUEST_CAPCON", NoTest))
       /\ pending_files' = {}
       /\ client_state' = "preparing_ready_for_test"
       /\ UNCHANGED <<link, conn, backoff, current>>
    \/ /\ \E t \in pending : ~staged[t].there    \* FileNotFoundError
       /\ Gone("off")
       /\ UNCHANGED to_server

Staged(staged) == {t \in Tests : staged[t].there}

(* The last capture: the journals of its payloads, then everything in the  *)
(* live workspace that can be read, zipped under its CapConID.             *)
BadLastFiles == CollectLogs(client_live \ OutFiles(Payloads),
                            ClientJobs[StoredCapcon(client_live)])
LastFiles == CollectLogs(client_live, ClientJobs[StoredCapcon(client_live)])
StageLast == [staging EXCEPT ![StoredCapcon(client_live)] = Zipped(LastFiles)]

(* A capcon.json that is cut short does not validate, and iterating over   *)
(* the "payload" of a CapCon without one raises a TypeError.               *)
Loadable ==
    /\ ~Torn(client_live)
    /\ HasCapcon(client_live) => StoredCapcon(client_live) \notin NoPayloadList

(* connected.enter: archive and clean if a CapCon is stored, then upload   *)
CheckFilesForUpload ==
    /\ client_state = "connected"
    /\ Loadable
    /\ IF HasCapcon(client_live)
       THEN staging' = StageLast /\ client_live' = {}
       ELSE UNCHANGED <<staging, client_live>>
    /\ UploadNext(Staged(staging'), staging')
    /\ UNCHANGED <<to_client, archive, timers>>

CheckFilesRaises ==
    /\ client_state = "connected"
    /\ ~Loadable
    /\ Dies

(* move_file: a rename over whatever is there; a missing source is logged  *)
BadMoveOut(name) == staging   \* copies
BadMoveIn(name) == archive    \* deletes
MoveOut(name)  == [staging EXCEPT ![name] = NoZip]
MoveIn(name)   == [archive EXCEPT ![name] = staging[name]]
Movable(name)  == name # NoTest /\ staging[name].there

HandleUploadComplete ==
    /\ Handles("upload_data_available")
    /\ IF Movable(Received.id)
       THEN staging' = MoveOut(Received.id) /\ archive' = MoveIn(Received.id)
       ELSE UNCHANGED <<staging, archive>>
    /\ UploadNext(pending_files, staging')
    /\ UNCHANGED <<client_live, timers>>

-----------------------------------------------------------------------------
(* CAPCON: store it for the next process, prepare the units, acknowledge   *)

OwnJobsConflict(t) == JobFiles(ClientJobs[t]) \cap client_live # {}

HandleCapcon ==
    /\ Handles("preparing_ready_for_test")
    /\ Received.id # NoTest
    /\ MayStore(client_live) /\ ~OwnJobsConflict(Received.id)
    /\ client_live' = StoreCapcon(client_live, Received.id, ClientJobs[Received.id])
    /\ current' = Received.id
    /\ Sends(Msg("ACK_CAPCON", Received.id))
    /\ client_state' = "offline_testing"
    /\ UNCHANGED <<link, conn, backoff, pending_files, staging, archive, timers>>

(* The empty CapCon: every test is done, disconnect and exit(0) *)
HandleLastCapcon ==
    /\ Handles("preparing_ready_for_test") /\ Received.id = NoTest
    /\ Gone("finished")
    /\ UNCHANGED <<to_server, clientDisk, timers>>

(* "Found existing configuration, not overriding.": for capcon.json, or    *)
(* for one of the payloads, after capcon.json and some of them are written *)
HandleCapconRaises ==
    /\ Handles("preparing_ready_for_test")
    /\ Received.id # NoTest
    /\ \/ ~MayStore(client_live) /\ UNCHANGED client_live
       \/ /\ MayStore(client_live) /\ OwnJobsConflict(Received.id)
          /\ \E jobs \in SUBSET ClientJobs[Received.id] :
                /\ JobFiles(jobs) \cap client_live = {}
                /\ client_live' = StoreCapcon(client_live, Received.id, jobs)
    /\ Gone("off")
    /\ UNCHANGED <<to_server, staging, archive, timers>>

-----------------------------------------------------------------------------
(* EXECUTE_CAPCON: start the timers and leave *)

Execute(t) ==
    /\ restart_timer' = TRUE
    /\ client_unit' = Arm(client_unit, ClientJobs[t])

HandleExecute ==
    /\ Handles("offline_testing") /\ Received.id = current
    /\ Execute(current)
    /\ Gone("off")
    /\ UNCHANGED <<to_server, clientDisk>>

HandleExecuteMismatch ==
    /\ Handles("offline_testing") /\ Received.id # current
    /\ Gone("off")
    /\ UNCHANGED <<to_server, clientDisk, timers>>

-----------------------------------------------------------------------------
(* Payloads started by systemd on the client machine *)

ClientMexec(p) ==
    /\ client_unit[p] = "armed"
    /\ client_unit' = Fire(client_unit, p, client_live)
    /\ UNCHANGED <<wire, process, clientDisk, restart_timer>>

ClientPayloadEnds(p) ==
    /\ client_unit[p] = "running"
    /\ client_unit' = Finish(client_unit, p)
    /\ client_live' = client_live \cup {OutFile(p)}
    /\ UNCHANGED <<wire, process, staging, archive, restart_timer>>

-----------------------------------------------------------------------------
(* The client is killed: between two steps, or with only a part of a       *)
(* handler's effects on disk.                                              *)

ClientKilled == Running /\ Dies

CanArchive == client_state = "connected" /\ HasCapcon(client_live) /\ Loadable

(* While the journals are collected, or with a part of them in the zip     *)
(* that create_archive writes under its final name                         *)
KilledArchiving ==
    /\ CanArchive
    /\ \/ /\ \E jobs \in SUBSET ClientJobs[StoredCapcon(client_live)] :
                client_live' = CollectLogs(client_live, jobs)
          /\ UNCHANGED staging
       \/ /\ \E part \in SUBSET Archivable(LastFiles) :
                staging' = [staging EXCEPT ![StoredCapcon(client_live)] = Zip(part)]
          /\ client_live' = LastFiles
    /\ Gone("off")
    /\ UNCHANGED <<to_server, to_client, archive, timers>>

(* While clean_workspace unlinks file after file, in any order *)
KilledCleaning ==
    /\ CanArchive
    /\ staging' = StageLast
    /\ \E left \in SUBSET LastFiles : client_live' = left
    /\ Gone("off")
    /\ UNCHANGED <<to_server, to_client, archive, timers>>

(* After the ID file, after capcon.json, or between two payload files *)
KilledStoring ==
    /\ Handles("preparing_ready_for_test")
    /\ Received.id # NoTest /\ MayStore(client_live)
    /\ \/ client_live' = client_live \cup {IdFile(Received.id)}
       \/ \E jobs \in SUBSET ClientJobs[Received.id] :
            client_live' = StoreCapcon(client_live, Received.id, jobs)
    /\ Gone("off")
    /\ UNCHANGED <<to_server, staging, archive, timers>>

(* In the middle of capcon.json *)
KilledWriting ==
    /\ Handles("preparing_ready_for_test")
    /\ Received.id # NoTest /\ MayStore(client_live)
    /\ client_live' = client_live \cup {IdFile(Received.id), TornFile(Received.id)}
    /\ Gone("off")
    /\ UNCHANGED <<to_server, staging, archive, timers>>

(* Between two systemd-run calls: the client's own unit comes first *)
BadArmsOwnTimer == restart_timer' \in BOOLEAN   \* comes last
ArmsOwnTimer == restart_timer' = TRUE

KilledExecuting ==
    /\ Handles("offline_testing") /\ Received.id = current
    /\ ArmsOwnTimer
    /\ \E jobs \in SUBSET ClientJobs[current] : client_unit' = Arm(client_unit, jobs)
    /\ Gone("off")
    /\ UNCHANGED <<to_server, clientDisk>>

ClientHandles ==
    \/ HandleServerHello \/ CheckFilesForUpload \/ CheckFilesRaises \/ HandleUploadComplete
    \/ HandleCapcon \/ HandleLastCapcon \/ HandleCapconRaises
    \/ HandleExecute \/ HandleExecuteMismatch
    \/ BadReply \/ ConnectionLost

ClientRunsPayloads == \E p \in Payloads : ClientMexec(p) \/ ClientPayloadEnds(p)

ClientCrashes ==
    \/ ClientKilled \/ KilledArchiving \/ KilledCleaning
    \/ KilledStoring \/ KilledExecuting
-----------------------------------------------------------------------------
(* The client before an arbitrary server: any reply at any time, or a      *)
(* closed socket.                                                          *)

AnyReply ==
    {Msg(type, NoTest) : type \in {"SERVER_HELLO", "INVALID_DATA"}}
        \cup {Msg(type, id) : type \in {"UPLOAD_COMPLETE", "CAPCON", "EXECUTE_CAPCON"},
                             id \in TestId}

ServerReplies(c) ==
    /\ link[c] = "open" /\ to_client[c] = <<>>
    /\ \E m \in AnyReply : to_client' = Post(to_client, c, m)
    /\ to_server' = Empty(to_server, c)
    /\ UNCHANGED <<link, clientVars>>

ServerHangsUp(c) ==
    /\ link[c] = "open"
    /\ link' = Close(link, c)
    /\ UNCHANGED <<to_server, to_client, clientVars>>

ClientOpenInit == WireInit /\ ClientInit

ClientOpenNext ==
    \/ StartsByTimer \/ StartsByOperator
    \/ \E c \in Conns : Connects(c) \/ ServerReplies(c) \/ ServerHangsUp(c)
    \/ ConnectFails
    \/ ClientHandles
    \/ ClientRunsPayloads
    \/ ClientCrashes \/ KilledWriting

ClientSpec == ClientOpenInit /\ [][ClientOpenNext]_<<wire, clientVars>>

-----------------------------------------------------------------------------
(* Properties of the client before an arbitrary server, killed at will.    *)

(* What the client acknowledges is on its disk: from ACK_CAPCON to the     *)
(* trigger, capcon.json and the configuration of every payload it is about *)
(* to start are in the live workspace, whatever an earlier process left.   *)
AcknowledgedIsStored ==
    client_state = "offline_testing" =>
        /\ CapconFile(current) \in client_live
        /\ JobFiles(ClientJobs[current]) \subseteq client_live

(* The process that a timer brings back finds the CapCon of its capture,   *)
(* so the capture is archived and uploaded: nothing cleans the live        *)
(* workspace between the trigger and the restart, as long as no operator   *)
(* starts the client into the capture (StartsByOperator).                  *)
RestartFindsCapture == restart_timer => HasCapcon(client_live)

(* capcon.json is never overwritten by that of another CapCon, and every   *)
(* archive holds the capcon.json it is named after: a kill while cleaning  *)
(* never lets a later process archive the remains under a wrong name, and  *)
(* a zip cut short by a kill is written anew before it can be uploaded,    *)
(* because capcon.json is still in the live workspace.                     *)
ArchivesNamedByCapcon ==
    /\ \A s, t \in Tests :
        CapconFile(s) \in client_live /\ CapconFile(t) \in client_live => s = t
    /\ \A t \in Tests :
        /\ archive[t].there => CapconFile(t) \in archive[t].files
        /\ staging[t].there => CapconFile(t) \in staging[t].files \cup client_live

(* Whatever disappears from the live workspace is in an archive by then,   *)
(* also in the step that a kill cuts short in the middle of cleaning: it   *)
(* too has archived first.  All that can be lost is an output that         *)
(* create_archive cannot read.                                             *)
RemovedIsStaged ==
    [][\A f \in Archivable(client_live) \ client_live' :
            \E t \in Tests : staging'[t].there /\ f \in staging'[t].files
      ]_<<wire, clientVars>>
=============================================================================
