------------------------- MODULE MotraClient_proofs -------------------------
(***************************************************************************)
(* Proofs about the client before an arbitrary server and killed at any    *)
(* point, for any CapCons, payloads, connections and retry limit.  Types   *)
(* come first, then what each action does to the live workspace, and from  *)
(* both the safety properties.                                             *)
(***************************************************************************)
EXTENDS MotraClient, MotraWire_proofs, TLAPS

(* A process that talks to the server has a connection, and one that waits *)
(* for the trigger has a CapCon; the retries of a process die with it.     *)
Connected ==
    /\ client_state \in {"connecting", "connected", "upload_data_available",
                         "preparing_ready_for_test", "offline_testing"} => conn \in Conns
    /\ client_state = "offline_testing" => current \in Tests
    /\ client_state = "off" => retries = 0

ClientTyped == WireTypeOK /\ ClientTypeOK /\ Connected

(* The part of the types that a step of the process alone changes *)
ProcessOK ==
    /\ client_state \in ClientState
    /\ conn \in Conns \cup {NoConn}
    /\ retries \in 0..RetryLimit
    /\ retry_time = RetryTime + 2 * retries
    /\ pending_files \subseteq Tests
    /\ current \in TestId
    /\ link \in [Conns -> {"open", "closed"}]
    /\ Connected

DiskOK ==
    /\ client_live \subseteq File
    /\ staging \in [Tests -> Archive]
    /\ archive \in [Tests -> Archive]

QueuesOK ==
    /\ to_server \in [Conns -> Seq(Message(Request))]
    /\ to_client \in [Conns -> Seq(Message(Reply))]

TimersOK ==
    /\ restart_timer \in BOOLEAN
    /\ client_unit \in [Payloads -> UnitState]

LEMMA ClientTypedParts == ClientTyped <=> ProcessOK /\ DiskOK /\ QueuesOK /\ TimersOK
BY DEF ClientTyped, WireTypeOK, ClientTypeOK, ProcessOK, DiskOK, QueuesOK, TimersOK

LEMMA ClientTypedNext == ProcessOK' /\ DiskOK' /\ QueuesOK' /\ TimersOK' => ClientTyped'
BY DEF ClientTyped, WireTypeOK, ClientTypeOK, ProcessOK, DiskOK, QueuesOK, TimersOK

(* The CapCon in a workspace, if there is one, is one of the tests. *)
LEMMA StoredThere ==
    ASSUME NEW live, HasCapcon(live)
    PROVE  StoredCapcon(live) \in Tests /\ CapconFile(StoredCapcon(live)) \in live
BY DEF HasCapcon, StoredCapcon

LEMMA JobsType == \A t \in Tests : ClientJobs[t] \subseteq Payloads
BY WireAssumption
-----------------------------------------------------------------------------
(* Types *)

LEMMA ClientGoneType ==
    ASSUME ClientTyped, NEW s \in {"off", "finished"}, Gone(s)
    PROVE  ProcessOK'
<1>1. link' \in [Conns -> {"open", "closed"}]
  BY DEF Gone, ClientTyped, WireTypeOK, Close
<1>2. retries' \in 0..RetryLimit /\ retry_time' = RetryTime + 2 * retries'
  BY ClientAssumption DEF Gone
<1>3. client_state' \in ClientState
  BY DEF Gone, ClientState
<1>4. Connected'
  BY DEF Gone, Connected
<1>5. /\ conn' \in Conns \cup {NoConn}
      /\ pending_files' \subseteq Tests
      /\ current' \in TestId
  BY DEF Gone, TestId
<1> QED
  BY <1>1, <1>2, <1>3, <1>4, <1>5 DEF ProcessOK

LEMMA DiesType == ASSUME ClientTyped, Dies PROVE ClientTyped'
<1>1. ProcessOK'
  BY ClientGoneType DEF Dies
<1> QED
  BY <1>1, ClientTypedParts, ClientTypedNext DEF Dies, DiskOK, QueuesOK, TimersOK, clientDisk, timers

LEMMA BackoffType ==
    ASSUME ClientTyped, NEW n \in 0..RetryLimit, n = retries, Disconnected(n) \/ GivesUp(n)
    PROVE  ProcessOK'
<1>1. CASE Disconnected(n)
  <2>1. /\ retries' \in 0..RetryLimit
        /\ retry_time' = RetryTime + 2 * retries'
    BY <1>1, ClientAssumption DEF Disconnected, MayRetry, ClientTyped, ClientTypeOK
  <2> QED
    BY <1>1, <2>1 DEF Disconnected, ClientTyped, ClientTypeOK, WireTypeOK, ProcessOK,
                      ClientState, Connected
<1>2. CASE GivesUp(n)
  BY <1>2, ClientGoneType DEF GivesUp
<1> QED
  BY <1>1, <1>2

LEMMA StartType == ASSUME ClientTyped, ClientStarts PROVE ProcessOK' /\ DiskOK' /\ QueuesOK'
<1>1. 0 \in 0..RetryLimit /\ retries = 0
  BY ClientAssumption DEF ClientStarts, ClientTyped, Connected
<1>2. ProcessOK'
  BY <1>1, BackoffType DEF ClientStarts
<1> QED
  BY <1>2, ClientTypedParts DEF ClientStarts, DiskOK, QueuesOK, clientDisk

(* What is read is a reply, and the queue keeps its type. *)
LEMMA ReadsType ==
    ASSUME ClientTyped, Reads
    PROVE  /\ conn \in Conns
           /\ to_client' \in [Conns -> Seq(Message(Reply))]
           /\ Received.id \in TestId
<1>1. conn \in Conns
  BY DEF ClientTyped, Connected, Reads, Waits
<1>2. /\ to_client' \in [Conns -> Seq(Message(Reply))]
      /\ Received \in Message(Reply)
  BY <1>1, DropType DEF ClientTyped, WireTypeOK, Reads, Received
<1>3. Received.id \in TestId
  BY <1>2 DEF Message
<1> QED
  BY <1>1, <1>2, <1>3

LEMMA SendsType ==
    ASSUME ClientTyped, conn \in Conns, NEW m \in Message(Request), Sends(m)
    PROVE  to_server' \in [Conns -> Seq(Message(Request))]
BY SendType DEF ClientTyped, WireTypeOK, Sends

LEMMA UploadType ==
    ASSUME ClientTyped, conn \in Conns, NEW pending \in SUBSET Tests,
           NEW staged \in [Tests -> Archive], UploadNext(pending, staged)
    PROVE  ProcessOK' /\ to_server' \in [Conns -> Seq(Message(Request))]
<1> USE DEF ClientTyped, WireTypeOK, ClientTypeOK
<1>1. ASSUME NEW t \in pending, staged[t].there, Sends(Upload(t, staged[t].files)),
             pending_files' = pending \ {t}, client_state' = "upload_data_available",
             UNCHANGED <<link, conn, backoff, current>>
      PROVE  ProcessOK' /\ to_server' \in [Conns -> Seq(Message(Request))]
  <2>1. Upload(t, staged[t].files) \in Message(Request)
    BY DEF Upload, Message, Request, TestId, Archive
  <2>2. to_server' \in [Conns -> Seq(Message(Request))]
    BY <1>1, <2>1, SendsType
  <2> QED
    BY <1>1, <2>2 DEF ProcessOK, ClientState, Connected, backoff
<1>2. CASE /\ pending = {} /\ Sends(Msg("REQUEST_CAPCON", NoTest))
           /\ pending_files' = {} /\ client_state' = "preparing_ready_for_test"
           /\ UNCHANGED <<link, conn, backoff, current>>
  <2>1. Msg("REQUEST_CAPCON", NoTest) \in Message(Request)
    BY DEF Msg, Message, Request, TestId
  <2>2. to_server' \in [Conns -> Seq(Message(Request))]
    BY <1>2, <2>1, SendsType
  <2> QED
    BY <1>2, <2>2 DEF ProcessOK, ClientState, Connected, backoff
<1>3. CASE Gone("off") /\ UNCHANGED to_server
  BY <1>3, ClientGoneType
<1> QED
  BY <1>1, <1>2, <1>3 DEF UploadNext

(* The archive of the last capture, whole or in part *)
LEMMA StageType ==
    ASSUME ClientTyped, HasCapcon(client_live)
    PROVE  /\ LastFiles \in SUBSET File
           /\ \A part \in SUBSET LastFiles :
                [staging EXCEPT ![StoredCapcon(client_live)] = Zip(part)] \in [Tests -> Archive]
           /\ StageLast \in [Tests -> Archive]
           /\ \A jobs \in SUBSET ClientJobs[StoredCapcon(client_live)] :
                CollectLogs(client_live, jobs) \in SUBSET File
<1> USE DEF ClientTyped, ClientTypeOK
<1>1. \A jobs \in SUBSET ClientJobs[StoredCapcon(client_live)] :
        CollectLogs(client_live, jobs) \in SUBSET File
  BY StoredThere, JobsType, StoreType
<1>2. LastFiles \in SUBSET File
  BY <1>1 DEF LastFiles
<1>3. \A part \in SUBSET LastFiles : Zip(part) \in Archive
  BY <1>2 DEF Zip, Archive
<1> QED
  BY <1>1, <1>2, <1>3 DEF StageLast, Zipped, Archivable

(* The units stay typed whatever is armed, fired or finished. *)
LEMMA UnitsType ==
    ASSUME ClientTyped
    PROVE  /\ \A jobs : Arm(client_unit, jobs) \in [Payloads -> UnitState]
           /\ \A p \in Payloads : Fire(client_unit, p, client_live) \in [Payloads -> UnitState]
           /\ \A p \in Payloads : Finish(client_unit, p) \in [Payloads -> UnitState]
BY DEF ClientTyped, ClientTypeOK, Arm, Fire, Finish, UnitState

LEMMA StoringType ==
    ASSUME ClientTyped, NEW t \in Tests
    PROVE  /\ \A jobs \in SUBSET ClientJobs[t] : StoreCapcon(client_live, t, jobs) \in SUBSET File
           /\ client_live \cup {IdFile(t)} \in SUBSET File
           /\ client_live \cup {IdFile(t), TornFile(t)} \in SUBSET File
BY FilesType, StoreType, JobsType DEF ClientTyped, ClientTypeOK

LEMMA ClientTypedInit == ClientOpenInit => ClientTyped
<1> SUFFICES ASSUME ClientOpenInit PROVE ClientTyped
  OBVIOUS
<1>1. WireTypeOK
  BY DEF ClientOpenInit, WireInit, WireTypeOK
<1>2. NoZip \in Archive /\ 0 \in 0..RetryLimit /\ RetryTime = RetryTime + 2 * 0
  BY ClientAssumption DEF NoZip, Archive
<1>3. ClientTypeOK
  BY <1>2 DEF ClientOpenInit, ClientInit, ClientTypeOK, ClientState, TestId, UnitState
<1>4. Connected
  BY DEF ClientOpenInit, ClientInit, Connected
<1> QED
  BY <1>1, <1>3, <1>4 DEF ClientTyped

(* Steps after which no process is there *)
LEMMA EndingsType ==
    ASSUME ClientTyped,
           \/ HandleLastCapcon \/ HandleCapconRaises
           \/ HandleExecute \/ HandleExecuteMismatch
           \/ BadReply \/ KilledStoring \/ KilledWriting \/ KilledExecuting
    PROVE  ClientTyped'
<1>1. /\ Reads
      /\ Gone("off") \/ Gone("finished")
      /\ UNCHANGED <<to_server, staging, archive>>
  BY DEF HandleLastCapcon, HandleCapconRaises, HandleExecute, HandleExecuteMismatch,
         BadReply, KilledStoring, KilledWriting, KilledExecuting, Handles, clientDisk
<1>2. ProcessOK' /\ QueuesOK'
  BY <1>1, ClientGoneType, ReadsType, ClientTypedParts DEF QueuesOK
<1>3. client_live' \subseteq File
  <2>1. CASE HandleCapconRaises \/ KilledStoring \/ KilledWriting
    <3>1. Received.id \in Tests
      BY <1>1, <2>1, ReadsType DEF HandleCapconRaises, KilledStoring, KilledWriting, TestId
    <3> QED
      BY <2>1, <3>1, StoringType DEF HandleCapconRaises, KilledStoring, KilledWriting, ClientTyped, ClientTypeOK
  <2>2. CASE UNCHANGED clientDisk
    BY <2>2 DEF clientDisk, ClientTyped, ClientTypeOK
  <2> QED
    BY <2>1, <2>2 DEF HandleLastCapcon, HandleExecute, HandleExecuteMismatch, BadReply,
                      KilledExecuting
<1>4. TimersOK'
  <2>1. CASE UNCHANGED timers
    BY <2>1, ClientTypedParts DEF timers, TimersOK
  <2>2. CASE HandleExecute \/ KilledExecuting
    BY <2>2, UnitsType DEF HandleExecute, KilledExecuting, Execute, ArmsOwnTimer, TimersOK
  <2> QED
    BY <2>1, <2>2 DEF HandleLastCapcon, HandleCapconRaises, HandleExecuteMismatch, BadReply,
                      KilledStoring, KilledWriting
<1> QED
  BY <1>1, <1>2, <1>3, <1>4, ClientTypedParts, ClientTypedNext DEF DiskOK

LEMMA HandledType == ClientTyped /\ ClientHandles => ClientTyped'
<1> SUFFICES ASSUME ClientTyped, ClientHandles PROVE ClientTyped'
  OBVIOUS
<1>1. CASE HandleServerHello
  <2>1. QueuesOK'
    BY <1>1, ReadsType, ClientTypedParts DEF HandleServerHello, Handles, QueuesOK
  <2>2. ProcessOK'
    BY <1>1, ReadsType, ClientTypedParts DEF HandleServerHello, Handles, ProcessOK, ClientState, Connected, backoff
  <2> QED
    BY <1>1, <2>1, <2>2, ClientTypedParts, ClientTypedNext DEF HandleServerHello, DiskOK, TimersOK, clientDisk, timers
<1>2. CASE CheckFilesForUpload
  <2>1. conn \in Conns
    BY <1>2 DEF CheckFilesForUpload, ClientTyped, Connected
  <2>2. staging' \in [Tests -> Archive] /\ client_live' \subseteq File
    BY <1>2, StageType DEF CheckFilesForUpload, ClientTyped, ClientTypeOK
  <2>3. Staged(staging') \in SUBSET Tests
    BY DEF Staged
  <2>4. ProcessOK' /\ to_server' \in [Conns -> Seq(Message(Request))]
    BY <1>2, <2>1, <2>2, <2>3, UploadType DEF CheckFilesForUpload
  <2> QED
    BY <1>2, <2>2, <2>4, ClientTypedParts, ClientTypedNext DEF CheckFilesForUpload, DiskOK, QueuesOK, TimersOK, timers
<1>3. CASE HandleUploadComplete
  <2>1. conn \in Conns /\ to_client' \in [Conns -> Seq(Message(Reply))]
    BY <1>3, ReadsType DEF HandleUploadComplete, Handles
  <2>2. staging' \in [Tests -> Archive] /\ archive' \in [Tests -> Archive]
    <3>1. NoZip \in Archive
      BY DEF NoZip, Archive
    <3>2. CASE Movable(Received.id)
      <4>1. Received.id \in Tests
        BY <1>3, <3>2, ReadsType DEF HandleUploadComplete, Handles, Movable, TestId
      <4> QED
        BY <1>3, <3>1, <3>2, <4>1 DEF HandleUploadComplete, MoveOut, MoveIn, ClientTyped, ClientTypeOK
    <3>3. CASE ~Movable(Received.id)
      BY <1>3, <3>3 DEF HandleUploadComplete, ClientTyped, ClientTypeOK
    <3> QED
      BY <3>2, <3>3
  <2>3. pending_files \in SUBSET Tests
    BY DEF ClientTyped, ClientTypeOK
  <2>4. ProcessOK' /\ to_server' \in [Conns -> Seq(Message(Request))]
    BY <1>3, <2>1, <2>2, <2>3, UploadType DEF HandleUploadComplete
  <2> QED
    BY <1>3, <2>1, <2>2, <2>4, ClientTypedParts, ClientTypedNext DEF HandleUploadComplete, DiskOK, QueuesOK, TimersOK, timers
<1>4. CASE HandleCapcon
  <2>1. /\ conn \in Conns /\ to_client' \in [Conns -> Seq(Message(Reply))]
        /\ Received.id \in Tests
    BY <1>4, ReadsType DEF HandleCapcon, Handles, TestId
  <2>2. Msg("ACK_CAPCON", Received.id) \in Message(Request)
    BY <2>1 DEF Msg, Message, Request, TestId
  <2>3. to_server' \in [Conns -> Seq(Message(Request))]
    BY <1>4, <2>1, <2>2, SendsType DEF HandleCapcon
  <2>4. client_live' \subseteq File
    BY <1>4, <2>1, StoringType DEF HandleCapcon
  <2>5. ProcessOK'
    BY <1>4, <2>1, ClientTypedParts DEF HandleCapcon, ProcessOK, ClientState, Connected, TestId, backoff
  <2> QED
    BY <1>4, <2>1, <2>3, <2>4, <2>5, ClientTypedParts, ClientTypedNext
       DEF HandleCapcon, DiskOK, QueuesOK, TimersOK, timers
<1>5. CASE CheckFilesRaises \/ ConnectionLost
  BY <1>5, DiesType DEF CheckFilesRaises, ConnectionLost
<1> QED
  BY <1>1, <1>2, <1>3, <1>4, <1>5, EndingsType DEF ClientHandles

LEMMA CrashedType == ClientTyped /\ ClientCrashes => ClientTyped'
<1> SUFFICES ASSUME ClientTyped, ClientCrashes PROVE ClientTyped'
  OBVIOUS
<1>1. CASE ClientKilled
  BY <1>1, DiesType DEF ClientKilled
<1>2. CASE KilledArchiving \/ KilledCleaning
  <2>1. HasCapcon(client_live) /\ Gone("off")
    BY <1>2 DEF KilledArchiving, KilledCleaning, CanArchive
  <2>2. client_live' \subseteq File /\ staging' \in [Tests -> Archive]
    BY <1>2, <2>1, StageType
       DEF KilledArchiving, KilledCleaning, Archivable, ClientTyped, ClientTypeOK
  <2>3. ProcessOK'
    BY <2>1, ClientGoneType
  <2>4. UNCHANGED <<to_server, to_client, archive, timers>>
    BY <1>2 DEF KilledArchiving, KilledCleaning
  <2> QED
    BY <2>2, <2>3, <2>4, ClientTypedParts, ClientTypedNext DEF DiskOK, QueuesOK, TimersOK, timers
<1> QED
  BY <1>1, <1>2, EndingsType DEF ClientCrashes

LEMMA ClientTypedStep == ClientTyped /\ [ClientOpenNext]_<<wire, clientVars>> => ClientTyped'
<1> SUFFICES ASSUME ClientTyped, [ClientOpenNext]_<<wire, clientVars>> PROVE ClientTyped'
  OBVIOUS
<1>1. CASE UNCHANGED <<wire, clientVars>>
  BY <1>1, ClientTypedParts, ClientTypedNext DEF wire, clientVars, process, clientDisk, timers, ProcessOK, DiskOK, backoff,
                          QueuesOK, TimersOK, Connected
<1>2. CASE StartsByTimer \/ StartsByOperator
  <2>1. TimersOK'
    BY <1>2, ClientTypedParts DEF StartsByTimer, StartsByOperator, TimerFires, TimersOK, timers
  <2> QED
    BY <1>2, <2>1, StartType, ClientTypedParts, ClientTypedNext DEF StartsByTimer, StartsByOperator
<1>3. ASSUME NEW c \in Conns, Connects(c) PROVE ClientTyped'
  <2>1. Msg("CLIENT_HELLO", NoTest) \in Message(Request)
    BY DEF Msg, Message, Request, TestId
  <2>2. Empty(to_server, c) \in [Conns -> Seq(Message(Request))]
    BY DEF Empty, ClientTyped, WireTypeOK
  <2>3. Append(Empty(to_server, c)[c], Msg("CLIENT_HELLO", NoTest)) \in Seq(Message(Request))
    <3> HIDE DEF Message
    <3> QED
      BY <2>1, <2>2
  <2>4. QueuesOK'
    BY <1>3, <2>2, <2>3 DEF Connects, Post, QueuesOK, Empty, ClientTyped, WireTypeOK
  <2>5. ProcessOK'
    BY <1>3, ClientTypedParts DEF Connects, ProcessOK, ClientState, Connected, backoff
  <2> QED
    BY <1>3, <2>4, <2>5, ClientTypedParts, ClientTypedNext DEF Connects, DiskOK, TimersOK, clientDisk, timers
<1>4. ASSUME NEW c \in Conns, ServerReplies(c) PROVE ClientTyped'
  <2>1. PICK m \in AnyReply : to_client' = Post(to_client, c, m)
    BY <1>4 DEF ServerReplies
  <2>2. m \in Message(Reply)
    BY DEF AnyReply, Msg, Message, Reply, TestId
  <2>3. SendTo(to_client, c, m) \in [Conns -> Seq(Message(Reply))]
    BY <2>2, SendType DEF ClientTyped, WireTypeOK
  <2>4. to_client' \in [Conns -> Seq(Message(Reply))]
    BY <1>4, <2>1, <2>3 DEF ServerReplies, SendTo
  <2>5. to_server' \in [Conns -> Seq(Message(Request))]
    BY <1>4 DEF ServerReplies, Empty, ClientTyped, WireTypeOK
  <2> QED
    BY <1>4, <2>4, <2>5 DEF ServerReplies, ClientTyped, WireTypeOK, ClientTypeOK, Connected,
                            clientVars, process, backoff, clientDisk, timers
<1>5. ASSUME NEW c \in Conns, ServerHangsUp(c) PROVE ClientTyped'
  BY <1>5 DEF ServerHangsUp, Close, ClientTyped, WireTypeOK, ClientTypeOK, Connected,
              clientVars, process, backoff, clientDisk, timers
<1>6. CASE ConnectFails
  <2>1. retries \in 0..RetryLimit
    BY DEF ClientTyped, ClientTypeOK
  <2>2. ProcessOK'
    BY <1>6, <2>1, BackoffType DEF ConnectFails
  <2> QED
    BY <1>6, <2>2, ClientTypedParts, ClientTypedNext DEF ConnectFails, DiskOK, QueuesOK, TimersOK, clientDisk, timers
<1>7. CASE ClientRunsPayloads
  <2>1. PICK p \in Payloads : ClientMexec(p) \/ ClientPayloadEnds(p)
    BY <1>7 DEF ClientRunsPayloads
  <2>2. TimersOK'
    BY <2>1, UnitsType, ClientTypedParts DEF ClientMexec, ClientPayloadEnds, TimersOK
  <2>3. DiskOK'
    BY <2>1, FilesType, ClientTypedParts DEF ClientMexec, ClientPayloadEnds, DiskOK, clientDisk
  <2>4. ProcessOK' /\ QueuesOK'
    BY <2>1, ClientTypedParts DEF ClientMexec, ClientPayloadEnds, ProcessOK, QueuesOK, Connected,
                            process, backoff, wire
  <2> QED
    BY <2>2, <2>3, <2>4, ClientTypedParts, ClientTypedNext
<1> QED
  BY <1>1, <1>2, <1>3, <1>4, <1>5, <1>6, <1>7, HandledType, CrashedType, EndingsType
     DEF ClientOpenNext

(* Before an arbitrary server and killed at any point, the process, the    *)
(* workspaces and the timers of the client always have the types the code  *)
(* gives them; a process that talks has a connection.                      *)
THEOREM ClientTypes == ClientSpec => [](WireTypeOK /\ ClientTypeOK)
<1>1. ClientSpec => []ClientTyped
  BY ClientTypedInit, ClientTypedStep, PTL DEF ClientSpec
<1>2. ClientTyped => WireTypeOK /\ ClientTypeOK
  BY DEF ClientTyped
<1> QED
  BY <1>1, <1>2, PTL
-----------------------------------------------------------------------------
(* The live workspace *)

StepOfClient == [ClientOpenNext]_<<wire, clientVars>>

(* What archiving adds to the live workspace are logs. *)
LEMMA LastFilesHave ==
    /\ client_live \subseteq LastFiles
    /\ \A t : CapconFile(t) \in LastFiles <=> CapconFile(t) \in client_live
    /\ Archivable(LastFiles) \subseteq LastFiles
    /\ \A t : CapconFile(t) \in client_live => CapconFile(t) \in Archivable(LastFiles)
    /\ Archivable(client_live) \subseteq Archivable(LastFiles)
BY FilesDiffer DEF LastFiles, CollectLogs, LogFiles, Archivable, OutFiles

(* Only cleaning removes files, to the end or cut short by a kill. *)
LEMMA LiveKept ==
    ASSUME StepOfClient, ~CheckFilesForUpload, ~KilledCleaning
    PROVE  client_live \subseteq client_live'
<1>1. CASE UNCHANGED clientDisk
  BY <1>1 DEF clientDisk
<1>2. CASE KilledArchiving
  BY <1>2, LastFilesHave DEF KilledArchiving, CollectLogs
<1>3. CASE HandleCapcon \/ HandleCapconRaises \/ KilledStoring \/ KilledWriting
  BY <1>3 DEF HandleCapcon, HandleCapconRaises, KilledStoring, KilledWriting, StoreCapcon
<1>4. CASE HandleUploadComplete
  BY <1>4 DEF HandleUploadComplete
<1>5. CASE ClientRunsPayloads
  BY <1>5 DEF ClientRunsPayloads, ClientMexec, ClientPayloadEnds, clientDisk
<1>6. CASE \/ UNCHANGED <<wire, clientVars>>
           \/ StartsByTimer \/ StartsByOperator \/ ConnectFails
           \/ \E c \in Conns : Connects(c) \/ ServerReplies(c) \/ ServerHangsUp(c)
  <2>1. UNCHANGED clientDisk
    BY <1>6 DEF StartsByTimer, StartsByOperator, ClientStarts, ConnectFails, Connects,
                ServerReplies, ServerHangsUp, clientVars
  <2> QED
    BY <1>1, <2>1
<1>7. CASE \/ HandleServerHello \/ CheckFilesRaises \/ HandleLastCapcon
           \/ HandleExecute \/ HandleExecuteMismatch \/ BadReply \/ ConnectionLost
           \/ ClientKilled \/ KilledExecuting
  <2>1. UNCHANGED clientDisk
    BY <1>7 DEF HandleServerHello, CheckFilesRaises, HandleLastCapcon, HandleExecute,
                HandleExecuteMismatch, BadReply, ConnectionLost, ClientKilled,
                KilledExecuting, Dies
  <2> QED
    BY <1>1, <2>1
<1> QED
  BY <1>2, <1>3, <1>4, <1>5, <1>6, <1>7
     DEF StepOfClient, ClientOpenNext, ClientHandles, ClientCrashes

(* A process that waits for the trigger has just stored its CapCon or goes *)
(* on waiting.                                                             *)
LEMMA OfflineEntered ==
    ASSUME StepOfClient, client_state' = "offline_testing"
    PROVE  \/ HandleCapcon
           \/ UNCHANGED <<client_state, current>> /\ client_live \subseteq client_live'
<1>1. ~Gone("off") /\ ~Gone("finished")
  BY DEF Gone
<1>2. ~CheckFilesForUpload /\ ~KilledCleaning /\ ~HandleUploadComplete
  BY <1>1 DEF CheckFilesForUpload, KilledCleaning, HandleUploadComplete, UploadNext
<1>3. client_live \subseteq client_live'
  BY <1>2, LiveKept
<1>4. ~ClientStarts /\ ~ConnectFails
  BY <1>1 DEF ClientStarts, ConnectFails, Disconnected, GivesUp
<1>5. ASSUME NEW c \in Conns, Connects(c) \/ ServerReplies(c) \/ ServerHangsUp(c)
      PROVE  UNCHANGED <<client_state, current>>
  BY <1>5 DEF Connects, ServerReplies, ServerHangsUp, clientVars, process
<1>6. CASE ClientHandles
  BY <1>1, <1>2, <1>3, <1>6
     DEF ClientHandles, HandleServerHello, CheckFilesRaises, Dies, HandleLastCapcon,
         HandleCapconRaises, HandleExecute, HandleExecuteMismatch, BadReply, ConnectionLost
<1>7. ~ClientCrashes /\ ~KilledWriting
  BY <1>1 DEF ClientCrashes, ClientKilled, KilledArchiving, KilledCleaning, KilledStoring, KilledWriting,
              KilledExecuting, Dies
<1>8. CASE UNCHANGED <<wire, clientVars>> \/ ClientRunsPayloads
  BY <1>3, <1>8 DEF clientVars, process, ClientRunsPayloads, ClientMexec, ClientPayloadEnds
<1> QED
  BY <1>3, <1>4, <1>5, <1>6, <1>7, <1>8
     DEF StepOfClient, ClientOpenNext, StartsByTimer, StartsByOperator

LEMMA AcknowledgedStep ==
    AcknowledgedIsStored /\ StepOfClient => AcknowledgedIsStored'
<1> SUFFICES ASSUME AcknowledgedIsStored, StepOfClient, client_state' = "offline_testing"
             PROVE  /\ CapconFile(current') \in client_live'
                    /\ JobFiles(ClientJobs[current']) \subseteq client_live'
  BY DEF AcknowledgedIsStored
<1>1. CASE HandleCapcon
  BY <1>1 DEF HandleCapcon, StoreCapcon
<1>2. CASE UNCHANGED <<client_state, current>> /\ client_live \subseteq client_live'
  BY <1>2 DEF AcknowledgedIsStored
<1> QED
  BY <1>1, <1>2, OfflineEntered

(* Whatever an earlier process has left behind and wherever it was killed, *)
(* the CapCon that the client acknowledges and the configurations of the   *)
(* payloads it will start are on its disk from ACK_CAPCON to the trigger.  *)
THEOREM AcknowledgedStaysStored == ClientSpec => []AcknowledgedIsStored
<1>1. ClientOpenInit => AcknowledgedIsStored
  BY DEF ClientOpenInit, ClientInit, AcknowledgedIsStored
<1> QED
  BY <1>1, AcknowledgedStep, PTL DEF ClientSpec, StepOfClient
-----------------------------------------------------------------------------
(* The restart.  Between the trigger and the timer there is no process, so *)
(* nobody cleans.                                                          *)

Awaited == restart_timer => client_state = "off" /\ HasCapcon(client_live)

LEMMA AwaitedStep ==
    ClientTyped /\ AcknowledgedIsStored /\ Awaited /\ StepOfClient => Awaited'
<1> SUFFICES ASSUME ClientTyped, AcknowledgedIsStored, Awaited, StepOfClient, restart_timer'
             PROVE  client_state' = "off" /\ HasCapcon(client_live)'
  BY DEF Awaited
<1>1. CASE HandleExecute \/ KilledExecuting
  <2>1. client_state = "offline_testing" /\ Gone("off") /\ UNCHANGED client_live
    BY <1>1 DEF HandleExecute, KilledExecuting, Handles, clientDisk
  <2>2. current \in Tests /\ CapconFile(current) \in client_live
    BY <2>1 DEF ClientTyped, Connected, AcknowledgedIsStored
  <2> QED
    BY <2>1, <2>2 DEF Gone, HasCapcon
<1>2. CASE restart_timer /\ ~HandleExecute /\ ~KilledExecuting
  <2>1. client_state = "off" /\ HasCapcon(client_live)
    BY <1>2 DEF Awaited
  <2>2. ~ClientHandles /\ ~ClientCrashes /\ ~KilledWriting
    BY <2>1 DEF ClientHandles, HandleServerHello, CheckFilesForUpload, CheckFilesRaises,
                HandleUploadComplete, HandleCapcon, HandleLastCapcon, HandleCapconRaises,
                HandleExecute, HandleExecuteMismatch, BadReply, ConnectionLost, Handles, Reads, Waits,
                ClientCrashes, ClientKilled, Running, KilledArchiving, KilledCleaning, CanArchive,
                KilledStoring, KilledWriting, KilledExecuting
  <2>3. ~CheckFilesForUpload /\ ~KilledCleaning
    BY <2>2 DEF ClientHandles, ClientCrashes
  <2>4. HasCapcon(client_live)'
    BY <2>1, <2>3, LiveKept DEF HasCapcon
  <2>5. ~StartsByTimer /\ ~StartsByOperator
    BY <1>2 DEF StartsByTimer, TimerFires, StartsByOperator
  <2>6. UNCHANGED client_state
    <3>1. ASSUME NEW c \in Conns, Connects(c) \/ ServerReplies(c) \/ ServerHangsUp(c)
          PROVE  UNCHANGED client_state
      BY <2>1, <3>1 DEF Connects, ServerReplies, ServerHangsUp, clientVars, process
    <3>2. ~ConnectFails
      BY <2>1 DEF ConnectFails
    <3>3. CASE UNCHANGED <<wire, clientVars>> \/ ClientRunsPayloads
      BY <3>3 DEF clientVars, process, ClientRunsPayloads, ClientMexec, ClientPayloadEnds
    <3> QED
      BY <2>2, <2>5, <3>1, <3>2, <3>3 DEF StepOfClient, ClientOpenNext
  <2> QED
    BY <2>1, <2>4, <2>6
<1>3. restart_timer \/ HandleExecute \/ KilledExecuting
  <2>1. CASE UNCHANGED timers
    BY <2>1 DEF timers
  <2>2. ~StartsByTimer
    BY DEF StartsByTimer, TimerFires
  <2>3. CASE ClientRunsPayloads
    BY <2>3 DEF ClientRunsPayloads, ClientMexec, ClientPayloadEnds
  <2>4. CASE \/ UNCHANGED <<wire, clientVars>> \/ StartsByOperator \/ ConnectFails
             \/ \E c \in Conns : Connects(c) \/ ServerReplies(c) \/ ServerHangsUp(c)
    BY <2>1, <2>4 DEF StartsByOperator, ConnectFails, Connects, ServerReplies, ServerHangsUp,
                      clientVars
  <2>5. CASE ClientHandles
    BY <2>1, <2>5
       DEF ClientHandles, HandleServerHello, CheckFilesForUpload, CheckFilesRaises, Dies,
           HandleUploadComplete, HandleCapcon, HandleLastCapcon, HandleCapconRaises,
           HandleExecuteMismatch, BadReply, ConnectionLost
  <2>6. CASE ClientCrashes \/ KilledWriting
    BY <2>1, <2>6 DEF ClientCrashes, ClientKilled, Dies, KilledArchiving, KilledCleaning, KilledStoring, KilledWriting
  <2> QED
    BY <2>2, <2>3, <2>4, <2>5, <2>6 DEF StepOfClient, ClientOpenNext
<1> QED
  BY <1>1, <1>2, <1>3

(* The process that the timer brings back after a capture finds the CapCon *)
(* of that capture, for any payloads, kills and replies.                   *)
THEOREM RestartsWithCapture == ClientSpec => []RestartFindsCapture
<1>1. ClientOpenInit => Awaited /\ AcknowledgedIsStored
  BY DEF ClientOpenInit, ClientInit, Awaited, AcknowledgedIsStored
<1>2. Awaited => RestartFindsCapture
  BY DEF Awaited, RestartFindsCapture
<1> QED
  BY <1>1, <1>2, ClientTypedInit, ClientTypedStep, AcknowledgedStep, AwaitedStep, PTL
     DEF ClientSpec, StepOfClient
-----------------------------------------------------------------------------
(* Archives.  Their names are right because there is one capcon.json at    *)
(* most, and none while the client uploads.                                *)

Uploading == client_state \in {"upload_data_available", "preparing_ready_for_test"}
Named == ArchivesNamedByCapcon /\ (Uploading => ~HasCapcon(client_live))

SameCapcons == \A t : CapconFile(t) \in client_live' <=> CapconFile(t) \in client_live

LEMMA NamedKept ==
    ASSUME Named, SameCapcons, UNCHANGED <<staging, archive>>, Uploading' => Uploading
    PROVE  Named'
BY DEF Named, SameCapcons, ArchivesNamedByCapcon, HasCapcon

LEMMA NamedStored ==
    ASSUME Named, NEW t \in Tests, MayStore(client_live), UNCHANGED <<staging, archive>>, ~Uploading',
           NEW jobs, client_live' = StoreCapcon(client_live, t, jobs)
    PROVE  Named'
<1>1. \A s \in Tests : CapconFile(s) \in client_live' => s = t
  BY FilesDiffer DEF StoreCapcon, JobFiles, MayStore, HasCapcon
<1>2. client_live \subseteq client_live'
  BY DEF StoreCapcon
<1> QED
  BY <1>1, <1>2 DEF Named, ArchivesNamedByCapcon

(* Archiving, in part or as a whole: the archive gets the name of the      *)
(* capcon.json that it has or that is still there.                         *)
LEMMA NamedStaged ==
    ASSUME ClientTyped, Named, HasCapcon(client_live), NEW part,
           staging' = [staging EXCEPT ![StoredCapcon(client_live)] = Zip(part)],
           UNCHANGED archive,
           \A t : CapconFile(t) \in client_live' => CapconFile(t) \in client_live,
           CapconFile(StoredCapcon(client_live)) \in part \cup client_live'
    PROVE  ArchivesNamedByCapcon'
<1> DEFINE this == StoredCapcon(client_live)
<1>1. this \in Tests /\ CapconFile(this) \in client_live
  BY StoredThere
<1>2. \A t \in Tests : CapconFile(t) \in client_live => t = this
  BY <1>1 DEF Named, ArchivesNamedByCapcon
<1>3. \A t \in Tests : t # this => staging'[t] = staging[t]
  BY DEF ClientTyped, ClientTypeOK
<1>4. staging'[this].files = part
  BY <1>1 DEF ClientTyped, ClientTypeOK, Zip
<1>5. ASSUME NEW t \in Tests, staging'[t].there
      PROVE  CapconFile(t) \in staging'[t].files \cup client_live'
  <2>1. CASE t = this
    BY <1>4, <2>1
  <2>2. CASE t # this
    <3>1. CapconFile(t) \in staging[t].files
      BY <1>2, <1>3, <1>5, <2>2 DEF Named, ArchivesNamedByCapcon
    <3> QED
      BY <1>3, <2>2, <3>1
  <2> QED
    BY <2>1, <2>2
<1> QED
  BY <1>2, <1>5 DEF Named, ArchivesNamedByCapcon

LEMMA GoneIsSilent == ASSUME Gone("off") \/ Gone("finished") PROVE ~Uploading'
BY DEF Gone, Uploading

(* The actions that touch neither a capcon.json nor an archive *)
LEMMA OthersAreSilent ==
    ASSUME StepOfClient,
           ~CheckFilesForUpload, ~HandleUploadComplete, ~HandleCapcon, ~HandleCapconRaises,
           ~KilledArchiving, ~KilledCleaning, ~KilledStoring /\ ~KilledWriting
    PROVE  /\ SameCapcons
           /\ UNCHANGED <<staging, archive>>
           /\ Uploading' => Uploading
<1>1. CASE UNCHANGED <<clientDisk, client_state>>
  BY <1>1 DEF clientDisk, SameCapcons, Uploading
<1>2. CASE UNCHANGED clientDisk /\ (Gone("off") \/ Gone("finished"))
  BY <1>2, GoneIsSilent DEF clientDisk, SameCapcons
<1>3. CASE ClientRunsPayloads
  <2>1. PICK p \in Payloads : ClientMexec(p) \/ ClientPayloadEnds(p)
    BY <1>3 DEF ClientRunsPayloads
  <2>2. CASE ClientMexec(p)
    BY <1>1, <2>2 DEF ClientMexec, process
  <2>3. CASE ClientPayloadEnds(p)
    BY <2>3, FilesDiffer DEF ClientPayloadEnds, SameCapcons, Uploading, process
  <2> QED
    BY <2>1, <2>2, <2>3
<1>4. CASE StartsByTimer \/ StartsByOperator \/ ConnectFails
  <2>1. UNCHANGED clientDisk
    BY <1>4 DEF StartsByTimer, StartsByOperator, ClientStarts, ConnectFails
  <2>2. Gone("off") \/ client_state' = "disconnected"
    BY <1>4 DEF StartsByTimer, StartsByOperator, ClientStarts, ConnectFails, Disconnected, GivesUp
  <2> QED
    BY <1>2, <2>1, <2>2 DEF clientDisk, SameCapcons, Uploading
<1>5. CASE \E c \in Conns : Connects(c) \/ ServerReplies(c) \/ ServerHangsUp(c)
  <2>1. UNCHANGED clientDisk /\ (UNCHANGED client_state \/ client_state' = "connecting")
    BY <1>5 DEF Connects, ServerReplies, ServerHangsUp, clientVars, process
  <2> QED
    BY <1>1, <2>1 DEF clientDisk, SameCapcons, Uploading
<1>6. CASE HandleServerHello
  BY <1>6 DEF HandleServerHello, clientDisk, SameCapcons, Uploading
<1>7. CASE \/ CheckFilesRaises \/ HandleLastCapcon \/ HandleExecute \/ HandleExecuteMismatch
           \/ BadReply \/ ConnectionLost \/ ClientKilled \/ KilledExecuting
  <2>1. UNCHANGED clientDisk /\ (Gone("off") \/ Gone("finished"))
    BY <1>7 DEF CheckFilesRaises, HandleLastCapcon, HandleExecute, HandleExecuteMismatch,
                BadReply, ConnectionLost, ClientKilled, KilledExecuting, Dies
  <2> QED
    BY <1>2, <2>1
<1>8. CASE UNCHANGED <<wire, clientVars>>
  BY <1>1, <1>8 DEF clientVars, process
<1> QED
  BY <1>3, <1>4, <1>5, <1>6, <1>7, <1>8
     DEF StepOfClient, ClientOpenNext, ClientHandles, ClientCrashes

LEMMA NamedStep == ClientTyped /\ Named /\ StepOfClient => Named'
<1> SUFFICES ASSUME ClientTyped, Named, StepOfClient PROVE Named'
  OBVIOUS
<1>1. CASE CheckFilesForUpload
  <2>1. CASE HasCapcon(client_live)
    <3>1. /\ staging' = [staging EXCEPT ![StoredCapcon(client_live)] = Zip(Archivable(LastFiles))]
          /\ client_live' = {} /\ UNCHANGED archive
      BY <1>1, <2>1 DEF CheckFilesForUpload, StageLast, Zipped
    <3>2. CapconFile(StoredCapcon(client_live)) \in Archivable(LastFiles)
      BY <2>1, StoredThere, LastFilesHave
    <3> QED
      BY <2>1, <3>1, <3>2, NamedStaged DEF Named, HasCapcon
  <2>2. CASE ~HasCapcon(client_live)
    BY <1>1, <2>2 DEF CheckFilesForUpload, Named, ArchivesNamedByCapcon, HasCapcon
  <2> QED
    BY <2>1, <2>2
<1>2. CASE HandleUploadComplete
  <2>1. Uploading /\ UNCHANGED client_live
    BY <1>2 DEF HandleUploadComplete, Handles, Uploading
  <2>2. \A t \in Tests : CapconFile(t) \notin client_live
    BY <2>1 DEF Named, HasCapcon
  <2>3. CASE Movable(Received.id)
    <3>1. Received.id \in Tests
      BY <1>2, <2>3, ReadsType DEF HandleUploadComplete, Handles, Movable, TestId
    <3>2. CapconFile(Received.id) \in staging[Received.id].files
      BY <2>2, <2>3, <3>1 DEF Movable, Named, ArchivesNamedByCapcon
    <3>3. /\ staging' = [staging EXCEPT ![Received.id] = NoZip]
          /\ archive' = [archive EXCEPT ![Received.id] = staging[Received.id]]
      BY <1>2, <2>3 DEF HandleUploadComplete, MoveOut, MoveIn
    <3>4. \A t \in Tests : staging'[t].there => staging'[t] = staging[t]
      BY <3>3 DEF ClientTyped, ClientTypeOK, NoZip
    <3>5. /\ \A t \in Tests : t # Received.id => archive'[t] = archive[t]
          /\ archive'[Received.id] = staging[Received.id]
      <4>1. archive \in [Tests -> Archive]
        BY DEF ClientTyped, ClientTypeOK
      <4> QED
        BY <3>1, <3>3, <4>1
    <3> QED
      BY <2>1, <2>2, <3>2, <3>4, <3>5 DEF Named, ArchivesNamedByCapcon, HasCapcon
  <2>4. CASE ~Movable(Received.id)
    BY <1>2, <2>1, <2>4 DEF HandleUploadComplete, Named, ArchivesNamedByCapcon
  <2> QED
    BY <2>3, <2>4
<1>3. CASE HandleCapcon \/ HandleCapconRaises \/ KilledStoring \/ KilledWriting
  <2>1. ~Uploading' /\ UNCHANGED <<staging, archive>>
    BY <1>3, GoneIsSilent DEF HandleCapcon, HandleCapconRaises, KilledStoring, KilledWriting, Uploading
  <2>2. Received.id \in Tests
    BY <1>3, ReadsType DEF HandleCapcon, HandleCapconRaises, KilledStoring, KilledWriting, Handles, TestId
  <2>3. \/ MayStore(client_live) /\ \E jobs : client_live' = StoreCapcon(client_live, Received.id, jobs)
        \/ client_live' = client_live \cup {IdFile(Received.id)}
        \/ client_live' = client_live \cup {IdFile(Received.id), TornFile(Received.id)}
        \/ UNCHANGED client_live
    BY <1>3 DEF HandleCapcon, HandleCapconRaises, KilledStoring, KilledWriting
  <2>4. CASE \/ client_live' = client_live \cup {IdFile(Received.id)}
             \/ client_live' = client_live \cup {IdFile(Received.id), TornFile(Received.id)}
             \/ UNCHANGED client_live
    <3>1. SameCapcons
      BY <2>4, FilesDiffer DEF SameCapcons
    <3> QED
      BY <2>1, <3>1, NamedKept
  <2> QED
    BY <2>1, <2>2, <2>3, <2>4, NamedStored
<1>4. CASE KilledArchiving \/ KilledCleaning
  <2>1. HasCapcon(client_live) /\ ~Uploading' /\ UNCHANGED archive
    BY <1>4, GoneIsSilent DEF KilledArchiving, KilledCleaning, CanArchive
  <2>2. CapconFile(StoredCapcon(client_live)) \in client_live
    BY <2>1, StoredThere
  <2>3. CASE KilledArchiving /\ UNCHANGED staging
    <3>1. SameCapcons
      BY <2>3, LastFilesHave, FilesDiffer
         DEF KilledArchiving, SameCapcons, CollectLogs, LogFiles
    <3> QED
      BY <2>1, <2>3, <3>1, NamedKept
  <2>4. ASSUME NEW part \in SUBSET Archivable(LastFiles), client_live' = LastFiles,
               staging' = [staging EXCEPT ![StoredCapcon(client_live)] = Zip(part)]
        PROVE  ArchivesNamedByCapcon'
    BY <2>1, <2>2, <2>4, LastFilesHave, NamedStaged
  <2>5. ASSUME NEW left \in SUBSET LastFiles, client_live' = left,
               staging' = [staging EXCEPT ![StoredCapcon(client_live)] = Zip(Archivable(LastFiles))]
        PROVE  ArchivesNamedByCapcon'
    BY <2>1, <2>2, <2>5, LastFilesHave, NamedStaged
  <2>6. Named' \/ ArchivesNamedByCapcon'
    BY <1>4, <2>3, <2>4, <2>5 DEF KilledArchiving, KilledCleaning, StageLast, Zipped
  <2> QED
    BY <2>1, <2>6 DEF Named
<1>5. CASE /\ ~CheckFilesForUpload /\ ~HandleUploadComplete /\ ~HandleCapcon
           /\ ~HandleCapconRaises /\ ~KilledArchiving /\ ~KilledCleaning /\ ~KilledStoring /\ ~KilledWriting
  BY <1>5, OthersAreSilent, NamedKept
<1> QED
  BY <1>1, <1>2, <1>3, <1>4, <1>5

(* However often the client is killed while it archives, cleans or stores, *)
(* its live workspace has one capcon.json at most, and no archive is filed *)
(* under a name that is not that of its capcon.json.                       *)
THEOREM ArchivesKeepTheirName == ClientSpec => []ArchivesNamedByCapcon
<1>1. ClientOpenInit => Named
  BY DEF ClientOpenInit, ClientInit, Named, ArchivesNamedByCapcon, Uploading, NoZip
<1>2. Named => ArchivesNamedByCapcon
  BY DEF Named
<1> QED
  BY <1>1, <1>2, ClientTypedInit, ClientTypedStep, NamedStep, PTL DEF ClientSpec, StepOfClient

LEMMA RemovedStep ==
    ASSUME ClientTyped, StepOfClient, NEW f \in Archivable(client_live) \ client_live'
    PROVE  \E t \in Tests : staging'[t].there /\ f \in staging'[t].files
<1>1. CheckFilesForUpload \/ KilledCleaning
  BY LiveKept DEF Archivable
<1>2. HasCapcon(client_live) /\ staging' = StageLast
  BY <1>1 DEF CheckFilesForUpload, KilledCleaning, CanArchive, Archivable
<1>3. StoredCapcon(client_live) \in Tests
  BY <1>2, StoredThere
<1>4. staging'[StoredCapcon(client_live)] = Zip(Archivable(LastFiles))
  BY <1>2, <1>3 DEF StageLast, Zipped, ClientTyped, ClientTypeOK
<1>5. f \in Archivable(LastFiles)
  BY LastFilesHave
<1> QED
  BY <1>3, <1>4, <1>5 DEF Zip

(* No kill, hang-up or reply makes a file of a capture that can be read    *)
(* disappear from the live workspace before it is in an archive.           *)
THEOREM NothingRemovedUnstaged == ClientSpec => RemovedIsStaged
<1>1. ClientTyped /\ StepOfClient =>
        \A f \in Archivable(client_live) \ client_live' :
            \E t \in Tests : staging'[t].there /\ f \in staging'[t].files
  BY RemovedStep
<1> QED
  BY <1>1, ClientTypedInit, ClientTypedStep, PTL DEF ClientSpec, StepOfClient, RemovedIsStaged
=============================================================================
