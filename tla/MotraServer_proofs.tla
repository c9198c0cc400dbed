------------------------- MODULE MotraServer_proofs -------------------------
(***************************************************************************)
(* Proofs about the server among arbitrary peers, for any CapCons,         *)
(* payloads and connections.  Types come first; they give the safety       *)
(* invariants, and those the action properties.                            *)
(***************************************************************************)
EXTENDS MotraServer, MotraWire_proofs, FiniteSetTheorems, TLAPS

ServerTyped == WireTypeOK /\ ServerTypeOK

(* A glob order of the test directory is a sequence of CapCons. *)
LEMMA OrderType == TestOrders \subseteq Seq(Tests)
<1>1. Cardinality(Tests) \in Nat
  BY WireAssumption, FS_CardinalityType
<1>2. [1..Cardinality(Tests) -> Tests] \subseteq Seq(Tests)
  BY <1>1, SMT
<1> QED
  BY <1>2 DEF TestOrders

-----------------------------------------------------------------------------
(* Types *)

(* Every action but the ones on a frame leaves the queues typed by itself; *)
(* a frame that is received has the type of a request.                     *)
LEMMA ReceiveType ==
    ASSUME ServerTyped, NEW c \in Conns, NEW type, Receives(c, type)
    PROVE  /\ to_server' \in [Conns -> Seq(Message(Request))]
           /\ Head(to_server[c]) \in Message(Request)
           /\ Head(to_server[c]).id \in TestId
           /\ Head(to_server[c]).body \in SUBSET File
<1>1. Head(to_server[c]) \in Message(Request)
  BY DropType DEF ServerTyped, WireTypeOK, Receives, Waiting
<1>2. to_server' \in [Conns -> Seq(Message(Request))]
  BY DropType DEF ServerTyped, WireTypeOK, Receives, Waiting
<1> QED
  BY <1>1, <1>2 DEF Message

LEMMA ReplyType ==
    ASSUME ServerTyped, NEW c \in Conns, NEW type \in Reply, NEW id \in TestId,
           Replies(c, Msg(type, id))
    PROVE  to_client' \in [Conns -> Seq(Message(Reply))]
<1>1. Msg(type, id) \in Message(Reply)
  BY DEF Msg, Message
<1> QED
  BY <1>1, SendType DEF Replies, ServerTyped, WireTypeOK

LEMMA EndsType ==
    ASSUME ServerTyped, NEW c \in Conns, HandlerEnds(c)
    PROVE  /\ link' \in [Conns -> {"open", "closed"}]
           /\ handler' \in [Conns -> HandlerState]
BY DEF ServerTyped, WireTypeOK, ServerTypeOK, HandlerEnds, HandlerBecomes, Close, HandlerState

LEMMA ServerGoneType ==
    ASSUME ProcessGone
    PROVE  /\ server_up' \in BOOLEAN
           /\ link' \in [Conns -> {"open", "closed"}]
           /\ to_server' \in [Conns -> Seq(Message(Request))]
           /\ handler' \in [Conns -> HandlerState]
<1>1. <<>> \in Seq(Message(Request))
  OBVIOUS
<1> QED
  BY <1>1 DEF ProcessGone, HandlerState

LEMMA ServerTypedInit == ServerOpenInit => ServerTyped
<1> SUFFICES ASSUME ServerOpenInit PROVE ServerTyped
  OBVIOUS
<1>1. WireTypeOK
  BY DEF ServerOpenInit, WireInit, WireTypeOK
<1>2. test_queue \in Seq(Tests)
  BY OrderType DEF ServerOpenInit, ServerInit
<1>3. ServerTypeOK
  BY <1>2 DEF ServerOpenInit, ServerInit, ServerTypeOK, TestId, NoZip, Archive,
              UnitState, HandlerState
<1> QED
  BY <1>1, <1>3 DEF ServerTyped

LEMMA ServerTypedStep == ServerTyped /\ [ServerOpenNext]_<<wire, serverVars>> => ServerTyped'
<1> SUFFICES ASSUME ServerTyped, [ServerOpenNext]_<<wire, serverVars>> PROVE ServerTyped'
  OBVIOUS
<1> USE DEF ServerTyped, WireTypeOK, ServerTypeOK
<1>1. CASE UNCHANGED <<wire, serverVars>>
  BY <1>1 DEF wire, serverVars, config
<1>2. ASSUME NEW c \in Conns, OnClientHello(c) PROVE ServerTyped'
  <2>1. "SERVER_HELLO" \in Reply /\ NoTest \in TestId
    BY DEF Reply, TestId
  <2>2. to_client' \in [Conns -> Seq(Message(Reply))]
    BY <1>2, <2>1, ReplyType DEF OnClientHello
  <2>3. to_server' \in [Conns -> Seq(Message(Request))]
    BY <1>2, ReceiveType DEF OnClientHello
  <2>4. server_archive' \in [ArchiveName -> Archive]
    <3>1. Zipped(CollectLogs(server_live, capture_jobs)) \in Archive
      BY StoreType, ZippedHolds
    <3> QED
      BY <1>2, <3>1 DEF OnClientHello, ArchiveLive
  <2> QED
    BY <1>2, <2>2, <2>3, <2>4 DEF OnClientHello, ForgetUnits, CleanLive
<1>3. ASSUME NEW c \in Conns, OnRequestUpload(c) \/ OnRequestUploadUnsaved(c) PROVE ServerTyped'
  <2> DEFINE m == Head(to_server[c])
  <2>1. m.id \in TestId /\ m.body \in SUBSET File
    BY <1>3, ReceiveType DEF OnRequestUpload, OnRequestUploadUnsaved
  <2>2. to_server' \in [Conns -> Seq(Message(Request))]
    BY <1>3, ReceiveType DEF OnRequestUpload, OnRequestUploadUnsaved
  <2>3. to_client' \in [Conns -> Seq(Message(Reply))]
    <3>1. "UPLOAD_COMPLETE" \in Reply
      BY DEF Reply
    <3> QED
      BY <1>3, <2>1, <3>1, ReplyType DEF OnRequestUpload, OnRequestUploadUnsaved
  <2>4. SaveFile(server_archive, Uploaded(m.id), m.body) \in [ArchiveName -> Archive]
    BY <2>1 DEF SaveFile, Zip, Archive
  <2> QED
    BY <1>3, <2>2, <2>3, <2>4
       DEF OnRequestUpload, OnRequestUploadUnsaved, serverVars, config
<1>4. ASSUME NEW c \in Conns, OnRequestCapcon(c) PROVE ServerTyped'
  <2>1. PendingTest \in TestId
    BY DEF PendingTest, TestId
  <2>2. to_server' \in [Conns -> Seq(Message(Request))]
    BY <1>4, ReceiveType DEF OnRequestCapcon
  <2>3. "CAPCON" \in Reply /\ NoTest \in TestId
    BY DEF Reply, TestId
  <2>4. CASE SendNothing(c)
    <3>1. to_client' \in [Conns -> Seq(Message(Reply))]
      BY <2>3, <2>4, ReplyType DEF SendNothing
    <3> QED
      BY <1>4, <2>1, <2>2, <2>4, <3>1
         DEF OnRequestCapcon, SendNothing, AwaitsSend, HandlerBecomes, HandlerState
  <2>5. CASE SendPending(c)
    <3>1. to_client' \in [Conns -> Seq(Message(Reply))]
      BY <2>1, <2>3, <2>5, ReplyType DEF SendPending
    <3>2. PendingTest \in Tests
      BY <2>1, <2>5 DEF TestId, SendPending
    <3>3. ServerJobs[PendingTest] \in SUBSET Payloads
      BY <3>2, WireAssumption
    <3>4. /\ server_live' \subseteq File
          /\ capture_jobs' \subseteq Payloads
          /\ schedule_units' \subseteq Payloads
      BY <2>5, <3>2, <3>3, StoreType DEF SendPending, PrepareUnits
    <3> QED
      BY <1>4, <2>1, <2>2, <2>5, <3>1, <3>4
         DEF OnRequestCapcon, SendPending, AwaitsSend, HandlerBecomes, HandlerState
  <2>6. CASE RefusePending(c)
    <3>1. /\ link' \in [Conns -> {"open", "closed"}]
          /\ handler' \in [Conns -> HandlerState]
      BY <2>6, EndsType DEF RefusePending
    <3> QED
      BY <1>4, <2>1, <2>2, <2>6, <3>1 DEF OnRequestCapcon, RefusePending
  <2> QED
    BY <1>4, <2>4, <2>5, <2>6 DEF OnRequestCapcon
<1>5. ASSUME NEW c \in Conns, Delivered(c) \/ SendRaises(c) \/ OnDisconnect(c) PROVE ServerTyped'
  <2>1. PopTest(test_queue) \in Seq(Tests)
    BY DEF PopTest
  <2>2. /\ test_queue' \in Seq(Tests)
        /\ handler' \in [Conns -> HandlerState]
    BY <1>5, <2>1 DEF Delivered, SendRaises, OnDisconnect, HandlerBecomes, HandlerState, config
  <2>3. UNCHANGED <<link, to_server, server_up, capture_jobs, schedule_units, last_capcon,
                    server_live, server_archive, server_unit>>
    BY <1>5 DEF Delivered, SendRaises, OnDisconnect, wire, config
  <2>4. to_client' \in [Conns -> Seq(Message(Reply))]
    <3>1. Empty(to_client, c) \in [Conns -> Seq(Message(Reply))]
      BY DEF Empty
    <3>2. to_client' = to_client \/ to_client' = Empty(to_client, c)
      BY <1>5 DEF Delivered, SendRaises, OnDisconnect, wire
    <3> QED
      BY <3>1, <3>2
  <2> QED
    BY <2>2, <2>3, <2>4
<1>6. ASSUME NEW c \in Conns, OnAckCapcon(c) PROVE ServerTyped'
  <2>1. to_server' \in [Conns -> Seq(Message(Request))] /\ Head(to_server[c]).id \in TestId
    BY <1>6, ReceiveType DEF OnAckCapcon
  <2>2. to_client' \in [Conns -> Seq(Message(Reply))]
    BY <1>6, <2>1, ReplyType DEF OnAckCapcon, TriggerFor, Reply
  <2> QED
    BY <1>6, <2>1, <2>2 DEF OnAckCapcon, AwaitsSend, HandlerBecomes, HandlerState, config
<1>7. ASSUME NEW c \in Conns, Triggered(c) PROVE ServerTyped'
  <2>1. Arm(server_unit, schedule_units) \in [Payloads -> UnitState]
    BY DEF Arm, UnitState
  <2>2. /\ link' \in [Conns -> {"open", "closed"}]
        /\ handler' \in [Conns -> HandlerState]
    BY <1>7, EndsType DEF Triggered
  <2> QED
    BY <1>7, <2>1, <2>2 DEF Triggered
<1>8. ASSUME NEW c \in Conns, OnMalformed(c) \/ OnUnknown(c) \/ OnRequestCapconUnparsed(c)
      PROVE  ServerTyped'
  <2>1. to_server' \in [Conns -> Seq(Message(Request))]
    BY <1>8, ReceiveType DEF OnMalformed, OnUnknown, OnRequestCapconUnparsed
  <2>2. /\ link' \in [Conns -> {"open", "closed"}]
        /\ handler' \in [Conns -> HandlerState]
    BY <1>8, EndsType DEF OnMalformed, OnUnknown, OnRequestCapconUnparsed
  <2>3. to_client' \in [Conns -> Seq(Message(Reply))]
    BY <1>8, ReplyType DEF OnMalformed, OnUnknown, OnRequestCapconUnparsed, Reply, TestId
  <2> QED
    BY <1>8, <2>1, <2>2, <2>3 DEF OnMalformed, OnUnknown, OnRequestCapconUnparsed, config
<1>9. ASSUME NEW c \in Conns, PeerActs(c) PROVE ServerTyped'
  <2>1. CASE PeerConnects(c)
    BY <2>1 DEF PeerConnects, Accept, HandlerBecomes, HandlerState, Empty, config
  <2>2. CASE PeerSends(c)
    <3>1. PICK m \in PeerMessages : to_server' = Post(to_server, c, m)
      BY <2>2 DEF PeerSends
    <3>2. m \in Message(Request)
      BY PeerAssumption DEF PeerMessages, Msg, Upload, Message, Request, TestId
    <3>3. SendTo(to_server, c, m) \in [Conns -> Seq(Message(Request))]
      BY <3>2, SendType
    <3>4. to_server' \in [Conns -> Seq(Message(Request))]
      BY <2>2, <3>1, <3>3 DEF PeerSends, SendTo
    <3> QED
      BY <2>2, <3>4 DEF PeerSends, serverVars, config
  <2>3. CASE PeerCloses(c)
    BY <2>3 DEF PeerCloses, Close, serverVars, config
  <2> QED
    BY <1>9, <2>1, <2>2, <2>3 DEF PeerActs
<1>10. CASE ServerRunsPayloads
  <2>1. PICK p \in Payloads : ServerMexec(p) \/ ServerPayloadEnds(p)
    BY <1>10 DEF ServerRunsPayloads
  <2>2. /\ Fire(server_unit, p, server_live) \in [Payloads -> UnitState]
        /\ Finish(server_unit, p) \in [Payloads -> UnitState]
    BY DEF Fire, Finish, UnitState
  <2> QED
    BY <2>1, <2>2, FilesType DEF ServerMexec, ServerPayloadEnds, wire, config
<1>11. ASSUME NEW c \in Conns, ServerStopsWhileSaving(c) PROVE ServerTyped'
  <2>1. Head(to_server[c]) \in Message(Request)
    BY <1>11, DropType DEF ServerStopsWhileSaving, Waiting
  <2>2. Head(to_server[c]).id \in TestId
    BY <2>1 DEF Message
  <2>3. SaveFile(server_archive, Uploaded(Head(to_server[c]).id), {}) \in [ArchiveName -> Archive]
    BY <2>2 DEF SaveFile, Zip, Archive
  <2> QED
    BY <1>11, <2>3, ServerGoneType DEF ServerStopsWhileSaving, config
<1>12. CASE ServerStops
  BY <1>12, ServerGoneType DEF ServerStops, config
<1>13. CASE ServerStarts
  <2>1. test_queue' \in Seq(Tests)
    BY <1>13, OrderType DEF ServerStarts
  <2> QED
    BY <1>13, <2>1 DEF ServerStarts, TestId, wire
<1> QED
  BY <1>1, <1>2, <1>3, <1>4, <1>5, <1>6, <1>7, <1>8, <1>9, <1>10, <1>11, <1>12, <1>13
     DEF ServerOpenNext, ServerHandles

(* Among arbitrary peers, the shared configuration of the server, its      *)
(* workspaces, units, handlers and queues always have the types the code   *)
(* gives them.                                                             *)
THEOREM ServerTypes == ServerSpec => [](WireTypeOK /\ ServerTypeOK)
<1>1. ServerSpec => []ServerTyped
  BY ServerTypedInit, ServerTypedStep, PTL DEF ServerSpec
<1>2. ServerTyped => WireTypeOK /\ ServerTypeOK
  BY DEF ServerTyped
<1> QED
  BY <1>1, <1>2, PTL
-----------------------------------------------------------------------------
(* The live workspace.  LiveOfOneCapcon and JobsBacked are inductive       *)
(* together: a CLIENT_HELLO forgets the jobs only when it finds files, and *)
(* it is JobsBacked that says there is no job when it finds none.          *)

Prepared == LiveOfOneCapcon /\ JobsBacked

(* Storing a CapCon where there is none makes it the only one. *)
LEMMA StorePrepares ==
    ASSUME ServerTyped, Prepared, NEW t \in Tests, MayStore(server_live),
           server_live' = StoreCapcon(server_live, t, ServerJobs[t]),
           capture_jobs' = capture_jobs \cup ServerJobs[t],
           schedule_units' = schedule_units \cup ServerJobs[t]
    PROVE  Prepared'
<1> USE DEF Prepared, LiveOfOneCapcon
<1>1. \A s \in Tests : CapconFile(s) \notin server_live
  BY DEF MayStore, HasCapcon
<1>2. \A s \in Tests : IdFile(s) \notin server_live
  BY <1>1
<1>3. \A p \in Payloads : JobFile(p) \notin server_live
  BY <1>1
<1>4. capture_jobs = {} /\ schedule_units = {}
  BY <1>3 DEF JobsBacked, ServerTyped, ServerTypeOK
<1>5. \A f : f \in server_live' <=>
        f \in server_live \/ f = IdFile(t) \/ f = CapconFile(t) \/ \E p \in ServerJobs[t] : f = JobFile(p)
  BY DEF StoreCapcon, JobFiles
<1>6. ServerJobs[t] \subseteq Payloads
  BY WireAssumption
<1>7. \A s \in Tests : CapconFile(s) \in server_live' => s = t
  BY <1>1, <1>5, FilesDiffer
<1>8. \A s \in Tests : IdFile(s) \in server_live' => s = t
  BY <1>2, <1>5, FilesDiffer
<1>9. \A p \in Payloads : JobFile(p) \in server_live' => p \in ServerJobs[t]
  BY <1>3, <1>5, FilesDiffer
<1>10. CapconFile(t) \in server_live'
  BY <1>5
<1>11. LiveOfOneCapcon'
  BY <1>7, <1>8, <1>9, <1>10
<1>12. JobsBacked'
  BY <1>4, <1>5 DEF JobsBacked
<1> QED
  BY <1>11, <1>12

(* Files of other kinds, and fewer jobs to remember, change nothing. *)
LEMMA OthersKeepPrepared ==
    ASSUME Prepared,
           \A t : CapconFile(t) \in server_live' <=> CapconFile(t) \in server_live,
           \A t : IdFile(t) \in server_live' <=> IdFile(t) \in server_live,
           \A p : JobFile(p) \in server_live' <=> JobFile(p) \in server_live,
           capture_jobs' \cup schedule_units' \subseteq capture_jobs \cup schedule_units
    PROVE  Prepared'
BY DEF Prepared, LiveOfOneCapcon, JobsBacked

LEMMA PreparedStep == ServerTyped /\ Prepared /\ [ServerOpenNext]_<<wire, serverVars>> => Prepared'
<1> SUFFICES ASSUME ServerTyped, Prepared, [ServerOpenNext]_<<wire, serverVars>> PROVE Prepared'
  OBVIOUS
<1>1. ASSUME server_live' = server_live,
             capture_jobs' \cup schedule_units' \subseteq capture_jobs \cup schedule_units
      PROVE  Prepared'
  BY <1>1, OthersKeepPrepared
<1>2. CASE UNCHANGED <<wire, serverVars>>
  BY <1>1, <1>2 DEF serverVars, config
<1>3. ASSUME NEW c \in Conns, OnClientHello(c) PROVE Prepared'
  <2>1. server_live' = {} /\ schedule_units' = {}
    BY <1>3 DEF OnClientHello, ForgetUnits, CleanLive
  <2>2. capture_jobs' = {}
    <3>1. CASE server_live = {}
      BY <1>3, <3>1 DEF OnClientHello, Prepared, JobsBacked
    <3>2. CASE server_live # {}
      BY <1>3, <3>2 DEF OnClientHello
    <3> QED
      BY <3>1, <3>2
  <2> QED
    BY <2>1, <2>2 DEF Prepared, LiveOfOneCapcon, JobsBacked
<1>4. ASSUME NEW c \in Conns, OnRequestCapcon(c) PROVE Prepared'
  <2>1. CASE SendNothing(c) \/ RefusePending(c)
    BY <1>1, <2>1 DEF SendNothing, RefusePending
  <2>2. CASE SendPending(c)
    <3>1. PendingTest \in Tests
      BY <2>2 DEF SendPending, PendingTest, ServerTyped, ServerTypeOK
    <3> QED
      BY <2>2, <3>1, StorePrepares DEF SendPending, PrepareUnits
  <2> QED
    BY <1>4, <2>1, <2>2 DEF OnRequestCapcon
<1>5. ASSUME NEW c \in Conns, Triggered(c) PROVE Prepared'
  BY <1>1, <1>5 DEF Triggered
<1>6. ASSUME NEW p \in Payloads, ServerPayloadEnds(p) PROVE Prepared'
  <2>1. server_live' = server_live \cup {OutFile(p)}
    BY <1>6 DEF ServerPayloadEnds
  <2>2. UNCHANGED <<capture_jobs, schedule_units>>
    BY <1>6 DEF ServerPayloadEnds, config
  <2> QED
    BY <2>1, <2>2, FilesDiffer, OthersKeepPrepared
<1>7. CASE ServerStarts
  BY <1>1, <1>7 DEF ServerStarts
<1>8. ASSUME NEW c \in Conns,
             \/ OnRequestUpload(c) \/ OnRequestUploadUnsaved(c) \/ OnAckCapcon(c)
             \/ OnUnknown(c) \/ OnMalformed(c) \/ OnRequestCapconUnparsed(c) \/ OnDisconnect(c)
             \/ Delivered(c) \/ SendRaises(c) \/ PeerActs(c) \/ ServerStopsWhileSaving(c)
      PROVE  Prepared'
  BY <1>1, <1>8 DEF OnRequestUpload, OnRequestUploadUnsaved, OnAckCapcon, OnUnknown,
        OnMalformed, OnRequestCapconUnparsed, OnDisconnect, Delivered, SendRaises, PeerActs,
        PeerConnects, Accept, PeerSends, PeerCloses, ServerStopsWhileSaving, serverVars, config
<1>9. CASE ServerStops \/ (\E p \in Payloads : ServerMexec(p))
  BY <1>1, <1>9 DEF ServerStops, ServerMexec, config
<1> QED
  BY <1>2, <1>3, <1>4, <1>5, <1>6, <1>7, <1>8, <1>9
     DEF ServerOpenNext, ServerHandles, ServerRunsPayloads

LEMMA ServerPrepared == ServerSpec => [](ServerTyped /\ Prepared)
<1>1. ServerOpenInit => Prepared
  BY DEF ServerOpenInit, ServerInit, Prepared, LiveOfOneCapcon, JobsBacked
<1> QED
  BY <1>1, ServerTypedInit, ServerTypedStep, PreparedStep, PTL DEF ServerSpec

(* capcon.json is a mutex: among arbitrary peers, the live workspace never *)
(* holds the files of two CapCons.                                         *)
THEOREM OneCapconAtATime == ServerSpec => []LiveOfOneCapcon
<1>1. ServerTyped /\ Prepared => LiveOfOneCapcon
  BY DEF Prepared
<1> QED
  BY <1>1, ServerPrepared, PTL

(* Every payload the server remembers has its configuration on disk.       *)
THEOREM JobsAreBacked == ServerSpec => []JobsBacked
<1>1. ServerTyped /\ Prepared => JobsBacked
  BY DEF Prepared
<1> QED
  BY <1>1, ServerPrepared, PTL
-----------------------------------------------------------------------------
(* Action properties *)

Dropped ==
    /\ \A f \in Archivable(server_live) \ server_live' :
            \E n \in ArchiveName : f \in server_archive'[n].files
    /\ server_up => \A p \in capture_jobs \ capture_jobs' :
            \E n \in ArchiveName : LogFile(p) \in server_archive'[n].files

LEMMA DroppedStep == ServerTyped /\ [ServerOpenNext]_<<wire, serverVars>> => Dropped
<1> SUFFICES ASSUME ServerTyped, [ServerOpenNext]_<<wire, serverVars>> PROVE Dropped
  OBVIOUS
<1>1. ASSUME server_live \subseteq server_live', server_up => capture_jobs \subseteq capture_jobs'
      PROVE  Dropped
  BY <1>1, ZippedHolds DEF Dropped
<1>2. CASE UNCHANGED <<wire, serverVars>>
  BY <1>1, <1>2 DEF serverVars, config
<1>3. ASSUME NEW c \in Conns, OnClientHello(c) PROVE Dropped
  <2>1. CASE server_live = {}
    BY <1>1, <1>3, <2>1 DEF OnClientHello
  <2>2. CASE server_live # {}
    <3>1. ServerZip(last_capcon) \in ArchiveName
      BY DEF ServerTyped, ServerTypeOK, ArchiveName, ServerZip
    <3>2. server_archive'[ServerZip(last_capcon)].files
            = Archivable(CollectLogs(server_live, capture_jobs))
      BY <1>3, <2>2, <3>1
         DEF OnClientHello, ArchiveLive, ServerTyped, ServerTypeOK, Zipped, Zip
    <3>3. /\ Archivable(server_live) \subseteq Archivable(CollectLogs(server_live, capture_jobs))
          /\ \A p \in capture_jobs :
                LogFile(p) \in Archivable(CollectLogs(server_live, capture_jobs))
      BY DEF CollectLogs, LogFiles, LogFile, Archivable, OutFiles, OutFile
    <3> QED
      BY <3>1, <3>2, <3>3 DEF Dropped
  <2> QED
    BY <2>1, <2>2
<1>4. ASSUME NEW c \in Conns, OnRequestCapcon(c) PROVE Dropped
  BY <1>1, <1>4 DEF OnRequestCapcon, SendNothing, SendPending, RefusePending, StoreCapcon
<1>5. ASSUME NEW c \in Conns,
             \/ OnRequestUpload(c) \/ OnRequestUploadUnsaved(c) \/ OnAckCapcon(c)
             \/ OnUnknown(c) \/ OnMalformed(c) \/ OnRequestCapconUnparsed(c) \/ OnDisconnect(c)
             \/ Delivered(c) \/ SendRaises(c) \/ PeerActs(c) \/ ServerStopsWhileSaving(c)
             \/ Triggered(c)
      PROVE  Dropped
  BY <1>1, <1>5 DEF OnRequestUpload, OnRequestUploadUnsaved, OnAckCapcon, OnUnknown,
        OnMalformed, OnRequestCapconUnparsed, OnDisconnect, Delivered, SendRaises, PeerActs,
        PeerConnects, Accept, PeerSends, PeerCloses, ServerStopsWhileSaving, Triggered, serverVars, config
<1>6. CASE ServerStops \/ ServerStarts \/ ServerRunsPayloads
  BY <1>1, <1>6 DEF ServerStops, ServerStarts, ServerRunsPayloads, ServerMexec,
                    ServerPayloadEnds, config
<1> QED
  BY <1>2, <1>3, <1>4, <1>5, <1>6 DEF ServerOpenNext, ServerHandles

(* Nothing that can be read leaves the live workspace, and no job is       *)
(* forgotten by a running server, without its files and its log being in   *)
(* an archive.                                                             *)
THEOREM NothingIsDropped == ServerSpec => NothingDropped
<1>1. ServerTyped /\ [ServerOpenNext]_<<wire, serverVars>> => [Dropped]_<<wire, serverVars>>
  BY DroppedStep
<1>2. ServerSpec => [][Dropped]_<<wire, serverVars>>
  BY <1>1, ServerTypedInit, ServerTypedStep, PTL DEF ServerSpec
<1> QED
  BY <1>2 DEF NothingDropped, Dropped

Kept ==
    \A t \in Tests : server_archive[Uploaded(t)].there =>
        server_archive'[Uploaded(t)] = server_archive[Uploaded(t)]

LEMMA KeptStep == ServerTyped /\ [ServerOpenNext]_<<wire, serverVars>> => Kept
<1> SUFFICES ASSUME ServerTyped, [ServerOpenNext]_<<wire, serverVars>> PROVE Kept
  OBVIOUS
<1>1. ASSUME server_archive' = server_archive PROVE Kept
  BY <1>1 DEF Kept
<1>2. ASSUME NEW name \in ArchiveName, NEW body,
             server_archive' = SaveFile(server_archive, name, body)
      PROVE  Kept
  BY <1>2 DEF Kept, SaveFile, ServerTyped, ServerTypeOK
<1>3. CASE UNCHANGED <<wire, serverVars>>
  BY <1>1, <1>3 DEF serverVars
<1>4. ASSUME NEW c \in Conns, OnClientHello(c) PROVE Kept
  <2>1. \A t \in Tests, i \in TestId : Uploaded(t) # ServerZip(i) /\ Uploaded(t) \in ArchiveName
    BY DEF Uploaded, ServerZip, ArchiveName, TestId
  <2>2. server_archive' = server_archive \/ server_archive' = ArchiveLive(server_archive)
    BY <1>4 DEF OnClientHello
  <2> QED
    BY <1>1, <2>1, <2>2 DEF Kept, ArchiveLive, ServerTyped, ServerTypeOK
<1>5. ASSUME NEW c \in Conns, OnRequestUpload(c) \/ ServerStopsWhileSaving(c) PROVE Kept
  <2>1. Waiting(c, "REQUEST_UPLOAD")
    BY <1>5 DEF OnRequestUpload, ServerStopsWhileSaving, Receives
  <2>2. Head(to_server[c]) \in Message(Request)
    BY <2>1, DropType DEF Waiting, ServerTyped, WireTypeOK
  <2>3. Uploaded(Head(to_server[c]).id) \in ArchiveName
    BY <2>2 DEF Message, Uploaded, ArchiveName
  <2> QED
    BY <1>2, <1>5, <2>3 DEF OnRequestUpload, ServerStopsWhileSaving
<1>6. ASSUME NEW c \in Conns,
             \/ OnRequestCapcon(c) \/ OnRequestUploadUnsaved(c) \/ OnAckCapcon(c)
             \/ OnUnknown(c) \/ OnMalformed(c) \/ OnRequestCapconUnparsed(c) \/ OnDisconnect(c)
             \/ Delivered(c) \/ SendRaises(c) \/ PeerActs(c) \/ Triggered(c)
      PROVE  Kept
  BY <1>1, <1>6 DEF OnRequestCapcon, OnRequestUploadUnsaved, OnAckCapcon, OnUnknown,
        OnMalformed, OnRequestCapconUnparsed, OnDisconnect, Delivered, SendRaises, PeerActs,
        PeerConnects, Accept, PeerSends, PeerCloses, Triggered, serverVars
<1>7. CASE ServerStops \/ ServerStarts \/ ServerRunsPayloads
  BY <1>1, <1>7 DEF ServerStops, ServerStarts, ServerRunsPayloads, ServerMexec,
                    ServerPayloadEnds
<1> QED
  BY <1>3, <1>4, <1>5, <1>6, <1>7 DEF ServerOpenNext, ServerHandles

(* An uploaded capture on the server is never overwritten.                 *)
THEOREM UploadsAreKept == ServerSpec => UploadsKept
<1>1. ServerTyped /\ [ServerOpenNext]_<<wire, serverVars>> => [Kept]_<<wire, serverVars>>
  BY KeptStep
<1>2. ServerSpec => [][Kept]_<<wire, serverVars>>
  BY <1>1, ServerTypedInit, ServerTypedStep, PTL DEF ServerSpec
<1> QED
  BY <1>2 DEF UploadsKept, Kept

Started ==
    \A p \in Payloads : server_unit[p] # "armed" /\ server_unit'[p] = "armed" =>
        \E t \in Tests : /\ CapconFile(t) \in server_live
                         /\ p \in ServerJobs[t]
                         /\ JobFile(p) \in server_live

LEMMA StartedStep == ServerTyped /\ Prepared /\ [ServerOpenNext]_<<wire, serverVars>> => Started
<1> SUFFICES ASSUME ServerTyped, Prepared, [ServerOpenNext]_<<wire, serverVars>> PROVE Started
  OBVIOUS
<1>1. ASSUME server_unit' = server_unit PROVE Started
  BY <1>1 DEF Started
<1>2. ASSUME NEW c \in Conns, Triggered(c) PROVE Started
  <2>1. \A p \in Payloads : server_unit[p] # "armed" /\ server_unit'[p] = "armed" =>
            p \in schedule_units
    BY <1>2 DEF Triggered, Arm
  <2> QED
    BY <2>1 DEF Started, Prepared, JobsBacked, LiveOfOneCapcon
<1>3. ASSUME NEW p \in Payloads, ServerMexec(p) \/ ServerPayloadEnds(p) PROVE Started
  BY <1>3 DEF Started, ServerMexec, ServerPayloadEnds, Fire, Finish, ServerTyped, ServerTypeOK
<1>4. CASE UNCHANGED <<wire, serverVars>>
  BY <1>1, <1>4 DEF serverVars
<1>5. ASSUME NEW c \in Conns,
             \/ OnClientHello(c) \/ OnRequestUpload(c) \/ OnRequestUploadUnsaved(c)
             \/ OnRequestCapcon(c) \/ OnRequestCapconUnparsed(c) \/ OnAckCapcon(c)
             \/ OnUnknown(c) \/ OnMalformed(c) \/ OnDisconnect(c)
             \/ Delivered(c) \/ SendRaises(c) \/ PeerActs(c) \/ ServerStopsWhileSaving(c)
      PROVE  Started
  BY <1>1, <1>5 DEF OnClientHello, OnRequestCapcon, OnRequestUpload, OnRequestUploadUnsaved,
        OnAckCapcon, OnUnknown, OnMalformed, OnRequestCapconUnparsed, OnDisconnect,
        Delivered, SendRaises, PeerActs, PeerConnects, Accept, PeerSends, PeerCloses, ServerStopsWhileSaving, serverVars
<1>6. CASE ServerStops \/ ServerStarts
  BY <1>1, <1>6 DEF ServerStops, ServerStarts
<1> QED
  BY <1>2, <1>3, <1>4, <1>5, <1>6 DEF ServerOpenNext, ServerHandles, ServerRunsPayloads

(* Only units of the stored CapCon whose configuration is on disk start.   *)
THEOREM OnlyPreparedStart == ServerSpec => StartsOnlyPrepared
<1>1. ServerTyped /\ Prepared /\ [ServerOpenNext]_<<wire, serverVars>> => [Started]_<<wire, serverVars>>
  BY StartedStep
<1>2. ServerSpec => [][Started]_<<wire, serverVars>>
  BY <1>1, ServerPrepared, PTL DEF ServerSpec
<1> QED
  BY <1>2 DEF StartsOnlyPrepared, Started
=============================================================================
