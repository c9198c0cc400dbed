---------------------------- MODULE MotraServer ----------------------------
(***************************************************************************)
(* The measurement server: one coroutine of websocket_endpoint per         *)
(* connection, all of them sharing the singleton MotraServerConfig, the    *)
(* server's live workspace and its archive.                                *)
(*                                                                         *)
(* Coroutines switch only at an await, so what a handler does from one     *)
(* await to the next is one action.  Two handlers have work left after     *)
(* their reply is sent, and another connection may be served in between:   *)
(*   "delivering"  CAPCON is sent, pop_test() is still to come;            *)
(*   "triggering"  EXECUTE_CAPCON is sent, the units are still to start.   *)
(***************************************************************************)
EXTENDS MotraWire

CONSTANT PeerUploads   \* uploads an arbitrary peer may try (ServerSpec only)
ASSUME PeerAssumption == PeerUploads \subseteq [name : Tests, body : SUBSET File]

VARIABLES
    server_up,
    test_queue, capture_jobs, schedule_units, last_capcon,  \* MotraServerConfig
    server_live, server_archive,                            \* workspaces
    server_unit,                                            \* systemd on the server
    handler                                                 \* one per connection

config      == <<test_queue, capture_jobs, schedule_units, last_capcon>>
serverVars  == <<server_up, config, server_live, server_archive, server_unit, handler>>

(* The archive directory holds the clients' uploads ({CapConID}.zip) and   *)
(* the server's own archives ({last_capcon}_server.zip).                   *)
ArchiveName == [side : {"client", "server"}, id : TestId]
Uploaded(t)  == [side |-> "client", id |-> t]
BadServerZip(t) == [side |-> "server", id |-> NoTest]   \* one name for all
ServerZip(t) == [side |-> "server", id |-> t]

HandlerState == {"off", "receiving", "delivering", "triggering"}

ServerTypeOK ==
    /\ server_up \in BOOLEAN
    /\ test_queue \in Seq(Tests)
    /\ capture_jobs \subseteq Payloads
    /\ schedule_units \subseteq Payloads
    /\ last_capcon \in TestId
    /\ server_live \subseteq File
    /\ server_archive \in [ArchiveName -> Archive]
    /\ server_unit \in [Payloads -> UnitState]
    /\ handler \in [Conns -> HandlerState]

(* scan_tests: the order is the one glob() yields *)
TestOrders ==
    {q \in [1..Cardinality(Tests) -> Tests] :
        \A i, j \in 1..Cardinality(Tests) : i # j => q[i] # q[j]}

ServerInit ==
    /\ server_up = TRUE
    /\ test_queue \in TestOrders
    /\ capture_jobs = {} /\ schedule_units = {} /\ last_capcon = NoTest
    /\ server_live = {}
    /\ server_archive = [n \in ArchiveName |-> NoZip]
    /\ server_unit = [p \in Payloads |-> "none"]
    /\ handler = [c \in Conns |-> "off"]

-----------------------------------------------------------------------------
(* Connections *)

HandlerBecomes(c, s) == handler' = [handler EXCEPT ![c] = s]

(* websocket.accept() *)
Accept(c) ==
    /\ server_up /\ handler[c] = "off"
    /\ HandlerBecomes(c, "receiving")
    /\ UNCHANGED <<server_up, config, server_live, server_archive, server_unit>>

(* receive_json returns a frame of this type *)
Waiting(c, type) ==
    /\ handler[c] = "receiving"
    /\ to_server[c] # <<>>
    /\ Head(to_server[c]).type = type

Receives(c, type) == Waiting(c, type) /\ to_server' = Drop(to_server, c)

Replies(c, m) == to_client' = SendTo(to_client, c, m)

(* The coroutine ends, by break or by an exception: the socket is closed. *)
HandlerEnds(c) ==
    /\ HandlerBecomes(c, "off")
    /\ link' = Close(link, c)

(* WebSocketDisconnect while waiting for the next frame *)
OnDisconnect(c) ==
    /\ handler[c] = "receiving" /\ link[c] = "closed" /\ to_server[c] = <<>>
    /\ HandlerBecomes(c, "off")
    /\ UNCHANGED <<wire, server_up, config, server_live, server_archive, server_unit>>

-----------------------------------------------------------------------------
(* CLIENT_HELLO: archive what the last capture left, then clean up *)

ArchiveLive(archive) ==
    [archive EXCEPT ![ServerZip(last_capcon)] = Zipped(CollectLogs(server_live, capture_jobs))]

(* "we need to clean the config to keep the server active" *)
BadCleanLive == UNCHANGED server_live
CleanLive == server_live' = {}

(* "remove all old systemd configurations" *)
BadForgetUnits == UNCHANGED schedule_units
ForgetUnits == schedule_units' = {}

OnClientHello(c) ==
    /\ Receives(c, "CLIENT_HELLO")
    /\ IF server_live # {}
       THEN /\ server_archive' = ArchiveLive(server_archive)
            /\ capture_jobs' = {}
       ELSE UNCHANGED <<server_archive, capture_jobs>>
    /\ CleanLive
    /\ ForgetUnits
    /\ Replies(c, Msg("SERVER_HELLO", NoTest))
    /\ UNCHANGED <<link, server_up, test_queue, last_capcon, server_unit, handler>>

-----------------------------------------------------------------------------
(* REQUEST_UPLOAD: handle_file_payload refuses an existing file and        *)
(* swallows every error; UPLOAD_COMPLETE is sent in any case.              *)

BadSaveFile(archive, name, body) == [archive EXCEPT ![name] = Zip(body)]
BadSaveEmpty(archive, name, body) ==
    IF archive[name].there THEN archive ELSE [archive EXCEPT ![name] = Zip({})]
SaveFile(archive, name, body) ==
    IF archive[name].there THEN archive ELSE [archive EXCEPT ![name] = Zip(body)]

OnRequestUpload(c) ==
    /\ Receives(c, "REQUEST_UPLOAD")
    /\ LET m == Head(to_server[c]) IN
        /\ server_archive' = SaveFile(server_archive, Uploaded(m.id), m.body)
        /\ Replies(c, Msg("UPLOAD_COMPLETE", m.id))
    /\ UNCHANGED <<link, server_up, config, server_live, server_unit, handler>>

(* The same with the write failing (a full disk, say) *)
OnRequestUploadUnsaved(c) ==
    /\ Receives(c, "REQUEST_UPLOAD")
    /\ Replies(c, Msg("UPLOAD_COMPLETE", Head(to_server[c]).id))
    /\ UNCHANGED <<link, serverVars>>

-----------------------------------------------------------------------------
(* REQUEST_CAPCON: peek at the queue, store the CapCon and its server      *)
(* payloads, send it, and only then pop the queue.                         *)

(* The await of the send suspends the handler; on a socket that is known   *)
(* to be closed it raises at once.                                         *)
AwaitsSend(c, s) ==
    \/ HandlerBecomes(c, s)
    \/ link[c] = "closed" /\ HandlerBecomes(c, "off")

PendingTest == IF test_queue = <<>> THEN NoTest ELSE Head(test_queue)

(* Where there is no capcon.json there is no {payload_id}.json either      *)
(* (LiveOfOneCapcon), so write_payload_to_file never refuses here.         *)
SendNothing(c) ==
    /\ PendingTest = NoTest
    /\ Replies(c, Msg("CAPCON", NoTest))
    /\ AwaitsSend(c, "delivering")
    /\ UNCHANGED <<link, server_live, capture_jobs, schedule_units>>

(* One timer per payload with "server" among its targets *)
BadPrepareUnits(units, t) == units \cup ClientJobs[t]
PrepareUnits(units, t) == units \cup ServerJobs[t]

SendPending(c) ==
    /\ PendingTest # NoTest /\ MayStore(server_live)
    /\ server_live' = StoreCapcon(server_live, PendingTest, ServerJobs[PendingTest])
    /\ capture_jobs' = capture_jobs \cup ServerJobs[PendingTest]
    /\ schedule_units' = PrepareUnits(schedule_units, PendingTest)
    /\ Replies(c, Msg("CAPCON", PendingTest))
    /\ AwaitsSend(c, "delivering")
    /\ UNCHANGED link

RefusePending(c) ==
    /\ PendingTest # NoTest /\ ~MayStore(server_live)
    /\ HandlerEnds(c)
    /\ UNCHANGED <<to_client, server_live, capture_jobs, schedule_units>>

OnRequestCapcon(c) ==
    /\ Receives(c, "REQUEST_CAPCON")
    /\ last_capcon' = PendingTest
    /\ SendNothing(c) \/ SendPending(c) \/ RefusePending(c)
    /\ UNCHANGED <<server_up, test_queue, server_archive, server_unit>>

(* parse_CAPCON raises, as the file of the pending test is no CapCon, or   *)
(* returns None, as it is gone: scan_tests has asked for nothing but JSON  *)
(* with a CapConID.  The test stays at the head of the queue.              *)
OnRequestCapconUnparsed(c) ==
    /\ Receives(c, "REQUEST_CAPCON")
    /\ PendingTest # NoTest
    /\ HandlerEnds(c)
    /\ UNCHANGED <<to_client, server_up, config, server_live, server_archive, server_unit>>

BadPopTest(queue) == IF queue = <<>> THEN <<NoTest>> ELSE Tail(queue)
BadPopNothing(queue) == queue
PopTest(queue) == IF queue = <<>> THEN queue ELSE Tail(queue)

(* The await of the reply returns and pop_test runs *)
Delivered(c) ==
    /\ handler[c] = "delivering"
    /\ test_queue' = PopTest(test_queue)
    /\ HandlerBecomes(c, "receiving")
    /\ UNCHANGED <<wire, server_up, capture_jobs, schedule_units, last_capcon,
                   server_live, server_archive, server_unit>>

(* The await of a reply raises WebSocketDisconnect: the frame never gets   *)
(* to the peer, the rest of the handler is skipped.                        *)
SendRaises(c) ==
    /\ handler[c] \in {"delivering", "triggering"}
    /\ link[c] = "closed" /\ to_client[c] # <<>>
    /\ to_client' = Empty(to_client, c)
    /\ HandlerBecomes(c, "off")
    /\ UNCHANGED <<link, to_server, server_up, config, server_live, server_archive,
                   server_unit>>

-----------------------------------------------------------------------------
(* ACK_CAPCON: send the trigger, start the prepared units, hang up *)

(* The trigger is for the CapCon that this client acknowledged, whatever   *)
(* another connection asked for in between.                                *)
BadTriggerFor(m) == Msg("EXECUTE_CAPCON", last_capcon)
TriggerFor(m) == Msg("EXECUTE_CAPCON", m.id)

OnAckCapcon(c) ==
    /\ Receives(c, "ACK_CAPCON")
    /\ Replies(c, TriggerFor(Head(to_server[c])))
    /\ AwaitsSend(c, "triggering")
    /\ UNCHANGED <<link, server_up, config, server_live, server_archive, server_unit>>

Triggered(c) ==
    /\ handler[c] = "triggering"
    /\ server_unit' = Arm(server_unit, schedule_units)
    /\ schedule_units' = {}
    /\ HandlerEnds(c)
    /\ UNCHANGED <<to_server, to_client, server_up, test_queue, capture_jobs,
                   last_capcon, server_live, server_archive>>

-----------------------------------------------------------------------------
(* Frames that fail validation close the socket; an unknown message_type   *)
(* is answered first, and the loop then fails on the closed socket.        *)

OnMalformed(c) ==
    /\ Receives(c, "MALFORMED")
    /\ HandlerEnds(c)
    /\ UNCHANGED <<to_client, server_up, config, server_live, server_archive, server_unit>>

OnUnknown(c) ==
    /\ Receives(c, "UNKNOWN")
    /\ Replies(c, Msg("INVALID_DATA", NoTest))
    /\ HandlerEnds(c)
    /\ UNCHANGED <<server_up, config, server_live, server_archive, server_unit>>

-----------------------------------------------------------------------------
(* Payloads started by systemd on the server machine *)

ServerMexec(p) ==
    /\ server_unit[p] = "armed"
    /\ server_unit' = Fire(server_unit, p, server_live)
    /\ UNCHANGED <<wire, server_up, config, server_live, server_archive, handler>>

(* The payload writes its result into its working directory, the live      *)
(* workspace of the moment.                                                *)
ServerPayloadEnds(p) ==
    /\ server_unit[p] = "running"
    /\ server_unit' = Finish(server_unit, p)
    /\ server_live' = server_live \cup {OutFile(p)}
    /\ UNCHANGED <<wire, server_up, config, server_archive, handler>>

-----------------------------------------------------------------------------
(* The server process stops and comes back.  Its workspaces and the        *)
(* systemd timers survive, MotraServerConfig and the sockets do not.       *)

ProcessGone ==
    /\ server_up' = FALSE
    /\ handler' = [c \in Conns |-> "off"]
    /\ link' = [c \in Conns |-> "closed"]
    /\ to_server' = [c \in Conns |-> <<>>]

ServerStops ==
    /\ server_up
    /\ ProcessGone
    /\ UNCHANGED <<to_client, config, server_live, server_archive, server_unit>>

(* It stops between the open() and the write() of an upload: the file is   *)
(* there and holds nothing.                                                *)
ServerStopsWhileSaving(c) ==
    /\ Waiting(c, "REQUEST_UPLOAD")
    /\ LET name == Uploaded(Head(to_server[c]).id)
       IN  server_archive' = SaveFile(server_archive, name, {})
    /\ ProcessGone
    /\ UNCHANGED <<to_client, config, server_live, server_unit>>

ServerStarts ==
    /\ ~server_up
    /\ server_up' = TRUE
    /\ \E q \in TestOrders : test_queue' = q
    /\ capture_jobs' = {} /\ schedule_units' = {} /\ last_capcon' = NoTest
    /\ UNCHANGED <<wire, server_live, server_archive, server_unit, handler>>

(* The process is killed in the middle of a handler (composed system only, *)
(* as LiveOfOneCapcon does not survive it): while the journals are         *)
(* collected, or with a part of them in the zip that create_archive writes *)
(* under its final name                                                    *)
ServerKilledArchiving(c) ==
    /\ Waiting(c, "CLIENT_HELLO") /\ server_live # {}
    /\ \/ /\ \E jobs \in SUBSET capture_jobs : server_live' = CollectLogs(server_live, jobs)
          /\ UNCHANGED server_archive
       \/ /\ server_live' = CollectLogs(server_live, capture_jobs)
          /\ \E part \in SUBSET Archivable(server_live') :
                server_archive' = [server_archive EXCEPT ![ServerZip(last_capcon)] = Zip(part)]
    /\ ProcessGone
    /\ UNCHANGED <<to_client, config, server_unit>>

(* While clean_workspace unlinks file after file, in any order *)
ServerKilledCleaning(c) ==
    /\ Waiting(c, "CLIENT_HELLO") /\ server_live # {}
    /\ server_archive' = ArchiveLive(server_archive)
    /\ server_live' \in SUBSET CollectLogs(server_live, capture_jobs)
    /\ ProcessGone
    /\ UNCHANGED <<to_client, config, server_unit>>

(* After the ID file, after capcon.json, or between two payload files *)
ServerKilledStoring(c) ==
    /\ Waiting(c, "REQUEST_CAPCON")
    /\ PendingTest # NoTest /\ MayStore(server_live)
    /\ \/ server_live' = server_live \cup {IdFile(PendingTest)}
       \/ \E jobs \in SUBSET ServerJobs[PendingTest] :
            server_live' = StoreCapcon(server_live, PendingTest, jobs)
    /\ ProcessGone
    /\ UNCHANGED <<to_client, config, server_archive, server_unit>>

(* Between two systemd-run calls *)
ServerKilledTriggering(c) ==
    /\ handler[c] = "triggering"
    /\ \E jobs \in SUBSET schedule_units : server_unit' = Arm(server_unit, jobs)
    /\ ProcessGone
    /\ UNCHANGED <<to_client, config, server_live, server_archive>>

ServerKilled(c) ==
    \/ ServerStopsWhileSaving(c)
    \/ ServerKilledArchiving(c) \/ ServerKilledCleaning(c)
    \/ ServerKilledStoring(c) \/ ServerKilledTriggering(c)

ServerHandles(c) ==
    \/ OnClientHello(c) \/ OnRequestUpload(c) \/ OnRequestCapcon(c) \/ OnAckCapcon(c)
    \/ OnUnknown(c) \/ OnMalformed(c) \/ OnDisconnect(c)
    \/ Delivered(c) \/ Triggered(c) \/ SendRaises(c)

ServerRunsPayloads == \E p \in Payloads : ServerMexec(p) \/ ServerPayloadEnds(p)

-----------------------------------------------------------------------------
(* The server among arbitrary peers: anyone may connect, send any request  *)
(* in any order, and hang up at any time.                                  *)

PeerConnects(c) ==
    /\ link[c] = "closed"
    /\ Accept(c)
    /\ link' = [link EXCEPT ![c] = "open"]
    /\ to_server' = Empty(to_server, c)
    /\ to_client' = Empty(to_client, c)

PeerMessages ==
    {Msg(type, NoTest) : type \in {"CLIENT_HELLO", "REQUEST_CAPCON", "UNKNOWN", "MALFORMED"}}
        \cup {Msg("ACK_CAPCON", t) : t \in Tests}
        \cup {Upload(u.name, u.body) : u \in PeerUploads}

(* A frame changes nothing before the server reads it, and the server      *)
(* never looks at what it has sent: so it is enough to let the peers send  *)
(* one frame at a time, with all replies read by then, for every order in  *)
(* which the server can find their frames.                                 *)
PeerSends(c) ==
    /\ link[c] = "open"
    /\ \A d \in Conns : to_server[d] = <<>>
    /\ \E m \in PeerMessages : to_server' = Post(to_server, c, m)
    /\ to_client' = [d \in Conns |-> <<>>]
    /\ UNCHANGED <<link, serverVars>>

PeerCloses(c) ==
    /\ link[c] = "open"
    /\ link' = Close(link, c)
    /\ UNCHANGED <<to_server, to_client, serverVars>>

PeerActs(c) == PeerConnects(c) \/ PeerSends(c) \/ PeerCloses(c)

ServerOpenInit == WireInit /\ ServerInit

ServerOpenNext ==
    \/ \E c \in Conns : ServerHandles(c) \/ PeerActs(c)
    \/ \E c \in Conns : OnRequestUploadUnsaved(c) \/ OnRequestCapconUnparsed(c)
    \/ \E c \in Conns : ServerStopsWhileSaving(c)
    \/ ServerRunsPayloads
    \/ ServerStops \/ ServerStarts

ServerSpec == ServerOpenInit /\ [][ServerOpenNext]_<<wire, serverVars>>
-----------------------------------------------------------------------------
(* Properties of the server among arbitrary peers.                         *)

(* capcon.json is a mutex between requesters: while it is in the live      *)
(* workspace, the ID file and every payload configuration there belong to  *)
(* its CapCon (REQUEST_CAPCON stores nothing next to a capcon.json, and    *)
(* CLIENT_HELLO removes everything at once).                               *)
LiveOfOneCapcon ==
    /\ \A s, t \in Tests :
        CapconFile(s) \in server_live /\ CapconFile(t) \in server_live => s = t
    /\ \A t \in Tests : IdFile(t) \in server_live => CapconFile(t) \in server_live
    /\ \A p \in Payloads : JobFile(p) \in server_live =>
        \E t \in Tests : CapconFile(t) \in server_live /\ p \in ServerJobs[t]

(* Every payload the server remembers, as a job whose log it will collect  *)
(* or as a unit it will start, still has its configuration on disk: a      *)
(* CLIENT_HELLO on one connection never strands what a REQUEST_CAPCON on   *)
(* another has prepared.                                                   *)
JobsBacked ==
    \A p \in capture_jobs \cup schedule_units : JobFile(p) \in server_live

(* What lies in the live workspace is only removed into an archive, with   *)
(* the logs of the jobs the server then forgets: a file or a job vanishes  *)
(* only in a step after which some archive holds it (CLIENT_HELLO archives *)
(* before it cleans; a process restart forgets jobs, never files).  All    *)
(* that can be lost is an output that create_archive cannot read.          *)
NothingDropped ==
    [][/\ \A f \in Archivable(server_live) \ server_live' :
            \E n \in ArchiveName : f \in server_archive'[n].files
       /\ server_up => \A p \in capture_jobs \ capture_jobs' :
            \E n \in ArchiveName : LogFile(p) \in server_archive'[n].files
      ]_<<wire, serverVars>>

(* A capture that a client uploaded is never overwritten, whoever uploads  *)
(* under the same name, and whatever the server archives itself.           *)
UploadsKept ==
    [][\A t \in Tests : server_archive[Uploaded(t)].there =>
            server_archive'[Uploaded(t)] = server_archive[Uploaded(t)]
      ]_<<wire, serverVars>>

(* No unit is started whose mexec process would not find its configuration *)
(* at that moment, and only units of the stored CapCon are started.        *)
StartsOnlyPrepared ==
    [][\A p \in Payloads : server_unit[p] # "armed" /\ server_unit'[p] = "armed" =>
            \E t \in Tests : /\ CapconFile(t) \in server_live
                             /\ p \in ServerJobs[t]
                             /\ JobFile(p) \in server_live
      ]_<<wire, serverVars>>
=============================================================================
