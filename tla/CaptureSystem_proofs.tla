------------------------ MODULE CaptureSystem_proofs ------------------------
(***************************************************************************)
(* Proofs about client and server together, for any CapCons, payloads,     *)
(* connections and faults.  Most of what a step does is known from the     *)
(* proofs about each side; what is new is the dialogue between them, and   *)
(* who may still start a capture.                                          *)
(***************************************************************************)
EXTENDS CaptureSystem, MotraServer_proofs, MotraClient_proofs

SystemTyped ==
    /\ ServerTyped /\ ClientTyped
    /\ faults \in [FaultKind -> Nat]
    /\ executed \in [Tests -> 0..MostExecutions]
    /\ oversized \subseteq MayExceed /\ unparsable \subseteq MayNotParse

-----------------------------------------------------------------------------
(* Types *)

(* A step of one side leaves the other's variables alone, and the queues   *)
(* typed for both.                                                         *)
LEMMA ServerSideType ==
    ASSUME ClientTyped, ServerTyped', UNCHANGED clientVars
    PROVE  ClientTyped'
BY DEF ServerTyped, ClientTyped, WireTypeOK, ClientTypeOK, Connected,
       clientVars, process, backoff, clientDisk, timers

LEMMA ClientSideType ==
    ASSUME ServerTyped, ClientTyped', UNCHANGED serverVars
    PROVE  ServerTyped'
BY DEF ServerTyped, ClientTyped, WireTypeOK, ServerTypeOK, serverVars, config

LEMMA HandlesType == ASSUME ServerTyped, NEW c \in Conns, ServerHandles(c) PROVE ServerTyped'
BY ServerTypedStep DEF ServerOpenNext

LEMMA RefusedType == ASSUME ServerTyped, NEW c \in Conns, FrameRefused(c) PROVE ServerTyped'
<1>1. Receives(c, "REQUEST_UPLOAD")
  BY DEF FrameRefused, TooLarge, Receives
<1> QED
  BY <1>1, ReceiveType, EndsType DEF FrameRefused, ServerTyped, WireTypeOK, ServerTypeOK, config

LEMMA UnparsedType ==
    ASSUME ServerTyped, NEW c \in Conns, OnRequestCapconUnparsed(c)
    PROVE  ServerTyped'
BY ServerTypedStep DEF ServerOpenNext

LEMMA KilledType == ASSUME ServerTyped, NEW c \in Conns, ServerKilled(c) PROVE ServerTyped'
<1>1. CASE ServerStopsWhileSaving(c)
  BY <1>1, ServerTypedStep DEF ServerOpenNext
<1>2. CASE ServerKilledArchiving(c) \/ ServerKilledCleaning(c)
  <2>1. \A jobs \in SUBSET capture_jobs : CollectLogs(server_live, jobs) \in SUBSET File
    BY StoreType DEF ServerTyped, ServerTypeOK
  <2>2. server_live' \subseteq File
    BY <1>2, <2>1 DEF ServerKilledArchiving, ServerKilledCleaning
  <2>3. \A part \in SUBSET File :
          [server_archive EXCEPT ![ServerZip(last_capcon)] = Zip(part)] \in [ArchiveName -> Archive]
    BY DEF ServerTyped, ServerTypeOK, Zip, Archive
  <2>4. server_archive' \in [ArchiveName -> Archive]
    BY <1>2, <2>1, <2>2, <2>3
       DEF ServerKilledArchiving, ServerKilledCleaning, ArchiveLive, Zipped, Archivable,
           ServerTyped, ServerTypeOK
  <2> QED
    BY <1>2, <2>2, <2>4, ServerGoneType
       DEF ServerKilledArchiving, ServerKilledCleaning, ServerTyped, WireTypeOK, ServerTypeOK, config
<1>3. CASE ServerKilledStoring(c)
  <2>1. PendingTest \in Tests
    BY <1>3 DEF ServerKilledStoring, PendingTest, ServerTyped, ServerTypeOK
  <2>2. \A jobs \in SUBSET ServerJobs[PendingTest] :
          StoreCapcon(server_live, PendingTest, jobs) \in SUBSET File
    BY <2>1, StoreType, WireAssumption DEF ServerTyped, ServerTypeOK
  <2>3. server_live' \subseteq File
    BY <1>3, <2>1, <2>2, FilesType DEF ServerKilledStoring, ServerTyped, ServerTypeOK
  <2> QED
    BY <1>3, <2>3, ServerGoneType
       DEF ServerKilledStoring, ServerTyped, WireTypeOK, ServerTypeOK, config
<1>4. CASE ServerKilledTriggering(c)
  BY <1>4, ServerGoneType
     DEF ServerKilledTriggering, Arm, UnitState, ServerTyped, WireTypeOK, ServerTypeOK, config
<1> QED
  BY <1>1, <1>2, <1>3, <1>4 DEF ServerKilled

(* The history variables are counters. *)
LEMMA CountType ==
    ASSUME SystemTyped, current \in Tests \/ ~restart_timer' \/ restart_timer, CountExecution
    PROVE  executed' \in [Tests -> 0..MostExecutions]
<1>1. MostExecutions \in Nat
  BY SystemAssumption DEF MostExecutions
<1> QED
  BY <1>1 DEF SystemTyped, CountExecution, Count

LEMMA FaultType ==
    ASSUME SystemTyped, NEW kind \in FaultKind, Fault(kind)
    PROVE  /\ faults' \in [FaultKind -> Nat]
           /\ faults'[kind] = faults[kind] + 1
           /\ \A k \in FaultKind \ {kind} : faults'[k] = faults[k]
BY DEF SystemTyped, Fault

(* Only obeying a trigger starts the timer of the client, and ends its     *)
(* process.                                                                *)
LEMMA OnlyExecutionArms ==
    ASSUME ClientHandles \/ ClientCrashes, restart_timer', ~restart_timer
    PROVE  /\ HandleExecute \/ KilledExecuting
           /\ Handles("offline_testing") /\ Received.id = current
           /\ Gone("off") /\ UNCHANGED client_live
<1>1. ~(UNCHANGED timers)
  BY DEF timers
<1>2. HandleExecute \/ KilledExecuting
  BY <1>1 DEF ClientHandles, HandleServerHello, CheckFilesForUpload, CheckFilesRaises,
              HandleUploadComplete, HandleCapcon, HandleLastCapcon, HandleCapconRaises,
              HandleExecuteMismatch, BadReply, ConnectionLost, Dies, ClientCrashes,
              ClientKilled, KilledArchiving, KilledCleaning, KilledStoring
<1> QED
  BY <1>2 DEF HandleExecute, KilledExecuting, clientDisk

LEMMA CountedType ==
    ASSUME SystemTyped, ClientHandles \/ ClientCrashes, CountExecution
    PROVE  executed' \in [Tests -> 0..MostExecutions]
<1>1. CASE restart_timer' /\ ~restart_timer
  <2>1. current \in Tests
    BY <1>1, OnlyExecutionArms DEF Handles, SystemTyped, ClientTyped, Connected
  <2> QED
    BY <2>1, CountType
<1>2. CASE ~(restart_timer' /\ ~restart_timer)
  BY <1>2, CountType
<1> QED
  BY <1>1, <1>2

LEMMA SystemTypedInit == SystemInit => SystemTyped
<1> SUFFICES ASSUME SystemInit PROVE SystemTyped
  OBVIOUS
<1>1. ServerTyped
  BY ServerTypedInit DEF SystemInit, ServerOpenInit
<1>2. ClientTyped
  BY ClientTypedInit DEF SystemInit, ClientOpenInit
<1>3. MostExecutions \in Nat
  BY SystemAssumption DEF MostExecutions
<1> QED
  BY <1>1, <1>2, <1>3 DEF SystemInit, SystemTyped

LEMMA ClientMovesType ==
    ASSUME SystemTyped, Restart \/ OperatorStart \/ CannotConnect \/ ClientPayloads
    PROVE  SystemTyped'
<1>1. [ClientOpenNext]_<<wire, clientVars>> /\ UNCHANGED <<serverVars, history>>
  BY DEF Restart, OperatorStart, CannotConnect, ClientPayloads, ClientOpenNext
<1>2. ClientTyped'
  BY <1>1, ClientTypedStep DEF SystemTyped
<1> QED
  BY <1>1, <1>2, ClientSideType DEF SystemTyped, history

LEMMA ServerMovesType ==
    ASSUME SystemTyped, ServerPayloads \/ ServerComesUp \/ \E c \in Conns : ServerStep(c)
    PROVE  SystemTyped'
<1>1. UNCHANGED <<clientVars, history>>
  BY DEF ServerPayloads, ServerComesUp, ServerStep
<1>2. ServerTyped'
  <2>1. CASE ServerPayloads \/ ServerComesUp
    BY <2>1, ServerTypedStep DEF SystemTyped, ServerPayloads, ServerComesUp, ServerOpenNext
  <2>2. ASSUME NEW c \in Conns, ServerStep(c) PROVE ServerTyped'
    BY <2>2, HandlesType, RefusedType, UnparsedType DEF SystemTyped, ServerStep
  <2> QED
    BY <2>1, <2>2
<1> QED
  BY <1>1, <1>2, ServerSideType DEF SystemTyped, history

LEMMA ConnectType ==
    ASSUME SystemTyped, NEW c \in Conns, Connect(c)
    PROVE  SystemTyped'
<1>1. ClientTyped'
  BY ClientTypedStep DEF SystemTyped, Connect, ClientOpenNext
<1>2. ServerTyped'
  BY <1>1 DEF SystemTyped, Connect, Accept, HandlerBecomes, HandlerState,
              ServerTyped, ClientTyped, WireTypeOK, ServerTypeOK, config
<1> QED
  BY <1>1, <1>2 DEF SystemTyped, Connect, history

LEMMA FaultsType == ASSUME SystemTyped, AnyFault PROVE SystemTyped'
<1>1. ASSUME ClientFault \/ TornFault PROVE SystemTyped'
  <2>1. faults' \in [FaultKind -> Nat]
    BY <1>1, FaultType DEF ClientFault, TornFault, FaultKind
  <2>2. ClientTyped'
    BY <1>1, ClientTypedStep DEF SystemTyped, ClientFault, TornFault, ClientOpenNext
  <2>3. UNCHANGED serverVars
    BY <1>1 DEF ClientFault, TornFault
  <2>4. executed' \in [Tests -> 0..MostExecutions]
    BY <1>1, CountedType DEF ClientFault, TornFault, SystemTyped
  <2> QED
    BY <1>1, <2>1, <2>2, <2>3, <2>4, ClientSideType DEF SystemTyped, ClientFault, TornFault
<1>2. ASSUME ServerFault PROVE SystemTyped'
  <2>1. faults' \in [FaultKind -> Nat] /\ UNCHANGED <<clientVars, executed, oversized, unparsable>>
    BY <1>2, FaultType DEF ServerFault, FaultKind
  <2>2. ServerTyped'
    <3>1. CASE ServerStops
      BY <3>1, ServerTypedStep DEF SystemTyped, ServerOpenNext
    <3>2. CASE \E c \in Conns : ServerKilled(c)
      BY <3>2, KilledType DEF SystemTyped
    <3> QED
      BY <1>2, <3>1, <3>2 DEF ServerFault
  <2> QED
    BY <2>1, <2>2, ServerSideType DEF SystemTyped
<1>3. ASSUME NEW c \in Conns, LinkFault(c) PROVE SystemTyped'
  <2>1. faults' \in [FaultKind -> Nat] /\ UNCHANGED <<serverVars, clientVars, executed, oversized, unparsable>>
    BY <1>3, FaultType DEF LinkFault, FaultKind
  <2>2. WireTypeOK'
    <3>1. \A T : \A queue \in [Conns -> Seq(Message(T))] :
                Empty(queue, c) \in [Conns -> Seq(Message(T))]
      BY DEF Empty
    <3>2. link' \in [Conns -> {"open", "closed"}]
      BY <1>3 DEF LinkFault, Close, SystemTyped, ServerTyped, WireTypeOK
    <3> QED
      BY <1>3, <3>1, <3>2 DEF LinkFault, SystemTyped, ServerTyped, WireTypeOK
  <2>3. ServerTyped'
    BY <2>1, <2>2 DEF SystemTyped, ServerTyped, ServerTypeOK, serverVars, config
  <2> QED
    BY <2>1, <2>3, ServerSideType DEF SystemTyped
<1>4. ASSUME NEW c \in Conns, SaveFault(c) PROVE SystemTyped'
  <2>1. faults' \in [FaultKind -> Nat] /\ UNCHANGED <<clientVars, executed, oversized, unparsable>>
    BY <1>4, FaultType DEF SaveFault, FaultKind
  <2>2. ServerTyped'
    BY <1>4, ServerTypedStep DEF SystemTyped, SaveFault, ServerOpenNext
  <2> QED
    BY <2>1, <2>2, ServerSideType DEF SystemTyped
<1> QED
  BY <1>1, <1>2, <1>3, <1>4 DEF AnyFault

LEMMA SystemTypedStep == SystemTyped /\ [SystemNext]_systemVars => SystemTyped'
<1> SUFFICES ASSUME SystemTyped, [SystemNext]_systemVars PROVE SystemTyped'
  OBVIOUS
<1>1. CASE UNCHANGED systemVars
  <2>1. ServerTyped'
    BY <1>1, ServerTypedStep DEF SystemTyped, systemVars
  <2> QED
    BY <1>1, <2>1, ServerSideType DEF SystemTyped, systemVars
<1>2. CASE ClientStep
  <2>1. ClientTyped'
    BY <1>2, ClientTypedStep DEF SystemTyped, ClientStep, ClientOpenNext
  <2>2. executed' \in [Tests -> 0..MostExecutions]
    BY <1>2, CountedType DEF ClientStep
  <2> QED
    BY <1>2, <2>1, <2>2, ClientSideType DEF SystemTyped, ClientStep
<1>3. CASE Done
  BY <1>1, <1>3 DEF Done
<1> QED
  BY <1>1, <1>2, <1>3, ClientMovesType, ServerMovesType, ConnectType, FaultsType DEF SystemNext

(* Whatever faults happen, both sides, the queues between them and the     *)
(* counters of the campaign always have their types.                       *)
THEOREM SystemTypes == SystemSpec => []SystemTypeOK
<1>1. SystemTyped => SystemTypeOK
  BY DEF SystemTyped, ServerTyped, ClientTyped, SystemTypeOK
<1> QED
  BY <1>1, SystemTypedInit, SystemTypedStep, PTL DEF SystemSpec
-----------------------------------------------------------------------------
(* Captures do not overlap.  While no timer of the client is set, no       *)
(* payload is at work there: the timer is set before the payloads are      *)
(* started, and it fires after they are over.                              *)

Apart == ~restart_timer => \A p \in Payloads \ Overruns : ~Busy(client_unit, p)

StepOfSystem == [SystemNext]_systemVars

(* What a step does to the timers of the client *)
LEMMA TimersMove ==
    ASSUME StepOfSystem
    PROVE  \/ restart_timer'
           \/ CaptureOver /\ UNCHANGED client_unit
           \/ UNCHANGED timers
           \/ ClientRunsPayloads /\ UNCHANGED restart_timer
<1>1. CASE \/ UNCHANGED systemVars \/ Done \/ ServerPayloads \/ ServerComesUp \/ ServerFault
           \/ \E c \in Conns : ServerStep(c) \/ LinkFault(c) \/ SaveFault(c)
  BY <1>1 DEF systemVars, Done, ServerPayloads, ServerComesUp, ServerFault, ServerStep,
              LinkFault, SaveFault, clientVars
<1>2. CASE Restart
  BY <1>2 DEF Restart, StartsByTimer
<1>3. CASE \/ OperatorStart \/ CannotConnect \/ TornFault \/ \E c \in Conns : Connect(c)
  BY <1>3 DEF OperatorStart, StartsByOperator, CannotConnect, ConnectFails, TornFault,
              KilledWriting, Connect, Connects
<1>4. CASE ClientPayloads
  <2>1. PICK p \in Payloads : ClientMexec(p) \/ ClientPayloadEnds(p)
    BY <1>4 DEF ClientPayloads, ClientRunsPayloads
  <2> QED
    BY <1>4, <2>1 DEF ClientPayloads, ClientMexec, ClientPayloadEnds
<1>5. CASE ClientStep \/ ClientFault
  <2>1. CASE HandleExecute \/ KilledExecuting
    BY <2>1 DEF HandleExecute, KilledExecuting, Execute, ArmsOwnTimer
  <2>2. CASE ~HandleExecute /\ ~KilledExecuting
    BY <1>5, <2>2
       DEF ClientStep, ClientFault, ClientHandles, HandleServerHello, CheckFilesForUpload,
           CheckFilesRaises, HandleUploadComplete, HandleCapcon, HandleLastCapcon,
           HandleCapconRaises, HandleExecuteMismatch, BadReply, ConnectionLost, Dies,
           ClientCrashes, ClientKilled, KilledArchiving, KilledCleaning, KilledStoring
  <2> QED
    BY <2>1, <2>2
<1> QED
  BY <1>1, <1>2, <1>3, <1>4, <1>5 DEF StepOfSystem, SystemNext, AnyFault

LEMMA ApartStep == SystemTyped /\ Apart /\ StepOfSystem => Apart'
<1> SUFFICES ASSUME SystemTyped, Apart, StepOfSystem, ~restart_timer', NEW p \in Payloads \ Overruns
             PROVE  ~Busy(client_unit', p)
  BY DEF Apart
<1>1. CASE CaptureOver /\ UNCHANGED client_unit
  BY <1>1 DEF CaptureOver
<1>2. CASE UNCHANGED timers
  BY <1>2 DEF timers, Apart
<1>3. CASE ClientRunsPayloads /\ UNCHANGED restart_timer
  <2>1. PICK q \in Payloads : ClientMexec(q) \/ ClientPayloadEnds(q)
    BY <1>3 DEF ClientRunsPayloads
  <2>2. ~Busy(client_unit, p)
    BY <1>3 DEF Apart
  <2>3. p # q
    BY <2>1, <2>2 DEF ClientMexec, ClientPayloadEnds, Busy
  <2>4. client_unit'[p] = client_unit[p]
    BY <2>1, <2>3 DEF ClientMexec, ClientPayloadEnds, Fire, Finish, SystemTyped, ClientTyped,
                      ClientTypeOK
  <2> QED
    BY <2>2, <2>4 DEF Busy
<1> QED
  BY <1>1, <1>2, <1>3, TimersMove

(* However often the client is killed, a link breaks or the server         *)
(* restarts, the client never starts a capture while a payload of an       *)
(* earlier one that keeps to its limits is armed or running there.         *)
THEOREM CapturesStayApart == SystemSpec => CapturesApart
<1>1. SystemInit => Apart
  BY DEF SystemInit, ClientInit, Apart, Busy
<1>2. Apart /\ StepOfSystem =>
        (restart_timer' /\ ~restart_timer => \A p \in Payloads \ Overruns : ~Busy(client_unit, p))
  BY DEF Apart
<1> QED
  BY <1>1, <1>2, ApartStep, SystemTypedInit, SystemTypedStep, PTL DEF SystemSpec, StepOfSystem, CapturesApart
-----------------------------------------------------------------------------
(* The dialogue on the connection of the client.  One question or its      *)
(* answer is under way, or nothing is, because it was lost or a handler    *)
(* is at work; a handler of an earlier connection disturbs none of this.   *)

Silent == to_server[conn] = <<>> /\ to_client[conn] = <<>>

Asking(type, ids) ==
    /\ to_client[conn] = <<>>
    /\ \E m \in Message(Request) : to_server[conn] = <<m>> /\ m.type = type /\ m.id \in ids

Answered(type, ids) ==
    /\ to_server[conn] = <<>>
    /\ \E m \in Message(Reply) : to_client[conn] = <<m>> /\ m.type = type /\ m.id \in ids

Exchange(question, answer, ids) == Silent \/ Asking(question, ids) \/ Answered(answer, ids)

Calm == handler[conn] \in {"receiving", "off"}

Away == client_state \in {"off", "finished", "disconnected"} <=> conn = NoConn

Greeting == client_state = "connecting" =>
    Calm /\ Exchange("CLIENT_HELLO", "SERVER_HELLO", TestId)

Greeted == client_state = "connected" => Calm /\ Silent

(* The staged archives are the pending ones and the one being uploaded. *)
Uploads == client_state = "upload_data_available" =>
    /\ Calm /\ MayStore(client_live)
    /\ \E t \in Tests : /\ Staged(staging) \subseteq pending_files \cup {t}
                        /\ Exchange("REQUEST_UPLOAD", "UPLOAD_COMPLETE", {t})

(* The handler may be "delivering" once it has read the request. *)
Preparing == client_state = "preparing_ready_for_test" =>
    /\ MayStore(client_live) /\ Staged(staging) = {}
    /\ handler[conn] # "triggering"
    /\ \/ Calm /\ Asking("REQUEST_CAPCON", TestId)
       \/ Silent \/ Answered("CAPCON", TestId)

(* It may still be when the client has acknowledged, but not once it has   *)
(* sent the trigger.                                                       *)
Offline == client_state = "offline_testing" =>
    \/ Silent
    \/ handler[conn] # "triggering" /\ Asking("ACK_CAPCON", {current})
    \/ handler[conn] # "delivering" /\ Answered("EXECUTE_CAPCON", {current})

Dialogue == Away /\ Greeting /\ Greeted /\ Uploads /\ Preparing /\ Offline

LEMMA Singleton ==
    ASSUME NEW m
    PROVE  /\ Head(<<m>>) = m /\ Tail(<<m>>) = <<>> /\ <<m>> # <<>>
           /\ Append(<<>>, m) = <<m>>
OBVIOUS

(* Losing frames and handlers never confuses the client. *)
LEMMA LossKeeps ==
    ASSUME Dialogue, UNCHANGED clientVars,
           to_server'[conn] \in {to_server[conn], <<>>},
           to_client'[conn] \in {to_client[conn], <<>>},
           \/ handler'[conn] \in {handler[conn], "off"}
           \/ handler[conn] = "delivering" /\ handler'[conn] = "receiving"
    PROVE  Dialogue'
<1> USE DEF clientVars, process, clientDisk, Silent, Asking, Answered, Exchange, Calm
<1>1. Away'
  BY DEF Dialogue, Away
<1>2. Greeting' /\ Greeted'
  BY DEF Dialogue, Greeting, Greeted
<1>3. Uploads'
  BY DEF Dialogue, Uploads, Staged
<1>4. Preparing'
  BY DEF Dialogue, Preparing, Staged
<1>5. Offline'
  BY DEF Dialogue, Offline
<1> QED
  BY <1>1, <1>2, <1>3, <1>4, <1>5 DEF Dialogue

(* What the server reads from the client is what the client is waiting to  *)
(* have answered.                                                          *)
LEMMA Asked ==
    ASSUME SystemTyped, Dialogue, conn \in Conns, NEW type, Waiting(conn, type)
    PROVE  /\ to_client[conn] = <<>> /\ Tail(to_server[conn]) = <<>>
           /\ handler[conn] = "receiving"
           /\ \/ type = "CLIENT_HELLO" /\ client_state = "connecting"
              \/ /\ type = "REQUEST_UPLOAD" /\ client_state = "upload_data_available"
                 /\ Head(to_server[conn]).id \in Tests
                 /\ Staged(staging) \subseteq pending_files \cup {Head(to_server[conn]).id}
              \/ type = "REQUEST_CAPCON" /\ client_state = "preparing_ready_for_test"
              \/ /\ type = "ACK_CAPCON" /\ client_state = "offline_testing"
                 /\ Head(to_server[conn]).id = current
<1> DEFINE m == Head(to_server[conn])
<1>1. \A q : to_server[conn] = <<q>> => m = q /\ Tail(to_server[conn]) = <<>>
  BY Singleton
<1>2. to_server[conn] # <<>> /\ m.type = type /\ handler[conn] = "receiving"
  BY DEF Waiting
<1>3. client_state \in ClientState /\ conn # NoConn
  BY ClientAssumption DEF SystemTyped, ClientTyped, ClientTypeOK
<1> QED
  BY <1>1, <1>2, <1>3
     DEF ClientState, Dialogue, Away, Greeting, Greeted, Uploads, Preparing, Offline,
         Silent, Asking, Answered, Exchange

(* An answer of the right type keeps the dialogue, whether it is sent or   *)
(* lost on a closed socket.                                                *)
LEMMA AnswerKeeps ==
    ASSUME SystemTyped, Dialogue, conn \in Conns, UNCHANGED clientVars,
           NEW type, Receives(conn, type),
           NEW reply \in Message(Reply), Replies(conn, reply),
           \/ /\ type = "CLIENT_HELLO" /\ reply.type = "SERVER_HELLO"
              /\ UNCHANGED handler
           \/ /\ type = "REQUEST_UPLOAD" /\ reply.type = "UPLOAD_COMPLETE"
              /\ reply.id = Head(to_server[conn]).id
              /\ UNCHANGED handler
           \/ /\ type = "REQUEST_CAPCON" /\ reply.type = "CAPCON"
              /\ handler'[conn] # "triggering"
           \/ /\ type = "ACK_CAPCON" /\ reply.type = "EXECUTE_CAPCON"
              /\ reply.id = Head(to_server[conn]).id
              /\ handler'[conn] # "delivering"
    PROVE  Dialogue'
<1>1. Waiting(conn, type)
  BY DEF Receives
<1>2. to_server'[conn] = <<>>
  BY <1>1, Asked DEF Receives, Drop, SystemTyped, ServerTyped, WireTypeOK
<1>3. to_client'[conn] \in {<<>>, <<reply>>}
  <2>1. to_client[conn] = <<>>
    BY <1>1, Asked
  <2>2. to_client \in [Conns -> Seq(Message(Reply))]
    BY DEF SystemTyped, ServerTyped, WireTypeOK
  <2>3. Append(to_client[conn], reply) = <<reply>>
    BY <2>1, Singleton
  <2> QED
    BY <2>1, <2>2, <2>3 DEF Replies, SendTo, Post
<1>4. reply.id \in TestId
  BY DEF Message
<1>5. handler[conn] = "receiving"
  BY <1>1, Asked
<1> USE DEF clientVars, process, clientDisk, Silent, Asking, Answered, Exchange, Calm
<1>6. Away'
  BY DEF Dialogue, Away
<1>7. client_state = "connecting" => type = "CLIENT_HELLO"
  BY <1>1, Asked
<1>8. client_state = "upload_data_available" =>
        /\ type = "REQUEST_UPLOAD" /\ Head(to_server[conn]).id \in Tests
        /\ Staged(staging) \subseteq pending_files \cup {Head(to_server[conn]).id}
  BY <1>1, Asked
<1>9. client_state = "preparing_ready_for_test" => type = "REQUEST_CAPCON"
  BY <1>1, Asked
<1>10. client_state = "offline_testing" =>
        type = "ACK_CAPCON" /\ Head(to_server[conn]).id = current
  BY <1>1, Asked
<1>11. client_state # "connected"
  BY <1>1, Asked
<1>12. Greeting' /\ Greeted'
  BY <1>2, <1>3, <1>4, <1>5, <1>7, <1>11 DEF Greeting, Greeted
<1>13. Uploads'
  BY <1>2, <1>3, <1>5, <1>8 DEF Dialogue, Uploads, Staged
<1>14. Preparing'
  BY <1>2, <1>3, <1>4, <1>9 DEF Dialogue, Preparing, Staged
<1>15. Offline'
  BY <1>2, <1>3, <1>10 DEF Offline
<1> QED
  BY <1>6, <1>12, <1>13, <1>14, <1>15 DEF Dialogue

(* What a handler may do, whatever becomes of its frame *)
AnyHandler(c) == \/ ServerHandles(c) \/ FrameRefused(c)
                 \/ OnRequestCapconUnparsed(c) \/ OnRequestUploadUnsaved(c)

(* A step of a handler that is not the client's *)
LEMMA OthersSlots ==
    ASSUME SystemTyped, NEW c \in Conns, NEW d \in Conns, c # d,
           AnyHandler(c)
    PROVE  UNCHANGED <<to_server[d], to_client[d], handler[d]>>
<1> USE DEF SystemTyped, ServerTyped, WireTypeOK, ServerTypeOK
<1> USE DEF Receives, Drop, Replies, SendTo, Post, HandlerBecomes, HandlerEnds, AwaitsSend, serverVars
<1>1. CASE OnClientHello(c) \/ OnRequestUpload(c) \/ OnRequestUploadUnsaved(c)
  BY <1>1 DEF OnClientHello, OnRequestUpload, OnRequestUploadUnsaved
<1>2. CASE OnRequestCapcon(c) \/ OnAckCapcon(c)
  BY <1>2 DEF OnRequestCapcon, SendNothing, SendPending, RefusePending, OnAckCapcon
<1>3. CASE \/ OnUnknown(c) \/ OnMalformed(c) \/ OnDisconnect(c)
           \/ FrameRefused(c) \/ OnRequestCapconUnparsed(c)
  BY <1>3 DEF OnUnknown, OnMalformed, OnDisconnect, FrameRefused, OnRequestCapconUnparsed, wire
<1>4. CASE Delivered(c) \/ Triggered(c) \/ SendRaises(c)
  BY <1>4 DEF Delivered, Triggered, SendRaises, Empty, wire
<1> QED
  BY <1>1, <1>2, <1>3, <1>4 DEF AnyHandler, ServerHandles

LEMMA HandlersKeep ==
    ASSUME SystemTyped, Dialogue, NEW c \in Conns, UNCHANGED clientVars,
           AnyHandler(c)
    PROVE  Dialogue'
<1>1. CASE c # conn /\ conn \in Conns
  <2>1. /\ to_server'[conn] = to_server[conn] /\ to_client'[conn] = to_client[conn]
        /\ handler'[conn] = handler[conn]
    BY <1>1, OthersSlots
  <2> QED
    BY <2>1, LossKeeps
<1>2. CASE conn \notin Conns
  <2>1. conn = NoConn /\ client_state \in {"off", "finished", "disconnected"}
    BY <1>2 DEF Dialogue, Away, SystemTyped, ClientTyped, ClientTypeOK
  <2> QED
    BY <2>1 DEF Dialogue, Away, Greeting, Greeted, Uploads, Preparing, Offline,
                clientVars, process
<1>3. CASE c = conn
  <2> USE <1>3
  <2>1. CASE OnClientHello(c)
    <3>1. Msg("SERVER_HELLO", NoTest) \in Message(Reply)
      BY DEF Msg, Message, Reply, TestId
    <3> QED
      BY <2>1, <3>1, AnswerKeeps DEF OnClientHello, Msg
  <2>2. CASE OnRequestUpload(c) \/ OnRequestUploadUnsaved(c)
    <3>1. Receives(c, "REQUEST_UPLOAD") /\ UNCHANGED handler
      BY <2>2 DEF OnRequestUpload, OnRequestUploadUnsaved, serverVars
    <3>2. Msg("UPLOAD_COMPLETE", Head(to_server[c]).id) \in Message(Reply)
      BY <3>1, ReceiveType DEF SystemTyped, Msg, Message, Reply
    <3>3. Replies(c, Msg("UPLOAD_COMPLETE", Head(to_server[c]).id))
      BY <2>2 DEF OnRequestUpload, OnRequestUploadUnsaved
    <3> QED
      BY <3>1, <3>2, <3>3, AnswerKeeps DEF Msg
  <2>3. CASE OnRequestCapcon(c)
    <3>1. Receives(c, "REQUEST_CAPCON")
      BY <2>3 DEF OnRequestCapcon
    <3>2. CASE SendNothing(c) \/ SendPending(c)
      <4>1. PICK id \in TestId : Replies(c, Msg("CAPCON", id))
        <5>1. PendingTest \in TestId /\ NoTest \in TestId
          BY DEF PendingTest, TestId, SystemTyped, ServerTyped, ServerTypeOK
        <5> QED
          BY <3>2, <5>1 DEF SendNothing, SendPending
      <4>2. Msg("CAPCON", id) \in Message(Reply)
        BY DEF Msg, Message, Reply
      <4>3. handler'[c] # "triggering"
        BY <3>2 DEF SendNothing, SendPending, AwaitsSend, HandlerBecomes,
                    SystemTyped, ServerTyped, ServerTypeOK
      <4> QED
        BY <3>1, <4>1, <4>2, <4>3, AnswerKeeps DEF Msg
    <3>3. CASE RefusePending(c)
      <4>1. to_server'[c] = <<>>
        BY <3>1, Asked DEF Receives, Drop, SystemTyped, ServerTyped, WireTypeOK
      <4> QED
        BY <3>3, <4>1, LossKeeps DEF RefusePending, HandlerEnds, HandlerBecomes,
                                     SystemTyped, ServerTyped, ServerTypeOK
    <3> QED
      BY <2>3, <3>2, <3>3 DEF OnRequestCapcon
  <2>4. CASE OnAckCapcon(c)
    <3>1. Receives(c, "ACK_CAPCON") /\ Replies(c, Msg("EXECUTE_CAPCON", Head(to_server[c]).id))
      BY <2>4 DEF OnAckCapcon, TriggerFor
    <3>2. Msg("EXECUTE_CAPCON", Head(to_server[c]).id) \in Message(Reply)
      BY <3>1, ReceiveType DEF SystemTyped, Msg, Message, Reply
    <3>3. handler'[c] # "delivering"
      BY <2>4 DEF OnAckCapcon, AwaitsSend, HandlerBecomes, SystemTyped, ServerTyped, ServerTypeOK
    <3> QED
      BY <3>1, <3>2, <3>3, AnswerKeeps DEF Msg
  <2>5. ~OnUnknown(c) /\ ~OnMalformed(c)
    BY Asked DEF OnUnknown, OnMalformed, Receives
  <2>6. CASE FrameRefused(c) \/ OnRequestCapconUnparsed(c)
    <3>1. /\ Waiting(c, "REQUEST_UPLOAD") \/ Waiting(c, "REQUEST_CAPCON")
          /\ to_server' = Drop(to_server, c)
          /\ HandlerEnds(c) /\ UNCHANGED to_client
      BY <2>6 DEF FrameRefused, TooLarge, OnRequestCapconUnparsed, Receives
    <3>2. to_server'[c] = <<>>
      BY <3>1, Asked DEF Drop, SystemTyped, ServerTyped, WireTypeOK
    <3> QED
      BY <3>1, <3>2, LossKeeps DEF HandlerEnds, HandlerBecomes,
                                   SystemTyped, ServerTyped, ServerTypeOK
  <2>7. CASE OnDisconnect(c) \/ Delivered(c) \/ Triggered(c) \/ SendRaises(c)
    <3>1. UNCHANGED to_server /\ to_client'[c] \in {to_client[c], <<>>}
      BY <2>7 DEF OnDisconnect, Delivered, Triggered, SendRaises, Empty, wire,
                  SystemTyped, ServerTyped, WireTypeOK
    <3>2. \/ handler'[c] = "off"
          \/ handler[c] = "delivering" /\ handler'[c] = "receiving"
      BY <2>7 DEF OnDisconnect, Delivered, Triggered, SendRaises, HandlerEnds, HandlerBecomes,
                  SystemTyped, ServerTyped, ServerTypeOK
    <3> QED
      BY <3>1, <3>2, LossKeeps
  <2> QED
    BY <2>1, <2>2, <2>3, <2>4, <2>5, <2>6, <2>7 DEF AnyHandler, ServerHandles
<1> QED
  BY <1>1, <1>2, <1>3

(* Nothing else that happens beside the client disturbs the dialogue. *)
LEMMA KillEndsAll ==
    ASSUME ServerFault
    PROVE  ProcessGone /\ UNCHANGED to_client
BY DEF ServerFault, ServerStops, ServerKilled, ServerStopsWhileSaving, ServerKilledArchiving,
       ServerKilledCleaning, ServerKilledStoring, ServerKilledTriggering

LEMMA NobodyThere ==
    ASSUME SystemTyped, Dialogue, conn \notin Conns
    PROVE  conn = NoConn /\ client_state \in {"off", "finished", "disconnected"}
BY DEF Dialogue, Away, SystemTyped, ClientTyped, ClientTypeOK

LEMMA ServerSideKeeps ==
    ASSUME SystemTyped, Dialogue,
           \/ UNCHANGED systemVars \/ Done \/ ServerPayloads \/ ServerComesUp \/ ServerFault
           \/ \E c \in Conns : ServerStep(c) \/ LinkFault(c) \/ SaveFault(c)
    PROVE  Dialogue'
<1>1. UNCHANGED clientVars
  BY DEF systemVars, Done, ServerPayloads, ServerComesUp, ServerFault, ServerStep, LinkFault, SaveFault
<1>2. CASE conn \notin Conns
  BY <1>1, <1>2, NobodyThere
     DEF Dialogue, Away, Greeting, Greeted, Uploads, Preparing, Offline, clientVars, process
<1>3. CASE conn \in Conns
  <2>1. CASE UNCHANGED systemVars \/ Done
    BY <1>1, <2>1, LossKeeps DEF systemVars, Done, wire, serverVars
  <2>2. CASE ServerPayloads \/ ServerComesUp
    <3>1. UNCHANGED <<wire, handler>>
      BY <2>2 DEF ServerPayloads, ServerRunsPayloads, ServerMexec, ServerPayloadEnds,
                  ServerComesUp, ServerStarts
    <3> QED
      BY <1>1, <3>1, LossKeeps DEF wire
  <2>3. CASE ServerFault
    BY <1>1, <1>3, <2>3, KillEndsAll, LossKeeps DEF ProcessGone
  <2>4. ASSUME NEW c \in Conns, LinkFault(c) PROVE Dialogue'
    <3>1. to_server'[conn] \in {to_server[conn], <<>>} /\ to_client'[conn] \in {to_client[conn], <<>>}
      BY <1>3, <2>4 DEF LinkFault, Empty, SystemTyped, ServerTyped, WireTypeOK
    <3>2. UNCHANGED handler
      BY <2>4 DEF LinkFault, serverVars
    <3> QED
      BY <1>1, <3>1, <3>2, LossKeeps
  <2>5. ASSUME NEW c \in Conns, ServerStep(c) \/ SaveFault(c) PROVE Dialogue'
    BY <1>1, <2>5, HandlersKeep DEF ServerStep, SaveFault, AnyHandler
  <2> QED
    BY <2>1, <2>2, <2>3, <2>4, <2>5
<1> QED
  BY <1>2, <1>3

(* The client's own steps *)
LEMMA GoneKeeps == ASSUME Gone("off") \/ Gone("finished") PROVE Dialogue'
BY DEF Gone, Dialogue, Away, Greeting, Greeted, Uploads, Preparing, Offline

(* What the client reads is the answer to what it asked. *)
LEMMA Replied ==
    ASSUME SystemTyped, Dialogue, Waits, to_client[conn] # <<>>
    PROVE  /\ conn \in Conns
           /\ to_server[conn] = <<>> /\ Tail(to_client[conn]) = <<>>
           /\ Received.type = Expected
           /\ client_state \in {"connecting", "upload_data_available"} => Calm
           /\ client_state = "upload_data_available" =>
                /\ MayStore(client_live) /\ Received.id \in Tests
                /\ Staged(staging) \subseteq pending_files \cup {Received.id}
           /\ client_state = "preparing_ready_for_test" =>
                MayStore(client_live) /\ handler[conn] # "triggering"
           /\ client_state = "offline_testing" =>
                Received.id = current /\ handler[conn] # "delivering"
<1>1. conn \in Conns
  BY DEF SystemTyped, ClientTyped, Connected, Waits
<1>2. \A m : to_client[conn] = <<m>> => Received = m /\ Tail(to_client[conn]) = <<>>
  BY Singleton DEF Received
<1>3. CASE client_state = "connecting"
  BY <1>1, <1>2, <1>3 DEF Expected, Dialogue, Greeting, Exchange, Silent, Asking, Answered
<1>4. CASE client_state = "upload_data_available"
  BY <1>1, <1>2, <1>4 DEF Expected, Dialogue, Uploads, Exchange, Silent, Asking, Answered
<1>5. CASE client_state = "preparing_ready_for_test"
  BY <1>1, <1>2, <1>5 DEF Expected, Dialogue, Preparing, Silent, Asking, Answered
<1>6. CASE client_state = "offline_testing"
  BY <1>1, <1>2, <1>6 DEF Expected, Dialogue, Offline, Silent, Asking, Answered
<1> QED
  BY <1>3, <1>4, <1>5, <1>6 DEF Waits

(* A question is under way once it is sent, unless the socket is closed. *)
LEMMA Questions ==
    ASSUME SystemTyped, conn \in Conns, to_server[conn] = <<>>,
           NEW m \in Message(Request), Sends(m), UNCHANGED conn, to_client'[conn] = <<>>
    PROVE  \/ Silent'
           \/ \A ids : m.id \in ids => Asking(m.type, ids)'
<1>1. to_server \in [Conns -> Seq(Message(Request))]
  BY DEF SystemTyped, ServerTyped, WireTypeOK
<1>2. to_server'[conn] \in {<<>>, <<m>>}
  BY <1>1, Singleton DEF Sends, SendTo, Post
<1> QED
  BY <1>2 DEF Silent, Asking

LEMMA UploadKeeps ==
    ASSUME SystemTyped, conn \in Conns, to_server[conn] = <<>>, to_client'[conn] = <<>>, Calm,
           UNCHANGED handler, MayStore(client_live'),
           NEW pending \in SUBSET Tests, Staged(staging') \subseteq pending,
           staging' \in [Tests -> Archive], UploadNext(pending, staging')
    PROVE  Dialogue'
<1>1. ASSUME NEW t \in pending, Sends(Upload(t, staging'[t].files)),
             pending_files' = pending \ {t}, client_state' = "upload_data_available",
             UNCHANGED conn
      PROVE  Dialogue'
  <2>1. Upload(t, staging'[t].files) \in Message(Request)
    BY DEF Upload, Message, Request, TestId, Archive
  <2>2. Silent' \/ Asking("REQUEST_UPLOAD", {t})'
    BY <1>1, <2>1, Questions DEF Upload
  <2>3. Uploads'
    BY <1>1, <2>2 DEF Uploads, Exchange, Calm
  <2> QED
    BY <1>1, <2>3, ClientAssumption DEF Dialogue, Away, Greeting, Greeted, Preparing, Offline
<1>2. CASE /\ pending = {} /\ Sends(Msg("REQUEST_CAPCON", NoTest))
           /\ client_state' = "preparing_ready_for_test" /\ UNCHANGED conn
  <2>1. Msg("REQUEST_CAPCON", NoTest) \in Message(Request)
    BY DEF Msg, Message, Request, TestId
  <2>2. Silent' \/ Asking("REQUEST_CAPCON", TestId)'
    BY <1>2, <2>1, Questions DEF Msg, TestId
  <2>3. Preparing'
    BY <1>2, <2>2 DEF Preparing, Calm
  <2> QED
    BY <1>2, <2>3, ClientAssumption DEF Dialogue, Away, Greeting, Greeted, Uploads, Offline
<1>3. CASE Gone("off")
  BY <1>3, GoneKeeps
<1> QED
  BY <1>1, <1>2, <1>3 DEF UploadNext

(* Reading empties the queue. *)
LEMMA ReadsLast ==
    ASSUME SystemTyped, Dialogue, Reads
    PROVE  to_client'[conn] = <<>>
BY Replied DEF Reads, Drop, SystemTyped, ServerTyped, WireTypeOK

LEMMA ClientHandlesKeep ==
    ASSUME SystemTyped, Dialogue, ClientHandles, UNCHANGED serverVars
    PROVE  Dialogue'
<1>1. UNCHANGED handler
  BY DEF serverVars
<1>2. CASE HandleServerHello
  <2>1. Reads /\ client_state = "connecting" /\ client_state' = "connected" /\ UNCHANGED <<conn, to_server>>
    BY <1>2 DEF HandleServerHello, Handles
  <2>2. to_client'[conn] = <<>> /\ to_server'[conn] = <<>> /\ Calm' /\ conn \in Conns
    BY <1>1, <2>1, ReadsLast, Replied DEF Reads, Calm
  <2> QED
    BY <2>1, <2>2, ClientAssumption
       DEF Dialogue, Away, Greeting, Greeted, Uploads, Preparing, Offline, Silent
<1>3. CASE CheckFilesForUpload
  <2>1. conn \in Conns
    BY <1>3 DEF CheckFilesForUpload, SystemTyped, ClientTyped, Connected
  <2>2. Calm /\ to_server[conn] = <<>> /\ to_client'[conn] = <<>>
    BY <1>3 DEF CheckFilesForUpload, Dialogue, Greeted, Silent
  <2>3. staging' \in [Tests -> Archive]
    BY <1>3, StageType DEF CheckFilesForUpload, SystemTyped, ClientTyped, ClientTypeOK
  <2>4. MayStore(client_live')
    BY <1>3 DEF CheckFilesForUpload, Loadable, MayStore, HasCapcon, Torn
  <2>5. Staged(staging') \in SUBSET Tests
    BY DEF Staged
  <2> QED
    BY <1>1, <1>3, <2>1, <2>2, <2>3, <2>4, <2>5, UploadKeeps DEF CheckFilesForUpload
<1>4. CASE HandleUploadComplete
  <2>1. Reads /\ client_state = "upload_data_available" /\ UNCHANGED client_live
    BY <1>4 DEF HandleUploadComplete, Handles
  <2>2. /\ conn \in Conns /\ to_server[conn] = <<>> /\ to_client'[conn] = <<>> /\ Calm
        /\ MayStore(client_live') /\ Received.id \in Tests
        /\ Staged(staging) \subseteq pending_files \cup {Received.id}
    BY <2>1, ReadsLast, Replied DEF Reads
  <2>3. staging' \in [Tests -> Archive] /\ Staged(staging') \subseteq pending_files
    <3>1. CASE Movable(Received.id)
      <4>1. staging \in [Tests -> Archive] /\ NoZip \in Archive /\ ~NoZip.there
        BY DEF SystemTyped, ClientTyped, ClientTypeOK, NoZip, Archive
      <4>2. staging' = [staging EXCEPT ![Received.id] = NoZip]
        BY <1>4, <3>1 DEF HandleUploadComplete, MoveOut
      <4>3. \A t \in Tests : staging'[t].there => staging[t].there /\ t # Received.id
        BY <2>2, <4>1, <4>2
      <4> QED
        BY <2>2, <4>1, <4>2, <4>3 DEF Staged
    <3>2. CASE ~Movable(Received.id)
      <4>1. ~staging[Received.id].there
        BY <2>2, <3>2, WireAssumption DEF Movable
      <4> QED
        BY <1>4, <2>2, <3>2, <4>1 DEF HandleUploadComplete, Staged,
                                      SystemTyped, ClientTyped, ClientTypeOK
    <3> QED
      BY <3>1, <3>2
  <2>4. pending_files \in SUBSET Tests
    BY DEF SystemTyped, ClientTyped, ClientTypeOK
  <2> QED
    BY <1>1, <1>4, <2>2, <2>3, <2>4, UploadKeeps DEF HandleUploadComplete
<1>5. CASE HandleCapcon
  <2>1. /\ Reads /\ client_state = "preparing_ready_for_test"
        /\ client_state' = "offline_testing" /\ current' = Received.id /\ UNCHANGED conn
        /\ Sends(Msg("ACK_CAPCON", Received.id))
    BY <1>5 DEF HandleCapcon, Handles
  <2>2. /\ conn \in Conns /\ to_server[conn] = <<>> /\ to_client'[conn] = <<>>
        /\ handler[conn] # "triggering"
    BY <2>1, ReadsLast, Replied DEF Reads
  <2>3. Msg("ACK_CAPCON", Received.id) \in Message(Request)
    BY <2>1, ReadsType DEF SystemTyped, Msg, Message, Request
  <2>4. Silent' \/ Asking("ACK_CAPCON", {current})'
    BY <2>1, <2>2, <2>3, Questions DEF Msg
  <2>5. Offline'
    BY <1>1, <2>1, <2>2, <2>4 DEF Offline
  <2> QED
    BY <2>1, <2>2, <2>5, ClientAssumption DEF Dialogue, Away, Greeting, Greeted, Uploads, Preparing
<1>6. CASE \/ CheckFilesRaises \/ HandleLastCapcon \/ HandleCapconRaises \/ HandleExecute
           \/ HandleExecuteMismatch \/ BadReply \/ ConnectionLost
  <2>1. Gone("off") \/ Gone("finished")
    BY <1>6 DEF CheckFilesRaises, HandleLastCapcon, HandleCapconRaises, HandleExecute,
                HandleExecuteMismatch, BadReply, ConnectionLost, Dies
  <2> QED
    BY <2>1, GoneKeeps
<1> QED
  BY <1>2, <1>3, <1>4, <1>5, <1>6 DEF ClientHandles

LEMMA ClientMovesKeep ==
    ASSUME SystemTyped, Dialogue,
           \/ Restart \/ OperatorStart \/ CannotConnect \/ ClientPayloads
           \/ \E c \in Conns : Connect(c)
    PROVE  Dialogue'
<1>1. CASE Restart \/ OperatorStart \/ CannotConnect
  <2>1. client_state \in {"off", "disconnected"}
    BY <1>1 DEF Restart, StartsByTimer, OperatorStart, StartsByOperator, ClientStarts,
                CannotConnect, ConnectFails
  <2>2. \/ Gone("off")
        \/ client_state' = "disconnected" /\ UNCHANGED conn
    BY <1>1 DEF Restart, StartsByTimer, OperatorStart, StartsByOperator, ClientStarts,
                CannotConnect, ConnectFails, Disconnected, GivesUp
  <2> QED
    BY <2>1, <2>2, GoneKeeps DEF Dialogue, Away, Greeting, Greeted, Uploads, Preparing, Offline
<1>2. CASE ClientPayloads
  <2>1. PICK p \in Payloads : ClientMexec(p) \/ ClientPayloadEnds(p)
    BY <1>2 DEF ClientPayloads, ClientRunsPayloads
  <2>2. UNCHANGED <<wire, process, staging, serverVars>>
    BY <1>2, <2>1 DEF ClientPayloads, ClientMexec, ClientPayloadEnds, clientDisk
  <2>3. MayStore(client_live) => MayStore(client_live')
    <3>1. client_live' \in {client_live, client_live \cup {OutFile(p)}}
      BY <2>1 DEF ClientMexec, ClientPayloadEnds, clientDisk
    <3> QED
      BY <3>1, FilesDiffer DEF MayStore, HasCapcon, Torn
  <2> USE <2>2 DEF wire, process, serverVars
  <2>4. Greeting' /\ Greeted'
    BY DEF Dialogue, Greeting, Greeted, Calm, Silent, Exchange, Asking, Answered
  <2>5. Uploads'
    BY <2>3 DEF Dialogue, Uploads, Calm, Silent, Exchange, Asking, Answered, Staged
  <2>6. Preparing'
    BY <2>3 DEF Dialogue, Preparing, Calm, Silent, Asking, Answered, Staged
  <2>7. Offline' /\ Away'
    BY DEF Dialogue, Offline, Away, Silent, Asking, Answered
  <2> QED
    BY <2>4, <2>5, <2>6, <2>7 DEF Dialogue
<1>3. ASSUME NEW c \in Conns, Connect(c) PROVE Dialogue'
  <2>1. conn' = c /\ client_state' = "connecting"
    BY <1>3 DEF Connect, Connects
  <2>2. handler'[c] = "receiving"
    BY <1>3 DEF Connect, Accept, HandlerBecomes, SystemTyped, ServerTyped, ServerTypeOK
  <2>3. to_client'[c] = <<>> /\ to_server'[c] = <<Msg("CLIENT_HELLO", NoTest)>>
    BY <1>3, Singleton DEF Connect, Connects, Post, Empty, SystemTyped, ServerTyped, WireTypeOK
  <2>4. Msg("CLIENT_HELLO", NoTest) \in Message(Request) /\ NoTest \in TestId
    BY DEF Msg, Message, Request, TestId
  <2>5. Asking("CLIENT_HELLO", TestId)'
    BY <2>1, <2>3, <2>4 DEF Asking, Msg
  <2> QED
    BY <2>1, <2>2, <2>5, ClientAssumption
       DEF Dialogue, Away, Greeting, Greeted, Uploads, Preparing, Offline, Calm, Exchange
<1> QED
  BY <1>1, <1>2, <1>3

LEMMA DialogueStep == SystemTyped /\ Dialogue /\ StepOfSystem => Dialogue'
<1> SUFFICES ASSUME SystemTyped, Dialogue, StepOfSystem PROVE Dialogue'
  OBVIOUS
<1>1. CASE ClientStep
  BY <1>1, ClientHandlesKeep DEF ClientStep
<1>2. CASE ClientFault \/ TornFault
  <2>1. Gone("off")
    BY <1>2 DEF ClientFault, TornFault, ClientCrashes, ClientKilled, KilledArchiving,
                KilledCleaning, KilledStoring, KilledExecuting, KilledWriting, Dies
  <2> QED
    BY <2>1, GoneKeeps
<1> QED
  BY <1>1, <1>2, ServerSideKeeps, ClientMovesKeep DEF StepOfSystem, SystemNext, AnyFault

LEMMA DialogueInit == SystemInit => Dialogue
BY DEF SystemInit, ClientInit, Dialogue, Away, Greeting, Greeted, Uploads, Preparing, Offline

LEMMA DialogueInvariant == SystemSpec => [](SystemTyped /\ Dialogue)
BY SystemTypedInit, SystemTypedStep, DialogueInit, DialogueStep, PTL DEF SystemSpec, StepOfSystem

(* Through any number of kills, broken links and server restarts, and with *)
(* handlers of dead clients still at work, the client only ever receives   *)
(* the reply it waits for, for the CapCon it holds.                        *)
THEOREM RepliesAlwaysFit == SystemSpec => []RepliesFit
<1>1. SystemTyped /\ Dialogue => RepliesFit
  BY Replied DEF RepliesFit
<1> QED
  BY <1>1, DialogueInvariant, PTL

(* Nothing is left behind.  Without a CapCon the live workspace of a       *)
(* client that was not killed holds nothing but outputs of payloads that   *)
(* overrun: whatever else a payload writes, it writes before the timer     *)
(* fires, and till then the CapCon is there.                               *)

Unkilled == faults["client_killed"] = 0 /\ faults["capcon_torn"] = 0

Swept == Unkilled => HasCapcon(client_live) \/ client_live \subseteq OutFiles(Overruns)

(* For its own variables the client takes a step of its own, or none. *)
LEMMA ClientPart == StepOfSystem => StepOfClient \/ UNCHANGED clientVars
<1> SUFFICES ASSUME StepOfSystem PROVE StepOfClient \/ UNCHANGED clientVars
  OBVIOUS
<1>1. CASE \/ UNCHANGED systemVars \/ Done \/ ServerPayloads \/ ServerComesUp \/ ServerFault
           \/ \E c \in Conns : ServerStep(c) \/ LinkFault(c) \/ SaveFault(c)
  BY <1>1 DEF systemVars, Done, ServerPayloads, ServerComesUp, ServerFault, ServerStep,
              LinkFault, SaveFault
<1>2. CASE \/ Restart \/ OperatorStart \/ CannotConnect \/ ClientStep \/ ClientPayloads
           \/ ClientFault \/ TornFault \/ \E c \in Conns : Connect(c)
  BY <1>2 DEF Restart, OperatorStart, CannotConnect, ClientStep, ClientPayloads, ClientFault,
              TornFault, Connect, StepOfClient, ClientOpenNext
<1> QED
  BY <1>1, <1>2 DEF StepOfSystem, SystemNext, AnyFault

LEMMA AwaitedKept ==
    SystemTyped /\ AcknowledgedIsStored /\ Awaited /\ StepOfSystem
        => AcknowledgedIsStored' /\ Awaited'
<1> SUFFICES ASSUME SystemTyped, AcknowledgedIsStored, Awaited, StepOfSystem
             PROVE  AcknowledgedIsStored' /\ Awaited'
  OBVIOUS
<1>1. CASE StepOfClient
  BY <1>1, AcknowledgedStep, AwaitedStep DEF SystemTyped
<1>2. CASE UNCHANGED clientVars
  BY <1>2 DEF clientVars, process, clientDisk, timers, AcknowledgedIsStored, Awaited, HasCapcon
<1> QED
  BY <1>1, <1>2, ClientPart

(* Counters of faults only grow, and by the faults they count. *)
LEMMA UnkilledBefore ==
    ASSUME SystemTyped, StepOfSystem, Unkilled'
    PROVE  Unkilled /\ ~ClientFault /\ ~TornFault
<1>1. faults["client_killed"] \in Nat /\ faults["capcon_torn"] \in Nat
  BY DEF SystemTyped, FaultKind
<1>2. \A kind \in FaultKind : Fault(kind) =>
        Unkilled /\ kind # "client_killed" /\ kind # "capcon_torn"
  <2> SUFFICES ASSUME NEW kind \in FaultKind, Fault(kind)
               PROVE  Unkilled /\ kind # "client_killed" /\ kind # "capcon_torn"
    OBVIOUS
  <2>1. /\ faults'[kind] = faults[kind] + 1
        /\ \A k \in FaultKind \ {kind} : faults'[k] = faults[k]
    BY FaultType
  <2> QED
    BY <1>1, <2>1 DEF Unkilled, FaultKind
<1>3. CASE AnyFault
  BY <1>2, <1>3 DEF AnyFault, ClientFault, TornFault, ServerFault, LinkFault, SaveFault, FaultKind
<1>4. CASE ~AnyFault
  <2>1. UNCHANGED faults
    BY <1>4 DEF StepOfSystem, SystemNext, systemVars, Done, Restart, OperatorStart, CannotConnect,
                ClientStep, ClientPayloads, Connect, ServerStep, ServerPayloads, ServerComesUp,
                history
  <2> QED
    BY <1>4, <2>1 DEF AnyFault, Unkilled
<1> QED
  BY <1>3, <1>4

(* What a client that is not killed does to its live workspace *)
LEMMA LiveMoves ==
    ASSUME SystemTyped, StepOfSystem, ~ClientFault, ~TornFault
    PROVE  \/ UNCHANGED client_live
           \/ client_live' = {}
           \/ HasCapcon(client_live')
           \/ \E p \in Payloads : ClientPayloadEnds(p)
<1>1. CASE UNCHANGED clientVars
  BY <1>1 DEF clientVars, clientDisk
<1>2. CASE ClientHandles
  <2>1. CASE HandleCapcon \/ HandleCapconRaises
    <3>1. \A t, jobs : CapconFile(t) \in StoreCapcon(client_live, t, jobs)
      BY DEF StoreCapcon
    <3>2. Received.id \in Tests
      BY <2>1, ReadsType DEF HandleCapcon, HandleCapconRaises, Handles, SystemTyped, TestId
    <3> QED
      BY <2>1, <3>1, <3>2 DEF HandleCapcon, HandleCapconRaises, HasCapcon
  <2>2. CASE ~HandleCapcon /\ ~HandleCapconRaises
    BY <1>2, <2>2
       DEF ClientHandles, HandleServerHello, CheckFilesForUpload, CheckFilesRaises,
           HandleUploadComplete, HandleLastCapcon, HandleExecute, HandleExecuteMismatch,
           BadReply, ConnectionLost, Dies, clientDisk
  <2> QED
    BY <2>1, <2>2
<1>3. CASE \/ Restart \/ OperatorStart \/ CannotConnect \/ \E c \in Conns : Connect(c)
  BY <1>3 DEF Restart, StartsByTimer, OperatorStart, StartsByOperator, ClientStarts,
              CannotConnect, ConnectFails, Connect, Connects, clientDisk
<1>4. CASE ClientPayloads
  BY <1>4 DEF ClientPayloads, ClientRunsPayloads, ClientMexec, clientDisk
<1>5. CASE \/ UNCHANGED systemVars \/ Done \/ ServerPayloads \/ ServerComesUp \/ ServerFault
           \/ \E c \in Conns : ServerStep(c) \/ LinkFault(c) \/ SaveFault(c)
  BY <1>1, <1>5 DEF systemVars, Done, ServerPayloads, ServerComesUp, ServerFault, ServerStep,
                    LinkFault, SaveFault
<1> QED
  BY <1>2, <1>3, <1>4, <1>5 DEF StepOfSystem, SystemNext, AnyFault, ClientStep

LEMMA SweptStep == SystemTyped /\ Apart /\ Awaited /\ Swept /\ StepOfSystem => Swept'
<1> SUFFICES ASSUME SystemTyped, Apart, Awaited, Swept, StepOfSystem, Unkilled', ~HasCapcon(client_live')
             PROVE  client_live' \subseteq OutFiles(Overruns)
  BY DEF Swept, HasCapcon
<1>1. Unkilled /\ ~ClientFault /\ ~TornFault
  BY UnkilledBefore
<1>2. CASE UNCHANGED client_live \/ client_live' = {}
  BY <1>1, <1>2 DEF Swept
<1>3. ASSUME NEW p \in Payloads, ClientPayloadEnds(p)
      PROVE  client_live' \subseteq OutFiles(Overruns)
  <2>1. client_live' = client_live \cup {OutFile(p)} /\ Busy(client_unit, p)
    BY <1>3 DEF ClientPayloadEnds, Busy
  <2>2. ~HasCapcon(client_live)
    BY <2>1 DEF HasCapcon
  <2>3. p \in Overruns
    BY <2>1, <2>2 DEF Apart, Awaited
  <2> QED
    BY <1>1, <2>1, <2>2, <2>3 DEF Swept, OutFiles
<1> QED
  BY <1>1, <1>2, <1>3, LiveMoves

(* When the client asks for a CapCon, every archive it had staged has been *)
(* uploaded and moved, no CapCon is left in its live workspace, and unless *)
(* it was killed nothing of an earlier capture is, but for the outputs of  *)
(* payloads that overrun.                                                  *)
THEOREM NothingStaysBehind == SystemSpec => []NothingLeftBehind
<1>1. Dialogue /\ Swept => NothingLeftBehind
  BY DEF Dialogue, Preparing, Swept, Unkilled, NothingLeftBehind, MayStore, Staged
<1>2. SystemInit => Apart /\ AcknowledgedIsStored /\ Awaited /\ Swept
  BY DEF SystemInit, ClientInit, Apart, Busy, AcknowledgedIsStored, Awaited, Swept
<1> QED
  BY <1>1, <1>2, DialogueInvariant, ApartStep, AwaitedKept, SweptStep, PTL
     DEF SystemSpec, StepOfSystem
-----------------------------------------------------------------------------
(* Who may start a capture: the client that holds its CapCon, and any that *)
(* the queue may still hand it to.  Handing out and popping are two steps, *)
(* so the queue may still have a CapCon that a client holds; but then it   *)
(* is the head, and the handler of that client is the one to pop it.       *)

Restarts == faults["server_restart"]

Queued(q) == {q[i] : i \in DOMAIN q}

Distinct(q) == \A i, j \in DOMAIN q : i # j => q[i] # q[j]

Holds(t) ==
    \/ client_state = "preparing_ready_for_test" /\ to_client[conn] # <<>> /\ Received.id = t
    \/ client_state = "offline_testing" /\ current = t

(* The queue has let go of t, or does when the client's handler goes on. *)
LetGo(t) ==
    server_up /\ (t \in Queued(test_queue) =>
                    handler[conn] = "delivering" /\ t = Head(test_queue))

Once ==
    /\ \A t \in Tests : executed[t] <= Restarts + (IF server_up THEN 1 ELSE 0)
    /\ server_up => \A t \in Queued(test_queue) : executed[t] <= Restarts
    /\ \A t \in Tests : Holds(t) =>
        executed[t] <= Restarts /\ (executed[t] < Restarts \/ LetGo(t))
    /\ ~server_up => \A c \in Conns : handler[c] = "off"
    /\ Distinct(test_queue)

(* Popping removes the head and nothing else. *)
LEMMA PopRemoves ==
    ASSUME NEW q \in Seq(Tests), Distinct(q)
    PROVE  /\ Distinct(PopTest(q)) /\ Queued(PopTest(q)) \subseteq Queued(q)
           /\ q # <<>> => Head(q) \notin Queued(PopTest(q))
<1>1. CASE q = <<>>
  BY <1>1 DEF PopTest
<1>2. CASE q # <<>>
  <2> DEFINE r == Tail(q)
  <2>1. /\ Len(q) \in Nat /\ Len(q) > 0 /\ DOMAIN q = 1..Len(q)
        /\ DOMAIN r = 1..(Len(q) - 1)
        /\ \A i \in DOMAIN r : r[i] = q[i + 1] /\ i + 1 \in DOMAIN q /\ i + 1 # 1
        /\ Head(q) = q[1] /\ 1 \in DOMAIN q
    BY <1>2
  <2> HIDE DEF r
  <2>2. Distinct(r)
    BY <2>1 DEF Distinct
  <2>3. Queued(r) \subseteq Queued(q)
    BY <2>1 DEF Queued
  <2>4. Head(q) \notin Queued(r)
    BY <2>1 DEF Queued, Distinct
  <2> QED
    BY <1>2, <2>2, <2>3, <2>4 DEF PopTest, r
<1> QED
  BY <1>1, <1>2

LEMMA OrdersDistinct == \A q \in TestOrders : Distinct(q)
BY DEF TestOrders, Distinct

LEMMA CountersInt ==
    ASSUME SystemTyped
    PROVE  Restarts \in Nat /\ \A t \in Tests : executed[t] \in Nat
<1>1. MostExecutions \in Nat
  BY SystemAssumption DEF MostExecutions
<1> QED
  BY <1>1 DEF SystemTyped, Restarts, FaultKind

(* Nobody there holds a CapCon. *)
LEMMA HoldsNeeds ==
    ASSUME SystemTyped, Dialogue, NEW t, Holds(t)
    PROVE  conn \in Conns
BY DEF Holds, SystemTyped, ClientTyped, Connected

(* A step beside the client that neither hands out nor pops *)
LEMMA QuietKeeps ==
    ASSUME SystemTyped, Dialogue, Once,
           UNCHANGED <<clientVars, executed, test_queue, server_up>>,
           Restarts' = Restarts,
           ~server_up => \A c \in Conns : handler'[c] = "off",
           \A t \in Tests : Holds(t)' =>
                /\ Holds(t)
                /\ handler[conn] = "delivering" => handler'[conn] = "delivering"
    PROVE  Once'
BY DEF Once, LetGo, clientVars, process

LEMMA HandsOut ==
    ASSUME SystemTyped, Dialogue, Once, conn \in Conns, OnRequestCapcon(conn),
           UNCHANGED <<clientVars, executed>>, Restarts' = Restarts
    PROVE  Once'
<1>1. /\ to_client[conn] = <<>> /\ handler[conn] = "receiving"
      /\ client_state = "preparing_ready_for_test"
  BY Asked DEF OnRequestCapcon, Receives
<1>2. UNCHANGED <<client_state, conn, current, test_queue, server_up>>
  BY DEF OnRequestCapcon, clientVars, process
<1>3. server_up
  BY <1>1 DEF Once
<1>4. ASSUME NEW t \in Tests, Holds(t)'
      PROVE  /\ test_queue # <<>> /\ t = Head(test_queue)
             /\ handler'[conn] = "delivering"
  <2>1. to_client'[conn] # <<>> /\ Head(to_client'[conn]).id = t
    BY <1>1, <1>2, <1>4 DEF Holds, Received
  <2>2. link[conn] = "open"
    BY <1>1, <2>1 DEF OnRequestCapcon, SendNothing, SendPending, RefusePending, Replies, SendTo
  <2>3. ~RefusePending(conn)
    BY <1>1, <2>1 DEF RefusePending
  <2>4. PICK id : /\ id = PendingTest
                  /\ Replies(conn, Msg("CAPCON", id)) /\ AwaitsSend(conn, "delivering")
    BY <2>3 DEF OnRequestCapcon, SendNothing, SendPending
  <2>5. to_client'[conn] = <<Msg("CAPCON", id)>>
    <3>1. to_client \in [Conns -> Seq(Message(Reply))]
      BY DEF SystemTyped, ServerTyped, WireTypeOK
    <3> QED
      BY <1>1, <2>2, <2>4, <3>1, Singleton DEF Replies, SendTo, Post
  <2>6. id = t
    BY <2>1, <2>5, Singleton DEF Msg
  <2>7. handler'[conn] = "delivering"
    BY <2>2, <2>4 DEF AwaitsSend, HandlerBecomes, SystemTyped, ServerTyped, ServerTypeOK
  <2> QED
    BY <2>4, <2>6, <2>7, WireAssumption DEF PendingTest
<1>5. ASSUME NEW t \in Tests, Holds(t)' PROVE executed'[t] <= Restarts' /\ LetGo(t)'
  <2>1. Head(test_queue) \in Queued(test_queue)
    <3>1. Head(test_queue) = test_queue[1] /\ 1 \in DOMAIN test_queue
      BY <1>4, <1>5 DEF SystemTyped, ServerTyped, ServerTypeOK
    <3> QED
      BY <3>1 DEF Queued
  <2> QED
    BY <1>2, <1>3, <1>4, <1>5, <2>1 DEF Once, LetGo
<1> QED
  BY <1>2, <1>3, <1>5 DEF Once

LEMMA DeliveryKeeps ==
    ASSUME SystemTyped, Dialogue, Once, NEW c \in Conns, Delivered(c),
           UNCHANGED <<clientVars, executed>>, Restarts' = Restarts
    PROVE  Once'
<1>1. /\ test_queue' = PopTest(test_queue)
      /\ UNCHANGED <<client_state, conn, current, to_client, server_up>>
  BY DEF Delivered, wire, clientVars, process
<1>2. test_queue \in Seq(Tests)
  BY DEF SystemTyped, ServerTyped, ServerTypeOK
<1>3. server_up
  BY DEF Once, Delivered
<1>4. /\ Distinct(test_queue') /\ Queued(test_queue') \subseteq Queued(test_queue)
      /\ test_queue # <<>> => Head(test_queue) \notin Queued(test_queue')
  BY <1>1, <1>2, PopRemoves DEF Once
<1>5. ASSUME NEW t \in Tests, Holds(t)'
      PROVE  /\ executed'[t] <= Restarts'
             /\ executed'[t] < Restarts' \/ LetGo(t)'
  <2>1. Holds(t)
    BY <1>1, <1>5 DEF Holds, Received
  <2>2. test_queue = <<>> => Queued(test_queue) = {}
    BY DEF Queued
  <2>3. /\ executed'[t] <= Restarts'
        /\ executed'[t] < Restarts' \/ LetGo(t)
    BY <2>1 DEF Once
  <2>4. LetGo(t) => LetGo(t)'
    BY <1>1, <1>3, <1>4, <2>2 DEF LetGo
  <2> QED
    BY <2>3, <2>4
<1> QED
  BY <1>1, <1>3, <1>4, <1>5 DEF Once

LEMMA HandlersOnce ==
    ASSUME SystemTyped, Dialogue, Once, NEW c \in Conns,
           AnyHandler(c),
           UNCHANGED <<clientVars, executed>>, Restarts' = Restarts
    PROVE  Once'
<1>1. UNCHANGED <<client_state, conn, current>>
  BY DEF clientVars, process
<1>2. CASE Delivered(c)
  BY <1>2, DeliveryKeeps
<1>3. CASE OnRequestCapcon(c) /\ c = conn
  BY <1>3, HandsOut
<1>4. CASE ~Delivered(c) /\ ~(OnRequestCapcon(c) /\ c = conn)
  <2>1. UNCHANGED <<test_queue, server_up>>
    BY <1>4 DEF AnyHandler, ServerHandles, OnClientHello, OnRequestUpload, OnRequestUploadUnsaved,
                OnRequestCapcon, OnRequestCapconUnparsed, OnAckCapcon, OnUnknown, OnMalformed,
                OnDisconnect, Triggered, SendRaises, FrameRefused, serverVars, config
  <2>2. handler[c] # "off"
    BY <1>4 DEF AnyHandler, ServerHandles, OnClientHello, OnRequestUpload, OnRequestUploadUnsaved,
                OnRequestCapcon, OnRequestCapconUnparsed, OnAckCapcon, OnUnknown, OnMalformed,
                OnDisconnect, Triggered, SendRaises, FrameRefused, TooLarge, Receives, Waiting
  <2>3. server_up
    BY <2>2 DEF Once
  <2>4. ASSUME NEW t \in Tests, Holds(t)'
        PROVE  /\ Holds(t)
               /\ handler[conn] = "delivering" => handler'[conn] = "delivering"
    <3>1. conn \in Conns
      BY <1>1, <2>4 DEF Holds, SystemTyped, ClientTyped, Connected
    <3>2. CASE c # conn
      <4>1. to_client'[conn] = to_client[conn] /\ handler'[conn] = handler[conn]
        BY <3>1, <3>2, OthersSlots
      <4> QED
        BY <1>1, <2>4, <4>1 DEF Holds, Received
    <3>3. CASE c = conn
      <4>1. CASE client_state = "offline_testing"
        <5>1. handler[conn] = "delivering" => ~SendRaises(conn)
          BY <3>1, <4>1, Replied DEF SendRaises, Waits
        <5>2. handler[conn] = "delivering" => FALSE
          BY <1>4, <3>3, <5>1
             DEF AnyHandler, ServerHandles, OnClientHello, OnRequestUpload, OnRequestUploadUnsaved,
                 OnRequestCapcon, OnRequestCapconUnparsed, OnAckCapcon, OnUnknown, OnMalformed,
                 OnDisconnect, Triggered, FrameRefused, TooLarge, Receives, Waiting
        <5> QED
          BY <1>1, <2>4, <4>1, <5>2 DEF Holds
      <4>2. CASE client_state = "preparing_ready_for_test"
        <5>1. to_client'[conn] # <<>>
          BY <1>1, <2>4, <4>2 DEF Holds
        <5>2. ~SendRaises(c)
          BY <3>1, <3>3, <5>1 DEF SendRaises, Empty, SystemTyped, ServerTyped, WireTypeOK
        <5>3. CASE OnDisconnect(c)
          BY <1>1, <2>4, <3>3, <5>3 DEF OnDisconnect, wire, Holds, Received
        <5>4. handler[c] # "triggering" /\ ~(\E type \in Request : type # "REQUEST_CAPCON" /\ Waiting(c, type))
          BY <3>1, <3>3, <4>2, Asked DEF Dialogue, Preparing
        <5>5. ~Triggered(c) /\ ~OnAckCapcon(c) /\ ~OnClientHello(c) /\ ~OnRequestUpload(c)
          BY <5>4 DEF Triggered, OnAckCapcon, OnClientHello, OnRequestUpload, Receives, Request
        <5>6. ~OnRequestUploadUnsaved(c) /\ ~OnUnknown(c) /\ ~OnMalformed(c) /\ ~FrameRefused(c)
          BY <5>4 DEF OnRequestUploadUnsaved, OnUnknown, OnMalformed, FrameRefused, TooLarge, Receives, Request
        <5>7. ~OnRequestCapconUnparsed(c)
          BY <3>1, <3>3, <5>1, Asked DEF OnRequestCapconUnparsed, Receives
        <5> QED
          BY <1>4, <3>3, <5>2, <5>3, <5>5, <5>6, <5>7 DEF AnyHandler, ServerHandles
      <4> QED
        BY <1>1, <2>4, <4>1, <4>2 DEF Holds
    <3> QED
      BY <3>2, <3>3
  <2> QED
    BY <2>1, <2>3, <2>4, QuietKeeps
<1> QED
  BY <1>2, <1>3, <1>4

(* Faults other than a restart of the server count no restart. *)
LEMMA RestartsCounted ==
    ASSUME SystemTyped
    PROVE  /\ ServerFault => Restarts' = Restarts + 1
           /\ ClientFault \/ TornFault => Restarts' = Restarts
           /\ \A c \in Conns : LinkFault(c) \/ SaveFault(c) => Restarts' = Restarts
<1>1. ServerFault => Restarts' = Restarts + 1
  BY FaultType DEF ServerFault, FaultKind, Restarts
<1>2. ClientFault \/ TornFault => Restarts' = Restarts
  <2>1. ClientFault => Restarts' = Restarts
    BY FaultType DEF ClientFault, FaultKind, Restarts
  <2>2. TornFault => Restarts' = Restarts
    BY FaultType DEF TornFault, FaultKind, Restarts
  <2> QED
    BY <2>1, <2>2
<1>3. ASSUME NEW c \in Conns PROVE LinkFault(c) \/ SaveFault(c) => Restarts' = Restarts
  <2>1. LinkFault(c) => Restarts' = Restarts
    BY FaultType DEF LinkFault, FaultKind, Restarts
  <2>2. SaveFault(c) => Restarts' = Restarts
    BY FaultType DEF SaveFault, FaultKind, Restarts
  <2> QED
    BY <2>1, <2>2
<1> QED
  BY <1>1, <1>2, <1>3

LEMMA ServerSideOnce ==
    ASSUME SystemTyped, Dialogue, Once,
           \/ UNCHANGED systemVars \/ Done \/ ServerPayloads \/ ServerComesUp \/ ServerFault
           \/ \E c \in Conns : ServerStep(c) \/ LinkFault(c) \/ SaveFault(c)
    PROVE  Once'
<1>1. UNCHANGED <<clientVars, executed>>
  BY DEF systemVars, Done, ServerPayloads, ServerComesUp, ServerFault, ServerStep, LinkFault, SaveFault,
         history
<1>2. UNCHANGED <<client_state, conn, current>>
  BY <1>1 DEF clientVars, process
<1>3. CASE UNCHANGED systemVars \/ Done \/ ServerPayloads
  <2>1. UNCHANGED <<wire, handler, test_queue, server_up, faults>>
    BY <1>3 DEF systemVars, Done, ServerPayloads, ServerRunsPayloads, ServerMexec,
                ServerPayloadEnds, serverVars, config, history
  <2> QED
    BY <1>1, <1>2, <2>1, QuietKeeps DEF wire, Holds, Received, Restarts, Once
<1>4. CASE ServerComesUp
  <2>1. /\ ~server_up /\ server_up' = TRUE /\ test_queue' \in TestOrders
        /\ UNCHANGED <<wire, handler, faults>>
    BY <1>4 DEF ServerComesUp, ServerStarts, history
  <2>2. \A t \in Tests : executed[t] <= Restarts
    BY <2>1, CountersInt DEF Once
  <2>3. Queued(test_queue') \subseteq Tests
    BY <2>1 DEF TestOrders, Queued
  <2>4. ASSUME NEW t \in Tests, Holds(t)' PROVE executed'[t] <= Restarts' /\ executed'[t] < Restarts'
    BY <1>1, <1>2, <2>1, <2>4 DEF Once, LetGo, Holds, Received, wire, Restarts
  <2>5. Distinct(test_queue')
    BY <2>1, OrdersDistinct
  <2>6. \A t \in Tests : executed'[t] <= Restarts' + 1
    BY <1>1, <2>1, <2>2, CountersInt DEF Restarts
  <2> QED
    BY <1>1, <2>1, <2>2, <2>3, <2>4, <2>5, <2>6 DEF Once, Restarts
<1>5. CASE ServerFault
  <2>1. ProcessGone /\ UNCHANGED to_client
    BY <1>5, KillEndsAll
  <2>2. UNCHANGED test_queue
    BY <1>5 DEF ServerFault, ServerStops, ServerKilled, ServerStopsWhileSaving, ServerKilledArchiving,
                ServerKilledCleaning, ServerKilledStoring, ServerKilledTriggering, config
  <2>3. Restarts' = Restarts + 1
    BY <1>5, RestartsCounted
  <2>4. \A t \in Tests : executed[t] \in Nat /\ executed[t] <= Restarts + 1
    BY CountersInt DEF Once
  <2>5. ASSUME NEW t \in Tests, Holds(t)' PROVE executed'[t] <= Restarts' /\ executed'[t] < Restarts'
    <3>1. Holds(t)
      BY <1>2, <2>1, <2>5 DEF Holds, Received
    <3>2. executed[t] <= Restarts
      BY <3>1 DEF Once
    <3> QED
      BY <1>1, <2>3, <2>4, <3>2, CountersInt
  <2>6. server_up' = FALSE /\ \A c \in Conns : handler'[c] = "off"
    BY <2>1 DEF ProcessGone
  <2>7. \A t \in Tests : executed'[t] <= Restarts' + 0
    BY <1>1, <2>3, <2>4, CountersInt
  <2> QED
    BY <2>2, <2>5, <2>6, <2>7 DEF Once
<1>6. ASSUME NEW c \in Conns, LinkFault(c) PROVE Once'
  <2>1. UNCHANGED <<handler, test_queue, server_up>> /\ Restarts' = Restarts
    BY <1>6, RestartsCounted DEF LinkFault, serverVars, config
  <2>2. ASSUME NEW t \in Tests, Holds(t)' PROVE Holds(t)
    <3>1. CASE client_state = "offline_testing"
      BY <1>2, <2>2, <3>1 DEF Holds
    <3>2. CASE client_state = "preparing_ready_for_test"
      <4>1. conn \in Conns
        BY <3>2 DEF SystemTyped, ClientTyped, Connected
      <4>2. to_client'[conn] \in {to_client[conn], <<>>}
        BY <1>6, <4>1 DEF LinkFault, Empty, SystemTyped, ServerTyped, WireTypeOK
      <4> QED
        BY <1>2, <2>2, <3>2, <4>2 DEF Holds, Received
    <3> QED
      BY <1>2, <2>2, <3>1, <3>2 DEF Holds
  <2> QED
    BY <1>1, <1>2, <2>1, <2>2, QuietKeeps DEF Once
<1>7. ASSUME NEW c \in Conns, ServerStep(c) \/ SaveFault(c) PROVE Once'
  <2>1. Restarts' = Restarts
    <3>1. CASE ServerStep(c)
      BY <3>1 DEF ServerStep, history, Restarts
    <3>2. CASE SaveFault(c)
      BY <3>2, RestartsCounted
    <3> QED
      BY <1>7, <3>1, <3>2
  <2>2. AnyHandler(c)
    BY <1>7 DEF ServerStep, SaveFault, AnyHandler
  <2> QED
    BY <1>1, <2>1, <2>2, HandlersOnce
<1> QED
  BY <1>3, <1>4, <1>5, <1>6, <1>7

(* On the client's side, holding is only passed on from the reply to the   *)
(* acknowledgement, and ends with the process.                             *)
LEMMA GoneHoldsNothing ==
    ASSUME Gone("off") \/ Gone("finished")
    PROVE  \A t : ~Holds(t)'
BY DEF Gone, Holds

LEMMA HoldsHandled ==
    ASSUME SystemTyped, Dialogue, ClientHandles, NEW t \in Tests, Holds(t)'
    PROVE  Holds(t) /\ UNCHANGED conn
<1>1. ~Gone("off") /\ ~Gone("finished")
  BY GoneHoldsNothing
<1>2. ~HandleServerHello
  BY DEF HandleServerHello, Holds
<1>3. ~CheckFilesForUpload
  <2> SUFFICES ASSUME CheckFilesForUpload PROVE FALSE
    OBVIOUS
  <2>1. to_client[conn] = <<>> /\ UNCHANGED to_client
    BY DEF CheckFilesForUpload, Dialogue, Greeted, Silent
  <2>2. client_state' # "offline_testing" /\ UNCHANGED conn
    BY <1>1 DEF CheckFilesForUpload, UploadNext
  <2> QED
    BY <2>1, <2>2 DEF Holds
<1>4. ~HandleUploadComplete
  <2> SUFFICES ASSUME HandleUploadComplete PROVE FALSE
    OBVIOUS
  <2>1. to_client'[conn] = <<>>
    BY ReadsLast DEF HandleUploadComplete, Handles
  <2>2. client_state' # "offline_testing" /\ UNCHANGED conn
    BY <1>1 DEF HandleUploadComplete, UploadNext
  <2> QED
    BY <2>1, <2>2 DEF Holds
<1>5. HandleCapcon
  BY <1>1, <1>2, <1>3, <1>4
     DEF ClientHandles, CheckFilesRaises, HandleLastCapcon, HandleCapconRaises, HandleExecute,
         HandleExecuteMismatch, BadReply, ConnectionLost, Dies
<1> QED
  BY <1>5 DEF HandleCapcon, Handles, Reads, Holds

(* Starting a capture uses up the right to do so. *)
LEMMA ExecutionOnce ==
    ASSUME SystemTyped, Dialogue, Once, ClientHandles \/ ClientCrashes,
           restart_timer', ~restart_timer, CountExecution,
           UNCHANGED serverVars, Restarts' = Restarts
    PROVE  Once'
<1>1. /\ client_state = "offline_testing" /\ Gone("off") /\ Reads
  BY OnlyExecutionArms DEF Handles
<1>2. current \in Tests /\ Holds(current)
  BY <1>1 DEF Holds, SystemTyped, ClientTyped, Connected
<1>3. handler[conn] # "delivering"
  BY <1>1, Replied DEF Reads
<1>4. executed[current] <= Restarts
  BY <1>2 DEF Once
<1>5. \/ executed[current] < Restarts
      \/ server_up /\ current \notin Queued(test_queue)
  BY <1>2, <1>3 DEF Once, LetGo
<1>6. /\ \A t \in Tests \ {current} : executed'[t] = executed[t]
      /\ executed'[current] \in {executed[current], executed[current] + 1}
  BY <1>2 DEF CountExecution, Count, SystemTyped
<1>7. UNCHANGED <<server_up, test_queue, handler>>
  BY DEF serverVars, config
<1>8. \A t \in Tests : executed'[t] <= Restarts' + (IF server_up' THEN 1 ELSE 0)
  <2>1. ASSUME NEW t \in Tests \ {current}
        PROVE  executed'[t] <= Restarts' + (IF server_up' THEN 1 ELSE 0)
    BY <1>6, <1>7, <2>1 DEF Once
  <2>2. executed'[current] <= Restarts' + (IF server_up' THEN 1 ELSE 0)
    BY <1>2, <1>4, <1>5, <1>6, <1>7, CountersInt
  <2> QED
    BY <2>1, <2>2
<1>9. server_up => \A t \in Tests : t \in Queued(test_queue) => executed'[t] <= Restarts'
  <2>1. ASSUME server_up, NEW t \in Tests \ {current}, t \in Queued(test_queue)
        PROVE  executed'[t] <= Restarts'
    BY <1>6, <2>1 DEF Once
  <2>2. current \in Queued(test_queue) => executed'[current] <= Restarts'
    BY <1>2, <1>5, <1>6, CountersInt
  <2> QED
    BY <2>1, <2>2
<1>10. Queued(test_queue) \subseteq Tests
  BY DEF Queued, SystemTyped, ServerTyped, ServerTypeOK
<1>11. \A t \in Tests : ~Holds(t)'
  BY <1>1, GoneHoldsNothing
<1> QED
  BY <1>7, <1>8, <1>9, <1>10, <1>11 DEF Once

LEMMA OnceStep == SystemTyped /\ Dialogue /\ Once /\ StepOfSystem => Once'
<1> SUFFICES ASSUME SystemTyped, Dialogue, Once, StepOfSystem PROVE Once'
  OBVIOUS
<1>1. CASE ClientStep \/ ClientFault
  <2>1. /\ UNCHANGED serverVars /\ Restarts' = Restarts /\ CountExecution
        /\ ClientHandles \/ ClientCrashes
    BY <1>1, RestartsCounted DEF ClientStep, ClientFault, Restarts
  <2>2. CASE restart_timer' /\ ~restart_timer
    BY <2>1, <2>2, ExecutionOnce
  <2>3. CASE ~(restart_timer' /\ ~restart_timer)
    <3>1. UNCHANGED <<executed, server_up, test_queue, handler>>
      BY <2>1, <2>3 DEF CountExecution, serverVars, config
    <3>2. ASSUME NEW t \in Tests, Holds(t)' PROVE Holds(t) /\ UNCHANGED conn
      <4>1. ClientHandles
        BY <2>1, <3>2, GoneHoldsNothing
           DEF ClientCrashes, ClientKilled, KilledArchiving, KilledCleaning, KilledStoring,
               KilledExecuting, Dies
      <4> QED
        BY <3>2, <4>1, HoldsHandled
    <3> QED
      BY <2>1, <3>1, <3>2 DEF Once, LetGo
  <2> QED
    BY <2>2, <2>3
<1>2. CASE \/ TornFault \/ Restart \/ OperatorStart \/ CannotConnect \/ ClientPayloads
           \/ \E c \in Conns : Connect(c)
  <2>1. UNCHANGED <<executed, server_up, test_queue>> /\ Restarts' = Restarts
    BY <1>2, RestartsCounted
       DEF TornFault, Restart, OperatorStart, CannotConnect, ClientPayloads, Connect, Accept,
           serverVars, config, history, Restarts
  <2>2. ASSUME NEW t \in Tests, Holds(t)' PROVE Holds(t) /\ UNCHANGED <<conn, handler>>
    <3>1. CASE TornFault
      BY <2>2, <3>1, GoneHoldsNothing DEF TornFault, KilledWriting
    <3>2. CASE Restart \/ OperatorStart \/ CannotConnect
      <4>1. \/ Gone("off")
            \/ client_state' = "disconnected"
        BY <3>2 DEF Restart, StartsByTimer, OperatorStart, StartsByOperator, ClientStarts,
                    CannotConnect, ConnectFails, Disconnected, GivesUp
      <4> QED
        BY <2>2, <4>1, GoneHoldsNothing DEF Holds
    <3>3. CASE \E c \in Conns : Connect(c)
      BY <2>2, <3>3 DEF Connect, Connects, Holds
    <3>4. CASE ClientPayloads
      BY <2>2, <3>4 DEF ClientPayloads, ClientRunsPayloads, ClientMexec, ClientPayloadEnds, wire,
                        process, Holds, Received, serverVars
    <3> QED
      BY <1>2, <3>1, <3>2, <3>3, <3>4
  <2>3. ~server_up => \A c \in Conns : handler'[c] = "off"
    <3>1. CASE \E c \in Conns : Connect(c)
      BY <3>1 DEF Connect, Accept
    <3>2. CASE ~(\E c \in Conns : Connect(c))
      BY <1>2, <3>2 DEF Once, TornFault, Restart, OperatorStart, CannotConnect, ClientPayloads,
                        serverVars
    <3> QED
      BY <3>1, <3>2
  <2> QED
    BY <2>1, <2>2, <2>3 DEF Once, LetGo
<1> QED
  BY <1>1, <1>2, ServerSideOnce DEF StepOfSystem, SystemNext, AnyFault

LEMMA OnceInit == SystemInit => Once
<1> SUFFICES ASSUME SystemInit PROVE Once
  OBVIOUS
<1>1. Distinct(test_queue) /\ Queued(test_queue) \subseteq Tests
  BY OrdersDistinct DEF SystemInit, ServerInit, TestOrders, Queued
<1>2. Restarts = 0 /\ server_up /\ \A t \in Tests : executed[t] = 0 /\ ~Holds(t)
  BY DEF SystemInit, ServerInit, ClientInit, Restarts, FaultKind, Holds
<1> QED
  BY <1>1, <1>2 DEF Once

(* For any number of CapCons, kills, broken links and connections of dead  *)
(* clients, the client starts a capture once per server process at most.   *)
THEOREM CapturesRunOnce == SystemSpec => []ExecutedOncePerServer
<1>1. SystemTyped /\ Once => ExecutedOncePerServer
  BY CountersInt DEF Once, ExecutedOncePerServer, Restarts
<1> QED
  BY <1>1, SystemTypedInit, SystemTypedStep, DialogueInit, DialogueStep, OnceInit, OnceStep, PTL
     DEF SystemSpec, StepOfSystem
-----------------------------------------------------------------------------
(* Configurations without their CapCon are what only a kill leaves on the  *)
(* server.  It also closes every socket, and a client that comes back      *)
(* says CLIENT_HELLO, which removes them, before it asks for a CapCon.     *)

Tidy == MayStore(server_live) => \A p \in Payloads : JobFile(p) \notin server_live

NoRequest(q) == \A i \in DOMAIN q : q[i].type # "REQUEST_CAPCON"

Unserved ==
    /\ \A c \in Conns : NoRequest(to_server[c])
    /\ conn \in Conns => \/ link[conn] = "closed"
                         \/ client_state = "connecting" /\ to_client[conn] = <<>>

Orphans == Tidy \/ Unserved

LEMMA TidyKept ==
    ASSUME SystemTyped, StepOfSystem, ~ServerFault, Tidy
    PROVE  Tidy'
<1>1. CASE UNCHANGED server_live
  BY <1>1 DEF Tidy
<1>2. CASE \E c \in Conns : OnClientHello(c)
  BY <1>2 DEF OnClientHello, CleanLive, Tidy
<1>3. CASE \E c \in Conns : SendPending(c)
  <2>1. PendingTest \in Tests
    BY <1>3 DEF SendPending, PendingTest, SystemTyped, ServerTyped, ServerTypeOK
  <2> QED
    BY <1>3, <2>1 DEF SendPending, StoreCapcon, MayStore, HasCapcon, Tidy
<1>4. CASE \E p \in Payloads : ServerPayloadEnds(p)
  <2>1. PICK p \in Payloads : server_live' = server_live \cup {OutFile(p)}
    BY <1>4 DEF ServerPayloadEnds
  <2>2. /\ \A t : CapconFile(t) \in server_live' <=> CapconFile(t) \in server_live
        /\ \A t : TornFile(t) \in server_live' <=> TornFile(t) \in server_live
        /\ \A q : JobFile(q) \in server_live' <=> JobFile(q) \in server_live
    BY <2>1, FilesDiffer
  <2> QED
    BY <2>2 DEF Tidy, MayStore, HasCapcon, Torn
<1>5. ASSUME NEW c \in Conns, ServerStep(c)
      PROVE  UNCHANGED server_live \/ OnClientHello(c) \/ SendPending(c)
  BY <1>5 DEF ServerStep, FrameRefused, OnRequestCapconUnparsed, ServerHandles, OnRequestUpload,
              OnRequestCapcon, SendNothing, RefusePending, OnAckCapcon, OnUnknown, OnMalformed, OnDisconnect, Delivered,
              Triggered, SendRaises
<1>6. CASE ServerPayloads
  BY <1>1, <1>4, <1>6 DEF ServerPayloads, ServerRunsPayloads, ServerMexec
<1>7. CASE \/ UNCHANGED systemVars \/ Done \/ Restart \/ OperatorStart \/ CannotConnect
           \/ ClientStep \/ ClientPayloads \/ ServerComesUp \/ ClientFault \/ TornFault
           \/ \E c \in Conns : Connect(c) \/ LinkFault(c) \/ SaveFault(c)
  <2>1. UNCHANGED server_live
    BY <1>7 DEF systemVars, Done, Restart, OperatorStart, CannotConnect, ClientStep, ClientPayloads,
                ServerComesUp, ServerStarts, ClientFault, TornFault, Connect, Accept, LinkFault,
                SaveFault, OnRequestUploadUnsaved, serverVars
  <2> QED
    BY <1>1, <2>1
<1> QED
  BY <1>1, <1>2, <1>3, <1>5, <1>6, <1>7 DEF StepOfSystem, SystemNext, AnyFault

LEMMA DropsNoRequest ==
    ASSUME NEW q \in Seq(Message(Request)), NoRequest(q), q # <<>>
    PROVE  NoRequest(Tail(q)) /\ Head(q).type # "REQUEST_CAPCON"
<1> DEFINE r == Tail(q)
<1>1. /\ \A i \in DOMAIN r : r[i] = q[i + 1] /\ i + 1 \in DOMAIN q
      /\ Head(q) = q[1] /\ 1 \in DOMAIN q
  <2> HIDE DEF Message
  <2> QED
    OBVIOUS
<1> HIDE DEF r
<1>2. NoRequest(r)
  BY <1>1 DEF NoRequest
<1> QED
  BY <1>1, <1>2 DEF NoRequest, r

(* A handler reads a frame, or none. *)
LEMMA HandlersRead ==
    ASSUME NEW c \in Conns, AnyHandler(c)
    PROVE  /\ UNCHANGED to_server \/ (to_server[c] # <<>> /\ to_server' = Drop(to_server, c))
           /\ link' = link \/ link' = Close(link, c)
BY DEF AnyHandler, ServerHandles, OnClientHello, OnRequestUpload, OnRequestUploadUnsaved,
       OnRequestCapcon, OnRequestCapconUnparsed, SendNothing, SendPending, RefusePending, OnAckCapcon, OnUnknown, OnMalformed, OnDisconnect,
       Delivered, Triggered, SendRaises, FrameRefused, TooLarge, Receives, Waiting, HandlerEnds, wire

LEMMA ServerSideOrphans ==
    ASSUME SystemTyped, Dialogue, Unserved,
           \/ UNCHANGED systemVars \/ Done \/ ServerPayloads \/ ServerComesUp
           \/ \E c \in Conns : ServerStep(c) \/ LinkFault(c) \/ SaveFault(c)
    PROVE  Tidy' \/ Unserved'
<1> USE DEF SystemTyped, ServerTyped, WireTypeOK
<1>1. UNCHANGED <<client_state, conn>>
  BY DEF systemVars, Done, ServerPayloads, ServerComesUp, ServerStep, LinkFault, SaveFault,
         clientVars, process
<1>2. CASE UNCHANGED wire
  BY <1>1, <1>2 DEF wire, Unserved
<1>3. CASE UNCHANGED systemVars \/ Done \/ ServerPayloads \/ ServerComesUp
  BY <1>2, <1>3 DEF systemVars, Done, ServerPayloads, ServerRunsPayloads, ServerMexec,
                    ServerPayloadEnds, ServerComesUp, ServerStarts
<1>4. ASSUME NEW c \in Conns, LinkFault(c) PROVE Unserved'
  <2>1. \A d \in Conns : to_server'[d] \in {to_server[d], <<>>}
    BY <1>4 DEF LinkFault, Empty
  <2>2. \A d \in Conns : to_client'[d] \in {to_client[d], <<>>}
    BY <1>4 DEF LinkFault, Empty
  <2>3. \A d \in Conns : link[d] = "closed" => link'[d] = "closed"
    BY <1>4 DEF LinkFault, Close
  <2>4. NoRequest(<<>>)
    BY DEF NoRequest
  <2> QED
    BY <1>1, <2>1, <2>2, <2>3, <2>4 DEF Unserved
<1>5. ASSUME NEW c \in Conns, ServerStep(c) \/ SaveFault(c) PROVE Tidy' \/ Unserved'
  <2>1. AnyHandler(c)
    BY <1>5 DEF ServerStep, SaveFault, AnyHandler
  <2>2. UNCHANGED to_server \/ (to_server[c] # <<>> /\ to_server' = Drop(to_server, c))
    BY <2>1, HandlersRead
  <2>3. \A d \in Conns : NoRequest(to_server'[d])
    BY <2>2, DropsNoRequest DEF Drop, Unserved
  <2>4. \A d \in Conns : link[d] = "closed" => link'[d] = "closed"
    BY <2>1, HandlersRead DEF Close
  <2>5. CASE OnClientHello(c)
    BY <2>5 DEF OnClientHello, CleanLive, Tidy
  <2>6. CASE conn \in Conns /\ link[conn] # "closed" /\ ~OnClientHello(c)
    <3>1. client_state = "connecting" /\ to_client[conn] = <<>>
      BY <2>6 DEF Unserved
    <3>2. CASE c # conn
      <4>1. to_client'[conn] = to_client[conn]
        BY <2>1, <2>6, <3>2, OthersSlots
      <4> QED
        BY <1>1, <2>3, <3>1, <4>1 DEF Unserved
    <3>3. CASE c = conn
      <4>1. \A type : Waiting(c, type) => type = "CLIENT_HELLO"
        BY <2>6, <3>1, <3>3, Asked
      <4>2. OnDisconnect(c) \/ Delivered(c) \/ Triggered(c) \/ SendRaises(c)
        BY <2>1, <2>6, <4>1
           DEF AnyHandler, ServerHandles, OnRequestUpload, OnRequestUploadUnsaved, OnRequestCapcon,
               OnRequestCapconUnparsed, OnAckCapcon, OnUnknown, OnMalformed, FrameRefused, TooLarge, Receives
      <4>3. to_client'[conn] = <<>>
        BY <3>1, <3>3, <4>2 DEF OnDisconnect, Delivered, Triggered, SendRaises, wire
      <4> QED
        BY <1>1, <2>3, <3>1, <4>3 DEF Unserved
    <3> QED
      BY <3>2, <3>3
  <2>7. CASE conn \in Conns => link[conn] = "closed"
    BY <1>1, <2>3, <2>4, <2>7 DEF Unserved
  <2> QED
    BY <2>5, <2>6, <2>7
<1> QED
  BY <1>3, <1>4, <1>5

(* The client's steps: while it may be unserved it only waits for the      *)
(* SERVER_HELLO, and what it sends on a closed socket goes nowhere.        *)
LEMMA GoneUnserved ==
    ASSUME SystemTyped, Unserved, Gone("off") \/ Gone("finished"), UNCHANGED to_server
    PROVE  Unserved'
BY ClientAssumption DEF Gone, Unserved

LEMMA ClientHandlesUnserved ==
    ASSUME SystemTyped, Unserved, ClientHandles
    PROVE  Unserved'
<1>1. CASE HandleServerHello
  <2>1. conn \in Conns /\ to_client[conn] # <<>> /\ UNCHANGED <<to_server, link, conn>>
    BY <1>1, ReadsType DEF HandleServerHello, Handles, Reads, SystemTyped
  <2> QED
    BY <2>1 DEF Unserved
<1>2. CASE CheckFilesForUpload \/ HandleUploadComplete \/ HandleCapcon
  <2>1. conn \in Conns /\ client_state # "connecting"
    BY <1>2 DEF CheckFilesForUpload, HandleUploadComplete, HandleCapcon, Handles,
                SystemTyped, ClientTyped, Connected
  <2>2. link[conn] # "open"
    BY <2>1 DEF Unserved
  <2>3. \A m : Sends(m) => UNCHANGED to_server
    BY <2>2 DEF Sends, SendTo
  <2>4. CASE UNCHANGED <<to_server, link, conn>>
    BY <2>1, <2>4 DEF Unserved
  <2>5. \/ UNCHANGED <<to_server, link, conn>>
        \/ Gone("off") /\ UNCHANGED to_server
    BY <1>2, <2>3 DEF CheckFilesForUpload, HandleUploadComplete, HandleCapcon, UploadNext
  <2> QED
    BY <2>4, <2>5, GoneUnserved
<1>3. CASE \/ CheckFilesRaises \/ HandleLastCapcon \/ HandleCapconRaises \/ HandleExecute
           \/ HandleExecuteMismatch \/ BadReply \/ ConnectionLost
  <2>1. Gone("off") \/ Gone("finished")
    BY <1>3 DEF CheckFilesRaises, HandleLastCapcon, HandleCapconRaises, HandleExecute,
                HandleExecuteMismatch, BadReply, ConnectionLost, Dies
  <2>2. UNCHANGED to_server
    BY <1>3 DEF CheckFilesRaises, HandleLastCapcon, HandleCapconRaises, HandleExecute,
                HandleExecuteMismatch, BadReply, ConnectionLost, Dies
  <2> QED
    BY <2>1, <2>2, GoneUnserved
<1> QED
  BY <1>1, <1>2, <1>3 DEF ClientHandles

LEMMA ClientSideUnserved ==
    ASSUME SystemTyped, Dialogue, Unserved,
           \/ ClientStep \/ ClientFault \/ TornFault
           \/ Restart \/ OperatorStart \/ CannotConnect \/ ClientPayloads
           \/ \E c \in Conns : Connect(c)
    PROVE  Unserved'
<1>1. CASE ClientStep
  BY <1>1, ClientHandlesUnserved DEF ClientStep
<1>2. CASE ClientFault \/ TornFault
  <2>1. Gone("off") /\ UNCHANGED to_server
    BY <1>2 DEF ClientFault, TornFault, ClientCrashes, ClientKilled, KilledArchiving,
                KilledCleaning, KilledStoring, KilledExecuting, KilledWriting, Dies
  <2> QED
    BY <2>1, GoneUnserved
<1>3. CASE Restart \/ OperatorStart \/ CannotConnect
  <2>1. client_state \in {"off", "disconnected"} /\ UNCHANGED to_server
    BY <1>3 DEF Restart, StartsByTimer, OperatorStart, StartsByOperator, ClientStarts,
                CannotConnect, ConnectFails
  <2>2. \/ Gone("off")
        \/ UNCHANGED conn
    BY <1>3 DEF Restart, StartsByTimer, OperatorStart, StartsByOperator, ClientStarts,
                CannotConnect, ConnectFails, Disconnected, GivesUp
  <2> QED
    BY <2>1, <2>2, ClientAssumption, GoneUnserved DEF Dialogue, Away, Unserved
<1>4. CASE ClientPayloads
  BY <1>4 DEF ClientPayloads, ClientRunsPayloads, ClientMexec, ClientPayloadEnds, wire, process,
              Unserved
<1>5. ASSUME NEW c \in Conns, Connect(c) PROVE Unserved'
  <2>1. conn' = c /\ client_state' = "connecting"
    BY <1>5 DEF Connect, Connects
  <2>2. to_client'[c] = <<>> /\ to_server'[c] = <<Msg("CLIENT_HELLO", NoTest)>>
    BY <1>5, Singleton DEF Connect, Connects, Post, Empty, SystemTyped, ServerTyped, WireTypeOK
  <2>3. \A d \in Conns : d # c => to_server'[d] = to_server[d]
    BY <1>5 DEF Connect, Connects, Post, Empty, SystemTyped, ServerTyped, WireTypeOK
  <2>4. NoRequest(<<Msg("CLIENT_HELLO", NoTest)>>)
    BY DEF NoRequest, Msg
  <2> QED
    BY <2>1, <2>2, <2>3, <2>4 DEF Unserved
<1> QED
  BY <1>1, <1>2, <1>3, <1>4, <1>5

LEMMA OrphansStep == SystemTyped /\ Dialogue /\ Orphans /\ StepOfSystem => Orphans'
<1> SUFFICES ASSUME SystemTyped, Dialogue, Orphans, StepOfSystem PROVE Orphans'
  OBVIOUS
<1>1. CASE ServerFault
  <2>1. ProcessGone /\ UNCHANGED clientVars
    BY <1>1, KillEndsAll DEF ServerFault
  <2> QED
    BY <2>1 DEF ProcessGone, Orphans, Unserved, NoRequest, clientVars, process
<1>2. CASE Tidy /\ ~ServerFault
  BY <1>2, TidyKept DEF Orphans
<1>3. CASE Unserved /\ ~ServerFault
  BY <1>3, ServerSideOrphans, ClientSideUnserved DEF StepOfSystem, SystemNext, AnyFault, Orphans
<1> QED
  BY <1>1, <1>2, <1>3 DEF Orphans

(* Wherever in a handler the server was killed, a CapCon is never stored   *)
(* next to the payload configurations of an earlier capture.               *)
THEOREM NoOrphansMeetCapcon == SystemSpec => []NoOrphanJobs
<1>1. SystemInit => Orphans
  BY DEF SystemInit, ServerInit, Orphans, Tidy
<1>2. SystemTyped /\ Orphans => NoOrphanJobs
  <2> SUFFICES ASSUME SystemTyped, Orphans, NEW c \in Conns, Waiting(c, "REQUEST_CAPCON")
               PROVE  Tidy
    BY DEF NoOrphanJobs, Tidy
  <2>1. to_server[c] \in Seq(Message(Request)) /\ to_server[c] # <<>>
    BY DEF Waiting, SystemTyped, ServerTyped, WireTypeOK
  <2> QED
    BY <2>1, DropsNoRequest DEF Orphans, Unserved, Waiting
<1> QED
  BY <1>1, <1>2, SystemTypedInit, SystemTypedStep, DialogueInit, DialogueStep, OrphansStep, PTL
     DEF SystemSpec, StepOfSystem
-----------------------------------------------------------------------------
(* Staged archives.  As long as no kill has come between archiving and     *)
(* cleaning, a CapCon in the live workspace means an empty staging area,   *)
(* so archiving it replaces nothing.                                       *)

Fresh ==
    faults["client_killed"] = 0 => (HasCapcon(client_live) => Staged(staging) = {})

LEMMA StagingMoves ==
    ASSUME SystemTyped, Fresh, StepOfSystem, faults["client_killed"] = 0, NEW t \in Tests
    PROVE  StagedLosesNothing(t)
<1> USE DEF StagedLosesNothing
<1>1. CASE UNCHANGED staging
  BY <1>1
<1>2. CASE HasCapcon(client_live)
          /\ \E files : staging' = [staging EXCEPT ![StoredCapcon(client_live)] = files]
  BY <1>2 DEF Fresh, Staged
<1>3. CASE HandleUploadComplete
  <2>1. CASE Movable(Received.id)
    <3>1. /\ staging' = [staging EXCEPT ![Received.id] = NoZip]
          /\ archive' = [archive EXCEPT ![Received.id] = staging[Received.id]]
      BY <1>3, <2>1 DEF HandleUploadComplete, MoveOut, MoveIn
    <3>2. staging \in [Tests -> Archive] /\ archive \in [Tests -> Archive]
      BY DEF SystemTyped, ClientTyped, ClientTypeOK
    <3> QED
      BY <3>1, <3>2
  <2> QED
    BY <1>1, <1>3, <2>1 DEF HandleUploadComplete
<1>4. CASE CheckFilesForUpload \/ KilledArchiving \/ KilledCleaning
  BY <1>1, <1>2, <1>4 DEF CheckFilesForUpload, KilledArchiving, KilledCleaning, CanArchive, StageLast
<1>5. CASE ClientHandles /\ ~HandleUploadComplete /\ ~CheckFilesForUpload
  BY <1>1, <1>5
     DEF ClientHandles, HandleServerHello, CheckFilesRaises, HandleCapcon, HandleLastCapcon,
         HandleCapconRaises, HandleExecute, HandleExecuteMismatch, BadReply, ConnectionLost,
         Dies, clientDisk
<1>6. CASE (ClientCrashes \/ KilledWriting) /\ ~KilledArchiving /\ ~KilledCleaning
  BY <1>1, <1>6
     DEF ClientCrashes, ClientKilled, KilledStoring, KilledExecuting, KilledWriting, Dies, clientDisk
<1>7. CASE \/ UNCHANGED systemVars \/ Done \/ Restart \/ OperatorStart \/ CannotConnect
           \/ ClientPayloads \/ ServerPayloads \/ ServerComesUp \/ ServerFault
           \/ \E c \in Conns : Connect(c) \/ ServerStep(c) \/ LinkFault(c) \/ SaveFault(c)
  <2>1. UNCHANGED staging
    BY <1>7 DEF systemVars, Done, Restart, StartsByTimer, OperatorStart, StartsByOperator,
                ClientStarts, CannotConnect, ConnectFails, ClientPayloads, ClientRunsPayloads,
                ClientMexec, ClientPayloadEnds, ServerPayloads, ServerComesUp, ServerFault,
                Connect, Connects, ServerStep, LinkFault, SaveFault, clientVars, clientDisk
  <2> QED
    BY <1>1, <2>1
<1> QED
  BY <1>3, <1>4, <1>5, <1>6, <1>7
     DEF StepOfSystem, SystemNext, ClientStep, AnyFault, ClientFault, TornFault

(* The CapCon of a workspace comes from a reply, when nothing is staged,   *)
(* and goes when it is archived.                                           *)
LEMMA CapconMoves ==
    ASSUME SystemTyped, Dialogue, StepOfSystem, ~ClientFault, HasCapcon(client_live)'
    PROVE  \/ Staged(staging)' = {}
           \/ HasCapcon(client_live) /\ UNCHANGED staging
           \/ HasCapcon(client_live) /\ HandleUploadComplete
<1>1. CASE UNCHANGED <<client_live, staging>>
  BY <1>1 DEF HasCapcon
<1>2. CASE HandleCapcon \/ HandleCapconRaises
  <2>1. Handles("preparing_ready_for_test") /\ UNCHANGED staging
    BY <1>2 DEF HandleCapcon, HandleCapconRaises
  <2> QED
    BY <2>1 DEF Handles, Dialogue, Preparing, Staged
<1>3. CASE HandleUploadComplete
  BY <1>3 DEF HandleUploadComplete, HasCapcon
<1>4. CASE CheckFilesForUpload
  BY <1>1, <1>4 DEF CheckFilesForUpload, HasCapcon
<1>5. CASE ClientHandles /\ ~HandleCapcon /\ ~HandleCapconRaises /\ ~HandleUploadComplete
           /\ ~CheckFilesForUpload
  BY <1>1, <1>5
     DEF ClientHandles, HandleServerHello, CheckFilesRaises, HandleLastCapcon, HandleExecute,
         HandleExecuteMismatch, BadReply, ConnectionLost, Dies, clientDisk
<1>6. CASE TornFault
  <2>1. UNCHANGED staging
    BY <1>6 DEF TornFault, KilledWriting
  <2>2. PICK t \in Tests : CapconFile(t) \in client_live'
    BY DEF HasCapcon
  <2>3. CapconFile(t) \in client_live
    BY <1>6, <2>2, FilesDiffer DEF TornFault, KilledWriting
  <2> QED
    BY <2>1, <2>3 DEF HasCapcon
<1>7. CASE ClientPayloads
  <2>1. PICK p \in Payloads : ClientMexec(p) \/ ClientPayloadEnds(p)
    BY <1>7 DEF ClientPayloads, ClientRunsPayloads
  <2>2. UNCHANGED staging /\ client_live' \in {client_live, client_live \cup {OutFile(p)}}
    BY <2>1 DEF ClientMexec, ClientPayloadEnds, clientDisk
  <2> QED
    BY <2>2, FilesDiffer DEF HasCapcon
<1>8. CASE \/ UNCHANGED systemVars \/ Done \/ Restart \/ OperatorStart \/ CannotConnect
           \/ ServerPayloads \/ ServerComesUp \/ ServerFault
           \/ \E c \in Conns : Connect(c) \/ ServerStep(c) \/ LinkFault(c) \/ SaveFault(c)
  <2>1. UNCHANGED clientDisk
    BY <1>8 DEF systemVars, Done, Restart, StartsByTimer, OperatorStart, StartsByOperator,
                ClientStarts, CannotConnect, ConnectFails, ServerPayloads, ServerComesUp,
                ServerFault, Connect, Connects, ServerStep, LinkFault, SaveFault, clientVars
  <2> QED
    BY <1>1, <2>1 DEF clientDisk
<1> QED
  BY <1>2, <1>3, <1>4, <1>5, <1>6, <1>7, <1>8
     DEF StepOfSystem, SystemNext, ClientStep, AnyFault

LEMMA FreshStep == SystemTyped /\ Dialogue /\ Fresh /\ StepOfSystem => Fresh'
<1> SUFFICES ASSUME SystemTyped, Dialogue, Fresh, StepOfSystem,
                    faults'["client_killed"] = 0, HasCapcon(client_live)'
             PROVE  Staged(staging)' = {}
  BY DEF Fresh
<1>1. faults["client_killed"] = 0 /\ ~ClientFault
  <2>1. faults["client_killed"] \in Nat
    BY DEF SystemTyped, FaultKind
  <2>2. \A kind \in FaultKind : Fault(kind) =>
            faults["client_killed"] = 0 /\ kind # "client_killed"
    BY <2>1, FaultType DEF FaultKind
  <2>3. CASE AnyFault
    BY <2>2, <2>3 DEF AnyFault, ClientFault, TornFault, ServerFault, LinkFault, SaveFault, FaultKind
  <2>4. CASE ~AnyFault
    <3>1. UNCHANGED faults
      BY <2>4 DEF StepOfSystem, SystemNext, systemVars, Done, Restart, OperatorStart, CannotConnect,
                  ClientStep, ClientPayloads, Connect, ServerStep, ServerPayloads, ServerComesUp,
                  history
    <3> QED
      BY <2>4, <3>1 DEF AnyFault
  <2> QED
    BY <2>3, <2>4
<1>2. CASE HasCapcon(client_live) /\ UNCHANGED staging
  BY <1>1, <1>2 DEF Fresh, Staged
<1>3. CASE HasCapcon(client_live) /\ HandleUploadComplete
  <2>1. Staged(staging) = {}
    BY <1>1, <1>3 DEF Fresh
  <2>2. \A t \in Tests : staging'[t].there => staging[t].there
    <3>1. staging \in [Tests -> Archive] /\ ~NoZip.there
      BY DEF SystemTyped, ClientTyped, ClientTypeOK, NoZip
    <3> QED
      BY <1>3, <3>1 DEF HandleUploadComplete, MoveOut
  <2> QED
    BY <2>1, <2>2 DEF Staged
<1> QED
  BY <1>1, <1>2, <1>3, CapconMoves

(* Whatever happens to the connection and to the server, an archive in the *)
(* staging area of a client that is not killed stays as it is until it is  *)
(* moved.                                                                  *)
THEOREM StagedStaysUnlessKilled == SystemSpec => StagedIsKeptUnlessKilled
<1>1. SystemInit => Fresh
  BY DEF SystemInit, ClientInit, Fresh, HasCapcon
<1>2. SystemTyped /\ Fresh /\ StepOfSystem =>
        (faults["client_killed"] = 0 => \A t \in Tests : StagedLosesNothing(t))
  BY StagingMoves
<1> QED
  BY <1>1, <1>2, SystemTypedInit, SystemTypedStep, DialogueInit, DialogueStep, FreshStep, PTL
     DEF SystemSpec, StepOfSystem, StagedIsKeptUnlessKilled
=============================================================================
