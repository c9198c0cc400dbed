--------------------------- MODULE CaptureSystem ---------------------------
(***************************************************************************)
(* A capture campaign: one measurement client and one measurement server,  *)
(* joined by websockets, each with the payloads systemd runs beside it.    *)
(*                                                                         *)
(* The client side moves when its process does, the server side when one   *)
(* of its handlers does; a handler of an earlier client process may still  *)
(* be at work, or find a frame to read, when the next process connects.    *)
(* Up to MaxFaults faults of the kinds in Faults occur.                    *)
(***************************************************************************)
EXTENDS MotraServer, MotraClient, Functions

CONSTANTS
    Faults,      \* the kinds of faults that may happen
    MaxFaults,   \* how many may happen in a behaviour
    Overruns,    \* payloads whose offset + limits exceed the capture's duration
    MayExceed,   \* CapCons whose archive may be too large for one frame
    MayNotParse  \* CapCons whose file may be refused by parse_CAPCON

FaultKind == {"client_killed", "capcon_torn", "link_broken", "server_restart",
              "upload_not_saved"}

ASSUME SystemAssumption ==
    /\ Faults \subseteq FaultKind
    /\ MaxFaults \in Nat
    /\ Overruns \subseteq Payloads
    /\ MayExceed \subseteq Tests
    /\ MayNotParse \subseteq Tests

VARIABLES
    faults,     \* history: how many faults of each kind so far
    executed,   \* history: how often the client has started each capture
    oversized,  \* CapCons whose archive exceeds the limit; never changes
    unparsable  \* CapCons whose file is JSON but no CapCon; never changes

systemVars == <<wire, serverVars, clientVars, faults, executed, oversized, unparsable>>
history    == <<faults, executed, oversized, unparsable>>

MostExecutions == MaxFaults + 2   \* the bound of the counter executed

SystemTypeOK ==
    /\ WireTypeOK /\ ServerTypeOK /\ ClientTypeOK
    /\ faults \in [FaultKind -> Nat]
    /\ executed \in [Tests -> 0..MostExecutions]
    /\ oversized \subseteq MayExceed
    /\ unparsable \subseteq MayNotParse

SystemInit ==
    /\ WireInit /\ ServerInit /\ ClientInit
    /\ faults = [k \in FaultKind |-> 0]
    /\ executed = [t \in Tests |-> 0]
    /\ oversized \in SUBSET MayExceed
    /\ unparsable \in SUBSET MayNotParse

-----------------------------------------------------------------------------
(* Steps of the client *)

(* A connection is established when both ends take part. *)
Connect(c) == Connects(c) /\ Accept(c) /\ UNCHANGED history

CannotConnect ==
    /\ ~server_up
    /\ ConnectFails
    /\ UNCHANGED <<serverVars, history>>

(* The timers of a capture fire in the order of their times: "duration"    *)
(* leaves room for every payload that keeps its limits, on both machines,  *)
(* and for the server to start its units.                                  *)
CaptureOver ==
    /\ \A p \in Payloads \ Overruns : ~Busy(client_unit, p) /\ ~Busy(server_unit, p)
    /\ \A c \in Conns : handler[c] # "triggering"

Restart == CaptureOver /\ StartsByTimer /\ UNCHANGED <<serverVars, history>>

OperatorStart == StartsByOperator /\ UNCHANGED <<serverVars, history>>

(* The trigger was obeyed: count the capture.  A step obeys it when it     *)
(* starts the client's timer.                                              *)
Count(t) == [executed EXCEPT ![t] = IF @ < MostExecutions THEN @ + 1 ELSE @]
CountExecution ==
    executed' = IF restart_timer' /\ ~restart_timer THEN Count(current) ELSE executed

ClientStep ==
    /\ ClientHandles
    /\ CountExecution
    /\ UNCHANGED <<serverVars, faults, oversized, unparsable>>

ClientPayloads == ClientRunsPayloads /\ UNCHANGED <<serverVars, history>>

-----------------------------------------------------------------------------
(* Steps of the server *)

(* An upload is one frame, with the archive in base64.  uvicorn refuses a  *)
(* frame beyond its limit before the endpoint sees it, and closes the      *)
(* socket.                                                                 *)
TooLarge(c) ==
    Waiting(c, "REQUEST_UPLOAD") /\ Head(to_server[c]).id \in oversized

FrameRefused(c) ==
    /\ TooLarge(c)
    /\ to_server' = Drop(to_server, c)
    /\ HandlerEnds(c)
    /\ UNCHANGED <<to_client, server_up, config, server_live, server_archive, server_unit>>

Unparsable(c) == Waiting(c, "REQUEST_CAPCON") /\ PendingTest \in unparsable

ServerStep(c) ==
    /\ \/ FrameRefused(c)
       \/ Unparsable(c) /\ OnRequestCapconUnparsed(c)
       \/ ~TooLarge(c) /\ ~Unparsable(c) /\ ServerHandles(c)
    /\ UNCHANGED <<clientVars, history>>
ServerPayloads == ServerRunsPayloads /\ UNCHANGED <<clientVars, history>>
ServerComesUp  == ServerStarts /\ UNCHANGED <<clientVars, history>>

-----------------------------------------------------------------------------
(* Faults *)

Fault(kind) ==
    /\ kind \in Faults /\ SumFunction(faults) < MaxFaults
    /\ faults' = [faults EXCEPT ![kind] = @ + 1]

ClientFault ==
    /\ Fault("client_killed")
    /\ ClientCrashes
    /\ CountExecution
    /\ UNCHANGED <<serverVars, oversized, unparsable>>

(* The same in the middle of writing capcon.json *)
TornFault ==
    /\ Fault("capcon_torn")
    /\ KilledWriting
    /\ UNCHANGED <<serverVars, executed, oversized, unparsable>>

(* The connection breaks; frames under way may be lost. *)
LinkFault(c) ==
    /\ Fault("link_broken")
    /\ link[c] = "open"
    /\ link' = Close(link, c)
    /\ to_server' \in {to_server, Empty(to_server, c)}
    /\ to_client' \in {to_client, Empty(to_client, c)}
    /\ UNCHANGED <<serverVars, clientVars, executed, oversized, unparsable>>

ServerFault ==
    /\ Fault("server_restart")
    /\ ServerStops \/ \E c \in Conns : ~TooLarge(c) /\ ~Unparsable(c) /\ ServerKilled(c)
    /\ UNCHANGED <<clientVars, executed, oversized, unparsable>>

SaveFault(c) ==
    /\ Fault("upload_not_saved")
    /\ ~TooLarge(c)
    /\ OnRequestUploadUnsaved(c)
    /\ UNCHANGED <<clientVars, executed, oversized, unparsable>>

AnyFault == ClientFault \/ TornFault \/ ServerFault \/ \E c \in Conns : LinkFault(c) \/ SaveFault(c)

-----------------------------------------------------------------------------

(* "finished" is where a campaign stops *)
Done ==
    /\ client_state = "finished"
    /\ UNCHANGED systemVars

SystemNext ==
    \/ Restart \/ OperatorStart \/ CannotConnect \/ ClientStep \/ ClientPayloads
    \/ \E c \in Conns : Connect(c) \/ ServerStep(c)
    \/ ServerPayloads \/ ServerComesUp
    \/ AnyFault
    \/ Done

(* The event loop serves every handler that can go on, systemd fires every *)
(* timer and ends every payload at its limit, the client's state machine   *)
(* runs, and somebody starts the client where no timer does, as well as a  *)
(* server that is down.                                                    *)
SystemFairness ==
    /\ WF_systemVars(Restart) /\ WF_systemVars(OperatorStart)
    /\ WF_systemVars(CannotConnect) /\ WF_systemVars(\E c \in Conns : Connect(c))
    /\ WF_systemVars(ClientStep) /\ WF_systemVars(ClientPayloads)
    /\ \A c \in Conns : WF_systemVars(ServerStep(c))
    /\ WF_systemVars(ServerPayloads) /\ WF_systemVars(ServerComesUp)

SystemSpec == SystemInit /\ [][SystemNext]_systemVars /\ SystemFairness

-----------------------------------------------------------------------------
(* Safety *)

(* An archive named {CapConID}.zip on the server is the complete and pure  *)
(* record of that capture, and so is what the server archived of its own   *)
(* side: no file of another capture, no log or output missing.  Only the   *)
(* output of a payload that overruns may miss its archive and turn up in   *)
(* a later one, and one that cannot be read is in none.                    *)
ClientRecord(t) ==
    {CapconFile(t), IdFile(t)} \cup JobFiles(ClientJobs[t])
        \cup LogFiles(ClientJobs[t]) \cup OutFiles(ClientJobs[t])
ServerRecord(t) ==
    {CapconFile(t), IdFile(t)} \cup JobFiles(ServerJobs[t])
        \cup LogFiles(ServerJobs[t]) \cup OutFiles(ServerJobs[t])

IsRecord(zip, record) ==
    zip.there => /\ Archivable(record) \ OutFiles(Overruns) \subseteq zip.files
                 /\ zip.files \subseteq Archivable(record \cup OutFiles(Overruns))

RecordsExact ==
    \A t \in Tests : /\ IsRecord(server_archive[Uploaded(t)], ClientRecord(t))
                     /\ IsRecord(server_archive[ServerZip(t)], ServerRecord(t))

(* Whatever the client and the network do, no capture is started twice by  *)
(* one server process: a handler of a dead client may still pop its test   *)
(* or send its trigger, but only a new process, which scans the test       *)
(* workspace again, hands a CapCon out once more.                          *)
ExecutedOncePerServer == \A t \in Tests : executed[t] <= 1 + faults["server_restart"]

(* A campaign that ends has started every capture and has both records of  *)
(* it on the server, whatever else is still running.                       *)
CompleteWhenFinished ==
    client_state = "finished" =>
        \A t \in Tests : /\ executed[t] = 1
                         /\ server_archive[Uploaded(t)].there
                         /\ server_archive[ServerZip(t)].there

(* An archive the client has moved out of its staging area, because the    *)
(* server acknowledged it, is on the server as it was uploaded.            *)
AcknowledgedIsSaved ==
    \A t \in Tests : archive[t].there => server_archive[Uploaded(t)] = archive[t]

(* When the client asks for the next CapCon, no capcon.json is left in its *)
(* live workspace and no archive in its staging area.  If no process was   *)
(* killed, the live workspace is empty but for outputs of payloads that    *)
(* overrun.  (After a kill inside clean_workspace, with capcon.json gone   *)
(* and other files not yet, the next process neither archives nor removes  *)
(* these: they end up in the archive of the next capture.)                 *)
NothingLeftBehind ==
    client_state = "preparing_ready_for_test" =>
        /\ ~HasCapcon(client_live)
        /\ \A t \in Tests : ~staging[t].there
        /\ faults["client_killed"] = 0 /\ faults["capcon_torn"] = 0 =>
                client_live \subseteq OutFiles(Overruns)

(* An archive waiting in the staging area never loses a file before it is  *)
(* uploaded: it moves to the archive as it is, or stays.                   *)
StagedLosesNothing(t) ==
    staging[t].there => \/ staging[t].files \subseteq staging'[t].files
                        \/ archive'[t] = staging[t]

StagedIsKept == [][\A t \in Tests : StagedLosesNothing(t)]_systemVars

(* The same as long as the client is not killed: neither a broken          *)
(* connection nor anything the server does makes the client archive a      *)
(* capture a second time.                                                  *)
StagedIsKeptUnlessKilled ==
    [][faults["client_killed"] = 0 => \A t \in Tests : StagedLosesNothing(t)]_systemVars

(* What a payload of the server has written is not lost by one stop or     *)
(* kill of the server, at any point of its work: it is in the live         *)
(* workspace or in an archive from then on, although the new process has   *)
(* forgotten which capture it belongs to.  This is promised of outputs     *)
(* that can be read, of payloads that keep to their limits (others may     *)
(* write into the same workspaces), and for a client that says             *)
(* CLIENT_HELLO once per REQUEST_CAPCON, which a client that is killed,    *)
(* loses its connection, or cannot get past an upload or a CapCon does     *)
(* not.                                                                    *)
OutputOnServer(p) ==
    \/ OutFile(p) \in server_live
    \/ \E t \in TestId : OutFile(p) \in server_archive[ServerZip(t)].files

OutputsSurviveRestart ==
    [][/\ \A kind \in {"client_killed", "capcon_torn", "link_broken"} : faults[kind] = 0
       /\ faults'["server_restart"] <= 1
       /\ oversized = {} /\ unparsable = {}
       => \A p \in Payloads \ (Overruns \cup Unreadable) :
            OutputOnServer(p) => OutputOnServer(p)'
      ]_systemVars

(* When a CapCon is about to be stored on the server, no configuration of  *)
(* an earlier capture is in the way, whatever a kill left behind: a client *)
(* says CLIENT_HELLO first.                                                *)
NoOrphanJobs ==
    \A c \in Conns : Waiting(c, "REQUEST_CAPCON") /\ MayStore(server_live) =>
        \A p \in Payloads : JobFile(p) \notin server_live

(* Captures do not overlap on the client: when it starts one, no payload   *)
(* of another is armed or running there, except one that overruns.  The    *)
(* timer of the client is started before the payloads, so there is no      *)
(* capture without it for an operator to start the client into.            *)
CapturesApart ==
    [][restart_timer' /\ ~restart_timer =>
            \A p \in Payloads \ Overruns : ~Busy(client_unit, p)
      ]_systemVars

(* The two machines run the same capture: when the client obeys a trigger  *)
(* for a CapCon, the server has stored that CapCon, and its units for it   *)
(* are running, or are about to be started by the handler that sent the    *)
(* trigger.                                                                *)
TriggersTogether ==
    [][restart_timer' /\ ~restart_timer =>
            /\ CapconFile(current) \in server_live
            /\ \A p \in ServerJobs[current] :
                 server_unit[p] # "none" \/ p \in schedule_units
      ]_systemVars

(* Every reply finds the client waiting for it: the client never meets a   *)
(* reply of another type, another CapConID in a trigger, or a stored       *)
(* CapCon in the way of the next one.                                      *)
RepliesFit ==
    Waits /\ to_client[conn] # <<>> =>
        /\ Received.type = Expected
        /\ client_state = "offline_testing" => Received.id = current
        /\ client_state = "preparing_ready_for_test" => MayStore(client_live)

-----------------------------------------------------------------------------
(* Liveness *)

(* What no restart of client or server repairs: a capcon.json cut short by *)
(* a kill, a staged archive that no frame can hold, and a test that does   *)
(* not parse at the head of the queue.                                     *)
Blocked ==
    \/ Torn(client_live)
    \/ \E t \in oversized : staging[t].there
    \/ PendingTest \in unparsable

(* The campaign ends for good, as the client learns that no test is left,  *)
(* unless it stops for good at what only an operator can remove.           *)
CampaignEnds == <>[](client_state = "finished" \/ Blocked)

-----------------------------------------------------------------------------
(* Refinement *)

Recorded(t) == server_archive[Uploaded(t)].there /\ server_archive[ServerZip(t)].there

PhaseOf(t) == IF Recorded(t) THEN "recorded"
              ELSE IF executed[t] > 0 THEN "executing" ELSE "waiting"

Campaign == INSTANCE CaptureCampaign WITH
    CapCons <- Tests,
    phase   <- [t \in Tests |-> PhaseOf(t)],
    over    <- client_state = "finished"

(* Client, server and systemd together carry out the campaign that         *)
(* CaptureCampaign promises: one CapCon after the other, each once, each   *)
(* on record on both sides before the next one starts, until all are done. *)
CampaignKept == Campaign!CampaignSpec
=============================================================================
