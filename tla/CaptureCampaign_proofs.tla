----------------------- MODULE CaptureCampaign_proofs -----------------------
(***************************************************************************)
(* The proof that client, server and systemd together carry out the        *)
(* campaign that CaptureCampaign promises, for any CapCons, payloads,      *)
(* connections and payloads that overrun.  It needs to know where every    *)
(* file is at every stage of a capture, and so it is about a campaign in   *)
(* which nothing fails; what survives failures is proved in                *)
(* CaptureSystem_proofs.                                                   *)
(***************************************************************************)
EXTENDS CaptureSystem_proofs, FunctionTheorems

(* Nothing fails, every archive fits into a frame, and every CapCon is one *)
(* and loads.                                                              *)
Undisturbed == Faults = {} /\ MayExceed = {} /\ MayNotParse = {} /\ NoPayloadList = {}

-----------------------------------------------------------------------------
(* The payloads and the live workspace of one machine, in terms of its     *)
(* units, the files there and the jobs of a CapCon.                        *)

(* No payload is at work but those that overran an earlier capture. *)
Resting(unit) == \A p \in Payloads \ Overruns : ~Busy(unit, p)

(* Nothing of a CapCon is there, only what overrunning payloads wrote. *)
Vacant(live) == live \subseteq OutFiles(Overruns)

OwnFiles(t, jobs) == {CapconFile(t), IdFile(t)} \cup JobFiles(jobs)

(* The files of t are there, and none of another CapCon *)
Holding(live, t, jobs) ==
    /\ OwnFiles(t, jobs) \subseteq live
    /\ live \subseteq OwnFiles(t, jobs) \cup OutFiles(jobs) \cup OutFiles(Overruns)

(* The payloads of the capture have been started; each is at work or has   *)
(* written its result.                                                     *)
InProgress(unit, live, jobs) ==
    /\ \A p \in jobs \ Overruns : Busy(unit, p) \/ OutFile(p) \in live
    /\ \A p \in Payloads : Busy(unit, p) => p \in Overruns \cup jobs

-----------------------------------------------------------------------------
(* The client *)

ClientVacant    == Resting(client_unit) /\ Vacant(client_live)
ClientStored(t) == Resting(client_unit) /\ Holding(client_live, t, ClientJobs[t])
ClientRuns(t)   == /\ Holding(client_live, t, ClientJobs[t])
                   /\ InProgress(client_unit, client_live, ClientJobs[t])

(* The server, with what MotraServerConfig remembers *)

ServerVacant ==
    /\ Resting(server_unit) /\ Vacant(server_live)
    /\ capture_jobs = {} /\ schedule_units = {}

ServerHas(t) ==
    /\ Holding(server_live, t, ServerJobs[t])
    /\ capture_jobs = ServerJobs[t] /\ last_capcon = t

ServerStored(t) ==
    ServerHas(t) /\ Resting(server_unit) /\ schedule_units = ServerJobs[t]

ServerRuns(t) ==
    /\ ServerHas(t) /\ schedule_units = {}
    /\ InProgress(server_unit, server_live, ServerJobs[t])
    /\ \A p \in ServerJobs[t] : server_unit[p] # "none"

(* The trigger is sent: the handler is about to start the units, or has. *)
ServerGoing(t) ==
    ServerRuns(t) \/ (ServerStored(t) /\ \E c \in Conns : handler[c] = "triggering")

(* Where the record of each capture is *)

Settled(S)   == \A t \in S : executed[t] > 0 => Recorded(t)
Unfetched(t) == /\ executed[t] > 0 /\ ~server_archive[Uploaded(t)].there
                /\ Settled(Tests \ {t})

-----------------------------------------------------------------------------
(* The stages of a capture *)

(* Before the first capture *)
Untouched ==
    /\ client_live = {} /\ server_live = {} /\ capture_jobs = {} /\ schedule_units = {}
    /\ \A p \in Payloads : ~Busy(client_unit, p) /\ ~Busy(server_unit, p)
    /\ \A t \in Tests : executed[t] = 0
    /\ ~restart_timer

(* From the trigger to the CLIENT_HELLO of the process that comes back *)
Capturing(t) ==
    /\ Unfetched(t) /\ ClientRuns(t)
    /\ IF restart_timer THEN ServerGoing(t) ELSE ServerRuns(t) /\ Resting(server_unit)

Between == Staged(staging) = {} /\ (Untouched \/ \E t \in Tests : Capturing(t))

(* CLIENT_HELLO has been answered: the server has archived its side. *)
Greets ==
    /\ Staged(staging) = {} /\ ServerVacant
    /\ \/ ClientVacant /\ Settled(Tests)
       \/ \E t \in Tests : ClientRuns(t) /\ Unfetched(t) /\ server_archive[ServerZip(t)].there

(* The archive of t is under way, or stored and acknowledged. *)
Hands(t) ==
    /\ Staged(staging) = {t} /\ IsRecord(staging[t], ClientRecord(t))
    /\ executed[t] > 0 /\ Settled(Tests \ {t}) /\ server_archive[ServerZip(t)].there
    /\ to_server[conn] # <<>> => /\ Head(to_server[conn]) = Upload(t, staging[t].files)
                                 /\ ~server_archive[Uploaded(t)].there
    /\ to_client[conn] # <<>> => /\ Received.id = t
                                 /\ server_archive[Uploaded(t)] = staging[t]

HandsOver == ClientVacant /\ ServerVacant /\ pending_files = {} /\ \E t \in Tests : Hands(t)

(* The next CapCon is asked for, or there, or there is none. *)
Fetches ==
    /\ ClientVacant /\ Staged(staging) = {} /\ Settled(Tests)
    /\ to_server[conn] # <<>> => ServerVacant
    /\ to_client[conn] # <<>> =>
        \/ Received.id = NoTest /\ test_queue = <<>> /\ ServerVacant
        \/ Received.id \in Tests /\ ServerStored(Received.id)

(* Both machines have stored the CapCon. *)
Acknowledges ==
    /\ ClientStored(current) /\ Staged(staging) = {} /\ Settled(Tests)
    /\ to_server[conn] # <<>> => ServerStored(current)
    /\ to_client[conn] # <<>> => ServerGoing(current)

Stages ==
    /\ client_state \in {"off", "disconnected"} => Between
    /\ client_state = "connecting" => /\ to_server[conn] # <<>> => Between
                                      /\ to_client[conn] # <<>> => Greets
    /\ client_state = "connected" => Greets
    /\ client_state = "upload_data_available" => HandsOver
    /\ client_state = "preparing_ready_for_test" => Fetches
    /\ client_state = "offline_testing" => Acknowledges
    /\ client_state = "finished" => \A t \in Tests : executed[t] > 0 /\ Recorded(t)

-----------------------------------------------------------------------------
(* What is the same at every stage *)

NothingFails ==
    Undisturbed /\ server_up /\ oversized = {} /\ unparsable = {} /\ Restarts = 0

(* Only the connection of the client carries anything. *)
OneSpeaks == \A c \in Conns \ {conn} : to_server[c] = <<>> /\ to_client[c] = <<>>

Triggering == client_state = "offline_testing" /\ to_client[conn] # <<>>

(* It is open until the server has hung up after the trigger, and a        *)
(* question or its answer is under way.                                    *)
Linked ==
    conn \in Conns =>
        /\ Silent => client_state = "connected"
        /\ link[conn] = "open" \/ (Triggering /\ handler[conn] = "off")

(* When handlers and timers have work left *)
Timely ==
    /\ restart_timer => client_state = "off"
    /\ \A c \in Conns : handler[c] = "triggering" => restart_timer \/ Triggering
    /\ \A c \in Conns : handler[c] = "delivering" /\ test_queue # <<>> =>
            c = conn /\ Holds(Head(test_queue))

(* No CapCon is lost on the way from the queue to the client. *)
Supplied == \A t \in Tests : t \in Queued(test_queue) \/ executed[t] > 0 \/ Holds(t)

(* The archives on the server *)
Archived ==
    /\ RecordsExact /\ AcknowledgedIsSaved
    /\ \A t \in Tests : server_archive[Uploaded(t)].there => executed[t] > 0

InCampaign == NothingFails /\ OneSpeaks /\ Linked /\ Timely /\ Supplied /\ Archived /\ Stages

Known == SystemTyped /\ Dialogue /\ Once /\ Apart /\ InCampaign

-----------------------------------------------------------------------------
(* What a payload does on its machine *)

Moves(unit, live, unit2, live2) ==
    \E p \in Payloads :
        \/ unit[p] = "armed" /\ unit2 = Fire(unit, p, live) /\ live2 = live
        \/ unit[p] = "running" /\ unit2 = Finish(unit, p) /\ live2 = live \cup {OutFile(p)}

LEMMA ClientMoves == ClientPayloads => Moves(client_unit, client_live, client_unit', client_live')
BY DEF ClientPayloads, ClientRunsPayloads, ClientMexec, ClientPayloadEnds, Moves, clientDisk

LEMMA ServerMoves == ServerPayloads => Moves(server_unit, server_live, server_unit', server_live')
BY DEF ServerPayloads, ServerRunsPayloads, ServerMexec, ServerPayloadEnds, Moves

(* One that is not at work stays so, and one that was started was. *)
LEMMA MovesUnits ==
    ASSUME NEW unit \in [Payloads -> UnitState], NEW live, NEW unit2, NEW live2,
           Moves(unit, live, unit2, live2), NEW q \in Payloads
    PROVE  /\ Busy(unit2, q) => Busy(unit, q)
           /\ unit[q] # "none" => unit2[q] # "none"
           /\ Busy(unit, q) => \/ Busy(unit2, q)
                               \/ OutFile(q) \in live2
                               \/ JobFile(q) \notin live
           /\ live \subseteq live2
<1>1. PICK p \in Payloads :
        \/ unit[p] = "armed" /\ unit2 = Fire(unit, p, live) /\ live2 = live
        \/ unit[p] = "running" /\ unit2 = Finish(unit, p) /\ live2 = live \cup {OutFile(p)}
  BY DEF Moves
<1> QED
  BY <1>1 DEF Fire, Finish, Busy

(* What appears in the live workspace is the result of one at work. *)
LEMMA MovesFiles ==
    ASSUME NEW unit \in [Payloads -> UnitState], NEW live, NEW unit2, NEW live2,
           Moves(unit, live, unit2, live2)
    PROVE  \E p \in Payloads : Busy(unit, p) /\ live2 \subseteq live \cup {OutFile(p)}
BY DEF Moves, Busy

LEMMA RestKept ==
    ASSUME NEW unit \in [Payloads -> UnitState], NEW live, NEW unit2, NEW live2,
           Moves(unit, live, unit2, live2), Resting(unit)
    PROVE  /\ Resting(unit2)
           /\ Vacant(live) => Vacant(live2)
           /\ \A t, jobs : Holding(live, t, jobs) => Holding(live2, t, jobs)
<1>1. PICK p \in Payloads : Busy(unit, p) /\ live2 \subseteq live \cup {OutFile(p)}
  BY MovesFiles
<1>2. OutFile(p) \in OutFiles(Overruns)
  BY <1>1 DEF Resting, OutFiles
<1>3. live \subseteq live2
  BY <1>1, MovesUnits
<1>4. Resting(unit2)
  BY MovesUnits DEF Resting
<1>5. Vacant(live) => Vacant(live2)
  BY <1>1, <1>2 DEF Vacant
<1>6. \A t, jobs : Holding(live, t, jobs) => Holding(live2, t, jobs)
  BY <1>1, <1>2, <1>3 DEF Holding
<1> QED
  BY <1>4, <1>5, <1>6

LEMMA RunKept ==
    ASSUME NEW unit \in [Payloads -> UnitState], NEW live, NEW unit2, NEW live2,
           Moves(unit, live, unit2, live2), NEW t, NEW jobs \in SUBSET Payloads,
           Holding(live, t, jobs), InProgress(unit, live, jobs)
    PROVE  Holding(live2, t, jobs) /\ InProgress(unit2, live2, jobs)
<1>1. PICK p \in Payloads : Busy(unit, p) /\ live2 \subseteq live \cup {OutFile(p)}
  BY MovesFiles
<1>2. OutFile(p) \in OutFiles(jobs) \cup OutFiles(Overruns)
  BY <1>1 DEF InProgress, OutFiles
<1>3. live \subseteq live2
  BY <1>1, MovesUnits
<1>4. Holding(live2, t, jobs)
  BY <1>1, <1>2, <1>3 DEF Holding
<1>5. \A q \in jobs : JobFile(q) \in live
  BY DEF Holding, OwnFiles, JobFiles
<1>6. ASSUME NEW q \in jobs \ Overruns PROVE Busy(unit2, q) \/ OutFile(q) \in live2
  BY <1>3, <1>5, <1>6, MovesUnits DEF InProgress
<1>7. \A q \in Payloads : Busy(unit2, q) => q \in Overruns \cup jobs
  BY MovesUnits DEF InProgress
<1> QED
  BY <1>4, <1>6, <1>7 DEF InProgress
-----------------------------------------------------------------------------
(* Steps that leave a capture at its stage *)

(* Which kinds of steps are left when nothing fails *)
LEMMA OnlyPlainSteps ==
    ASSUME Known, StepOfSystem
    PROVE  /\ UNCHANGED <<faults, oversized, unparsable>>
           /\ \/ UNCHANGED systemVars
              \/ Restart \/ OperatorStart \/ ClientStep \/ ClientPayloads \/ ServerPayloads
              \/ \E c \in Conns : Connect(c)
              \/ \E c \in Conns : ServerHandles(c) /\ UNCHANGED <<clientVars, history>>
<1>1. ~AnyFault
  BY DEF Known, InCampaign, NothingFails, Undisturbed, AnyFault, ClientFault, TornFault,
         ServerFault, LinkFault, SaveFault, Fault
<1>2. \A c \in Conns : ~FrameRefused(c)
  BY DEF Known, InCampaign, NothingFails, FrameRefused, TooLarge
<1>3. \A c \in Conns : ~(Unparsable(c) /\ OnRequestCapconUnparsed(c))
  BY DEF Known, InCampaign, NothingFails, Unparsable
<1>4. ~CannotConnect /\ ~ServerComesUp
  BY DEF Known, InCampaign, NothingFails, CannotConnect, ServerComesUp, ServerStarts
<1>5. \/ UNCHANGED systemVars
      \/ Restart \/ OperatorStart \/ ClientStep \/ ClientPayloads \/ ServerPayloads
      \/ \E c \in Conns : Connect(c)
      \/ \E c \in Conns : ServerHandles(c) /\ UNCHANGED <<clientVars, history>>
  BY <1>1, <1>2, <1>4, <1>3 DEF StepOfSystem, SystemNext, Done, ServerStep
<1>6. UNCHANGED <<faults, oversized, unparsable>>
  BY <1>5 DEF systemVars, history, Restart, OperatorStart, ClientStep, ClientPayloads,
              ServerPayloads, Connect
<1> QED
  BY <1>5, <1>6

LEMMA NothingFailsStep ==
    ASSUME Known, StepOfSystem
    PROVE  NothingFails'
<1>1. UNCHANGED <<faults, oversized, unparsable>>
  BY OnlyPlainSteps
<1>2. UNCHANGED server_up
  <2>1. CASE \E c \in Conns : ServerHandles(c)
    BY <2>1 DEF ServerHandles, OnClientHello, OnRequestUpload, OnRequestCapcon, OnAckCapcon,
                OnUnknown, OnMalformed, OnDisconnect, Delivered, Triggered, SendRaises
  <2>2. CASE ClientPayloads \/ Restart \/ OperatorStart \/ ClientStep \/ UNCHANGED systemVars
    BY <2>2 DEF ClientPayloads, Restart, OperatorStart, ClientStep, systemVars, serverVars
  <2>3. CASE ServerPayloads \/ \E c \in Conns : Connect(c)
    BY <2>3 DEF ServerPayloads, ServerRunsPayloads, ServerMexec, ServerPayloadEnds,
                Connect, Accept
  <2> QED
    BY <2>1, <2>2, <2>3, OnlyPlainSteps
<1> QED
  BY <1>1, <1>2 DEF Known, InCampaign, NothingFails, Undisturbed, Restarts

(* The archives change only when something is archived or stored. *)
LEMMA SameArchives ==
    ASSUME Known, UNCHANGED <<server_archive, archive>>,
           \A t \in Tests : executed[t] > 0 => executed'[t] > 0
    PROVE  Archived'
BY DEF Known, InCampaign, Archived, RecordsExact, AcknowledgedIsSaved

LEMMA StagesKept ==
    ASSUME Known,
           UNCHANGED <<process, staging, restart_timer, executed, server_archive,
                       to_server, to_client>>,
           ClientVacant => ClientVacant', ServerVacant => ServerVacant',
           Resting(server_unit) => Resting(server_unit)',
           Untouched => Untouched',
           \A t \in Tests : /\ ClientStored(t) => ClientStored(t)'
                            /\ ClientRuns(t) => ClientRuns(t)'
                            /\ ServerStored(t) => ServerStored(t)'
                            /\ ServerRuns(t) => ServerRuns(t)'
                            /\ ServerGoing(t) => ServerGoing(t)',
           test_queue = <<>> => test_queue' = <<>>
    PROVE  Stages'
<1> USE DEF process
<1>1. \A S : Settled(S) => Settled(S)'
  BY DEF Settled, Recorded
<1>2. \A t : Unfetched(t) => Unfetched(t)'
  BY <1>1 DEF Unfetched
<1>3. Staged(staging)' = Staged(staging)
  BY DEF Staged
<1>4. \A t \in Tests : Capturing(t) => Capturing(t)'
  BY <1>2 DEF Capturing
<1>5. Between => Between'
  BY <1>3, <1>4 DEF Between
<1>6. Greets => Greets'
  BY <1>1, <1>2, <1>3 DEF Greets
<1>7. \A t \in Tests : Hands(t) => Hands(t)'
  BY <1>1, <1>3 DEF Hands, Received
<1>8. HandsOver => HandsOver'
  BY <1>7 DEF HandsOver
<1>9. Fetches => Fetches'
  BY <1>1, <1>3 DEF Fetches, Received
<1>10. client_state = "offline_testing" => current \in Tests
  BY DEF Known, SystemTyped, ClientTyped, Connected
<1>11. client_state = "offline_testing" /\ Acknowledges => Acknowledges'
  BY <1>1, <1>3, <1>10 DEF Acknowledges
<1>12. client_state = "finished" =>
        \A t \in Tests : executed'[t] > 0 /\ Recorded(t)'
  BY DEF Known, InCampaign, Stages, Recorded
<1> QED
  BY <1>5, <1>6, <1>8, <1>9, <1>11, <1>12 DEF Known, InCampaign, Stages

(* ... and neither does what is the same at every stage. *)
LEMMA SteadyKept ==
    ASSUME Known,
           UNCHANGED <<process, restart_timer, executed, wire, handler, test_queue>>
    PROVE  OneSpeaks' /\ Linked' /\ Timely' /\ Supplied'
<1> USE DEF process, wire
<1>1. OneSpeaks' /\ Linked'
  BY DEF Known, InCampaign, OneSpeaks, Linked, Silent, Triggering
<1>2. \A t : Holds(t)' = Holds(t)
  BY DEF Holds, Received
<1>3. Timely'
  BY <1>2 DEF Known, InCampaign, Timely, Triggering
<1>4. Supplied'
  BY <1>2 DEF Known, InCampaign, Supplied
<1> QED
  BY <1>1, <1>3, <1>4

LEMMA ClientPayloadsKept ==
    ASSUME Known, ClientPayloads
    PROVE  OneSpeaks' /\ Linked' /\ Timely' /\ Supplied' /\ Archived' /\ Stages'
<1>1. UNCHANGED <<wire, process, staging, archive, restart_timer, serverVars, history>>
  BY DEF ClientPayloads, ClientRunsPayloads, ClientMexec, ClientPayloadEnds, clientDisk
<1> USE <1>1 DEF serverVars, config, history
<1>2. client_unit \in [Payloads -> UnitState]
  BY DEF Known, SystemTyped, ClientTyped, ClientTypeOK
<1>3. ClientVacant => ClientVacant'
  BY <1>2, ClientMoves, RestKept DEF ClientVacant
<1>4. ASSUME NEW t \in Tests
      PROVE  /\ ClientStored(t) => ClientStored(t)'
             /\ ClientRuns(t) => ClientRuns(t)'
  <2>1. ClientStored(t) => ClientStored(t)'
    BY <1>2, ClientMoves, RestKept DEF ClientStored
  <2>2. ClientJobs[t] \in SUBSET Payloads
    BY WireAssumption
  <2>3. ClientRuns(t) => ClientRuns(t)'
    BY <1>2, <2>2, ClientMoves, RunKept DEF ClientRuns
  <2> QED
    BY <2>1, <2>3
<1>5. ~Untouched
  BY <1>2, ClientMoves, MovesFiles DEF Untouched
<1>6. \A t \in Tests : /\ ServerStored(t) => ServerStored(t)'
                       /\ ServerRuns(t) => ServerRuns(t)'
                       /\ ServerGoing(t) => ServerGoing(t)'
  BY DEF ServerStored, ServerRuns, ServerGoing, ServerHas
<1>7. ServerVacant => ServerVacant'
  BY DEF ServerVacant
<1>8. Stages'
  BY <1>3, <1>4, <1>5, <1>6, <1>7, StagesKept DEF wire
<1>9. Archived'
  BY SameArchives
<1> QED
  BY <1>8, <1>9, SteadyKept
LEMMA ServerPayloadsKept ==
    ASSUME Known, ServerPayloads
    PROVE  OneSpeaks' /\ Linked' /\ Timely' /\ Supplied' /\ Archived' /\ Stages'
<1>1. UNCHANGED <<wire, config, handler, server_archive, clientVars, history>>
  BY DEF ServerPayloads, ServerRunsPayloads, ServerMexec, ServerPayloadEnds
<1> USE <1>1 DEF clientVars, process, clientDisk, timers, config, history
<1>2. server_unit \in [Payloads -> UnitState]
  BY DEF Known, SystemTyped, ServerTyped, ServerTypeOK
<1>3. Resting(server_unit) => Resting(server_unit)'
  BY <1>2, ServerMoves, RestKept
<1>4. ServerVacant => ServerVacant'
  BY <1>2, ServerMoves, RestKept DEF ServerVacant
<1>5. ASSUME NEW t \in Tests
      PROVE  /\ ServerStored(t) => ServerStored(t)'
             /\ ServerRuns(t) => ServerRuns(t)'
  <2>1. ServerStored(t) => ServerStored(t)'
    BY <1>2, ServerMoves, RestKept DEF ServerStored, ServerHas
  <2>2. ServerJobs[t] \in SUBSET Payloads
    BY WireAssumption
  <2>3. ServerRuns(t) => ServerRuns(t)'
    <3> SUFFICES ASSUME ServerRuns(t) PROVE ServerRuns(t)'
      OBVIOUS
    <3>1. Holding(server_live', t, ServerJobs[t]) /\ InProgress(server_unit', server_live', ServerJobs[t])
      BY <1>2, <2>2, ServerMoves, RunKept DEF ServerRuns, ServerHas
    <3>2. \A p \in ServerJobs[t] : server_unit'[p] # "none"
      BY <1>2, <2>2, ServerMoves, MovesUnits DEF ServerRuns
    <3> QED
      BY <3>1, <3>2 DEF ServerRuns, ServerHas
  <2> QED
    BY <2>1, <2>3
<1>6. ~Untouched
  BY <1>2, ServerMoves, MovesFiles DEF Untouched
<1>7. \A t \in Tests : ServerGoing(t) => ServerGoing(t)'
  BY <1>5 DEF ServerGoing
<1>8. \A t \in Tests : /\ ClientStored(t) => ClientStored(t)'
                       /\ ClientRuns(t) => ClientRuns(t)'
  BY DEF ClientStored, ClientRuns
<1>9. ClientVacant => ClientVacant'
  BY DEF ClientVacant
<1>10. Stages'
  BY <1>3, <1>4, <1>5, <1>6, <1>7, <1>8, <1>9, StagesKept DEF wire
<1>11. Archived'
  BY SameArchives
<1> QED
  BY <1>10, <1>11, SteadyKept

LEMMA NothingKept ==
    ASSUME Known, UNCHANGED systemVars
    PROVE  OneSpeaks' /\ Linked' /\ Timely' /\ Supplied' /\ Archived' /\ Stages'
<1> USE DEF systemVars, clientVars, clientDisk, timers, serverVars, config, history
<1>1. ServerVacant' = ServerVacant /\ ClientVacant' = ClientVacant /\ Untouched' = Untouched
  BY DEF ServerVacant, ClientVacant, Untouched
<1>2. \A t \in Tests : /\ ClientStored(t)' = ClientStored(t) /\ ClientRuns(t)' = ClientRuns(t)
                       /\ ServerStored(t)' = ServerStored(t) /\ ServerRuns(t)' = ServerRuns(t)
  BY DEF ClientStored, ClientRuns, ServerStored, ServerRuns, ServerHas
<1>3. \A t \in Tests : ServerGoing(t)' = ServerGoing(t)
  BY <1>2 DEF ServerGoing
<1>4. Stages'
  BY <1>1, <1>2, <1>3, StagesKept DEF wire
<1>5. Archived'
  BY SameArchives
<1> QED
  BY <1>4, <1>5, SteadyKept

(* Steps of a handler that read no frame.  A socket on which a handler is  *)
(* still sending has not been closed with the frame unread.                *)
LEMMA NoSendRaises ==
    ASSUME Known, NEW c \in Conns
    PROVE  ~SendRaises(c)
BY DEF Known, InCampaign, OneSpeaks, Linked, SendRaises

LEMMA DisconnectsOthers ==
    ASSUME Known, NEW c \in Conns, OnDisconnect(c)
    PROVE  c # conn
BY DEF Known, InCampaign, Linked, OnDisconnect

LEMMA DisconnectKept ==
    ASSUME Known, NEW c \in Conns, OnDisconnect(c), UNCHANGED <<clientVars, history>>
    PROVE  OneSpeaks' /\ Linked' /\ Timely' /\ Supplied' /\ Archived' /\ Stages'
<1>1. c # conn /\ handler[c] = "receiving"
  BY DisconnectsOthers DEF OnDisconnect
<1>2. UNCHANGED <<wire, server_up, config, server_live, server_archive, server_unit>>
  BY DEF OnDisconnect
<1>3. \A d \in Conns : handler'[d] = IF d = c THEN "off" ELSE handler[d]
  BY DEF OnDisconnect, HandlerBecomes, Known, SystemTyped, ServerTyped, ServerTypeOK
<1> USE <1>2 DEF clientVars, process, clientDisk, timers, config, history, wire
<1>4. ServerVacant' = ServerVacant /\ ClientVacant' = ClientVacant /\ Untouched' = Untouched
  BY DEF ServerVacant, ClientVacant, Untouched
<1>5. \A t \in Tests : /\ ClientStored(t)' = ClientStored(t) /\ ClientRuns(t)' = ClientRuns(t)
                       /\ ServerStored(t)' = ServerStored(t) /\ ServerRuns(t)' = ServerRuns(t)
  BY DEF ClientStored, ClientRuns, ServerStored, ServerRuns, ServerHas
<1>6. \A t \in Tests : ServerGoing(t) => ServerGoing(t)'
  BY <1>1, <1>3, <1>5 DEF ServerGoing
<1>7. Stages'
  BY <1>4, <1>5, <1>6, StagesKept
<1>8. OneSpeaks' /\ Linked'
  BY <1>1, <1>3 DEF Known, InCampaign, OneSpeaks, Linked, Silent, Triggering
<1>9. \A t : Holds(t)' = Holds(t)
  BY DEF Holds, Received
<1>10. Timely' /\ Supplied'
  BY <1>1, <1>3, <1>9 DEF Known, InCampaign, Timely, Triggering, Supplied
<1>11. Archived'
  BY SameArchives
<1> QED
  BY <1>7, <1>8, <1>10, <1>11

LEMMA DeliveredKept ==
    ASSUME Known, NEW c \in Conns, Delivered(c), UNCHANGED <<clientVars, history>>
    PROVE  OneSpeaks' /\ Linked' /\ Timely' /\ Supplied' /\ Archived' /\ Stages'
<1>1. test_queue' = PopTest(test_queue) /\ handler[c] = "delivering"
  BY DEF Delivered
<1>2. UNCHANGED <<wire, server_up, capture_jobs, schedule_units, last_capcon, server_live,
                  server_archive, server_unit>>
  BY DEF Delivered
<1>3. \A d \in Conns : handler'[d] = IF d = c THEN "receiving" ELSE handler[d]
  BY DEF Delivered, HandlerBecomes, Known, SystemTyped, ServerTyped, ServerTypeOK
<1> USE <1>2 DEF clientVars, process, clientDisk, timers, history, wire
<1>4. ServerVacant' = ServerVacant /\ ClientVacant' = ClientVacant /\ Untouched' = Untouched
  BY DEF ServerVacant, ClientVacant, Untouched
<1>5. \A t \in Tests : /\ ClientStored(t)' = ClientStored(t) /\ ClientRuns(t)' = ClientRuns(t)
                       /\ ServerStored(t)' = ServerStored(t) /\ ServerRuns(t)' = ServerRuns(t)
  BY DEF ClientStored, ClientRuns, ServerStored, ServerRuns, ServerHas
<1>6. \A t \in Tests : ServerGoing(t) => ServerGoing(t)'
  BY <1>1, <1>3, <1>5 DEF ServerGoing
<1>7. test_queue = <<>> => test_queue' = <<>>
  BY <1>1 DEF PopTest
<1>8. Stages'
  BY <1>4, <1>5, <1>6, <1>7, StagesKept
<1>9. OneSpeaks' /\ Linked'
  BY <1>1, <1>3 DEF Known, InCampaign, OneSpeaks, Linked, Silent, Triggering
<1>10. \A t : Holds(t)' = Holds(t)
  BY DEF Holds, Received
<1>11. test_queue # <<>> => c = conn /\ Holds(Head(test_queue))
  BY <1>1 DEF Known, InCampaign, Timely
<1>12. \A d \in Conns : handler'[d] = "delivering" => test_queue = <<>>
  BY <1>3, <1>11 DEF Known, InCampaign, Timely
<1>13. Timely'
  BY <1>3, <1>7, <1>12 DEF Known, InCampaign, Timely, Triggering
<1>14. Supplied'
  <2>1. test_queue \in Seq(Tests)
    BY DEF Known, SystemTyped, ServerTyped, ServerTypeOK
  <2>2. \A t \in Queued(test_queue) : t \in Queued(test_queue') \/ t = Head(test_queue)
    <3>1. CASE test_queue = <<>>
      BY <3>1 DEF Queued
    <3>2. CASE test_queue # <<>>
      <4> DEFINE r == Tail(test_queue)
      <4>1. /\ Len(test_queue) \in Nat /\ DOMAIN test_queue = 1..Len(test_queue)
            /\ DOMAIN r = 1..(Len(test_queue) - 1)
            /\ \A i \in DOMAIN r : r[i] = test_queue[i + 1]
            /\ Head(test_queue) = test_queue[1]
        BY <2>1, <3>2
      <4> HIDE DEF r
      <4>2. ASSUME NEW i \in DOMAIN test_queue, i # 1 PROVE test_queue[i] \in Queued(r)
        <5>1. i - 1 \in DOMAIN r /\ i = (i - 1) + 1
          BY <4>1, <4>2
        <5>2. r[i - 1] = test_queue[i]
          BY <4>1, <5>1
        <5> QED
          BY <5>1, <5>2 DEF Queued
      <4> QED
        BY <1>1, <3>2, <4>1, <4>2 DEF Queued, PopTest, r
    <3> QED
      BY <3>1, <3>2
  <2>3. \A t \in Queued(test_queue) : test_queue # <<>>
    BY DEF Queued
  <2> QED
    BY <1>10, <1>11, <2>2, <2>3 DEF Known, InCampaign, Supplied
<1>15. Archived'
  BY SameArchives
<1> QED
  BY <1>8, <1>9, <1>13, <1>14, <1>15
(* Starting the units turns a capture that is stored into one that runs. *)
LEMMA UnitsStart ==
    ASSUME Known, NEW c \in Conns, Triggered(c), NEW t \in Tests, ServerGoing(t)
    PROVE  ServerRuns(t)'
<1>1. /\ server_unit' = Arm(server_unit, schedule_units) /\ schedule_units' = {}
      /\ UNCHANGED <<server_live, capture_jobs, last_capcon>>
  BY DEF Triggered
<1>2. server_unit \in [Payloads -> UnitState] /\ ServerJobs[t] \in SUBSET Payloads
  BY WireAssumption DEF Known, SystemTyped, ServerTyped, ServerTypeOK
<1>3. ServerHas(t)'
  BY <1>1 DEF ServerGoing, ServerRuns, ServerStored, ServerHas
<1>4. CASE ServerRuns(t)
  <2>1. server_unit' = server_unit
    BY <1>1, <1>2, <1>4 DEF ServerRuns, Arm
  <2> QED
    BY <1>1, <1>3, <1>4, <2>1 DEF ServerRuns
<1>5. CASE ServerStored(t)
  <2>1. \A p \in Payloads : server_unit'[p] =
            IF p \in ServerJobs[t] /\ ~Busy(server_unit, p) THEN "armed" ELSE server_unit[p]
    BY <1>1, <1>5 DEF ServerStored, Arm
  <2>2. \A p \in ServerJobs[t] : Busy(server_unit', p)
    BY <1>2, <2>1 DEF Busy
  <2>3. \A p \in Payloads : Busy(server_unit', p) => p \in Overruns \cup ServerJobs[t]
    BY <1>5, <2>1 DEF ServerStored, Resting, Busy
  <2>4. \A p \in ServerJobs[t] : server_unit'[p] # "none"
    BY <2>2 DEF Busy
  <2> QED
    BY <1>1, <1>3, <2>2, <2>3, <2>4 DEF ServerRuns, InProgress
<1> QED
  BY <1>4, <1>5 DEF ServerGoing

LEMMA TriggeredKept ==
    ASSUME Known, NEW c \in Conns, Triggered(c), UNCHANGED <<clientVars, history>>
    PROVE  OneSpeaks' /\ Linked' /\ Timely' /\ Supplied' /\ Archived' /\ Stages'
<1>1. UNCHANGED <<to_server, to_client, server_up, test_queue, server_archive>>
  BY DEF Triggered
<1>2. \A d \in Conns : /\ handler'[d] = IF d = c THEN "off" ELSE handler[d]
                       /\ link'[d] = IF d = c THEN "closed" ELSE link[d]
  BY DEF Triggered, HandlerEnds, HandlerBecomes, Close,
         Known, SystemTyped, ServerTyped, WireTypeOK, ServerTypeOK
<1>3. restart_timer \/ Triggering
  BY DEF Triggered, Known, InCampaign, Timely
<1>4. restart_timer => client_state = "off"
  BY DEF Known, InCampaign, Timely
<1> USE <1>1 DEF clientVars, process, clientDisk, timers, history
<1>5. \A S : Settled(S)' = Settled(S)
  BY DEF Settled, Recorded
<1>6. ASSUME restart_timer PROVE Stages'
  <2>1. PICK t \in Tests : Capturing(t)
    BY <1>4, <1>6 DEF Known, InCampaign, Stages, Between, Untouched
  <2>2. ServerRuns(t)'
    BY <1>6, <2>1, UnitsStart DEF Capturing
  <2>3. Capturing(t)'
    BY <1>5, <1>6, <2>1, <2>2 DEF Capturing, Unfetched, ClientRuns, ServerGoing
  <2>4. Between' /\ client_state' = "off"
    BY <1>4, <1>6, <2>3 DEF Known, InCampaign, Stages, Between, Staged
  <2> QED
    BY <2>4 DEF Stages
<1>7. ASSUME Triggering PROVE Stages'
  <2>1. current \in Tests
    BY <1>7 DEF Triggering, Known, SystemTyped, ClientTyped, Connected
  <2>2. Acknowledges /\ to_client[conn] # <<>> /\ client_state = "offline_testing"
    BY <1>7 DEF Triggering, Known, InCampaign, Stages
  <2>3. ServerRuns(current)'
    BY <2>1, <2>2, UnitsStart DEF Acknowledges
  <2>4. to_server[conn] = <<>>
    BY <2>2 DEF Known, Dialogue, Offline, Silent, Asking, Answered
  <2>5. Acknowledges' /\ client_state' = "offline_testing"
    BY <1>5, <2>2, <2>3, <2>4 DEF Acknowledges, ClientStored, ServerGoing, Staged
  <2> QED
    BY <2>5 DEF Stages
<1>8. Stages'
  BY <1>3, <1>6, <1>7
<1>9. OneSpeaks'
  BY DEF Known, InCampaign, OneSpeaks
<1>10. Linked'
  <2>1. conn = c => Triggering
    BY <1>3, <1>4, ClientAssumption DEF Known, Dialogue, Away
  <2> QED
    BY <1>2, <2>1 DEF Known, InCampaign, Linked, Silent, Triggering
<1>11. \A t : Holds(t)' = Holds(t)
  BY DEF Holds, Received
<1>12. Timely' /\ Supplied'
  BY <1>2, <1>11 DEF Known, InCampaign, Timely, Triggering, Supplied
<1>13. Archived'
  BY SameArchives
<1> QED
  BY <1>8, <1>9, <1>10, <1>12, <1>13

-----------------------------------------------------------------------------
(* The process comes back and connects. *)

LEMMA StartKept ==
    ASSUME Known, Restart \/ OperatorStart
    PROVE  OneSpeaks' /\ Linked' /\ Timely' /\ Supplied' /\ Archived' /\ Stages'
<1>1. /\ client_state = "off" /\ conn = NoConn
      /\ client_state' \in {"disconnected", "off"} /\ conn' = NoConn
      /\ UNCHANGED wire
  BY DEF Restart, OperatorStart, StartsByTimer, StartsByOperator, ClientStarts, Disconnected,
         GivesUp, Gone, wire, Known, Dialogue, Away
<1>2. /\ UNCHANGED <<serverVars, history, clientDisk, client_unit>>
      /\ ~restart_timer'
      /\ restart_timer => CaptureOver
  BY DEF Restart, OperatorStart, StartsByTimer, StartsByOperator, ClientStarts, TimerFires, timers
<1> USE <1>1, <1>2 DEF serverVars, config, history, clientDisk, wire
<1>3. \A S : Settled(S)' = Settled(S)
  BY DEF Settled, Recorded
<1>4. Between
  BY DEF Known, InCampaign, Stages
<1>5. restart_timer => Resting(server_unit) /\ \A c \in Conns : handler[c] # "triggering"
  BY DEF CaptureOver, Resting
<1>6. \A t \in Tests : Capturing(t) => Capturing(t)'
  BY <1>3, <1>5 DEF Capturing, Unfetched, ClientRuns, ServerGoing, ServerRuns, ServerHas
<1>7. Untouched => Untouched'
  BY DEF Untouched
<1>8. Between'
  BY <1>4, <1>6, <1>7 DEF Between, Staged
<1>9. Stages'
  BY <1>8 DEF Stages
<1>10. conn \notin Conns
  BY ClientAssumption
<1>11. OneSpeaks' /\ Linked'
  BY <1>10 DEF Known, InCampaign, OneSpeaks, Linked
<1>12. \A t : ~Holds(t) /\ ~Holds(t)'
  BY DEF Holds
<1>13. Timely' /\ Supplied'
  BY <1>5, <1>10, <1>12 DEF Known, InCampaign, Timely, Triggering, Supplied
<1>14. Archived'
  BY SameArchives
<1> QED
  BY <1>9, <1>11, <1>13, <1>14

LEMMA ConnectKept ==
    ASSUME Known, NEW c \in Conns, Connect(c)
    PROVE  OneSpeaks' /\ Linked' /\ Timely' /\ Supplied' /\ Archived' /\ Stages'
<1>1. /\ client_state = "disconnected" /\ conn = NoConn
      /\ client_state' = "connecting" /\ conn' = c
      /\ UNCHANGED <<history, clientDisk, timers, server_up, config, server_live,
                     server_archive, server_unit>>
  BY DEF Connect, Connects, Accept, Known, Dialogue, Away
<1>2. to_server'[c] = <<Msg("CLIENT_HELLO", NoTest)>> /\ to_client'[c] = <<>> /\ link'[c] = "open"
  BY Singleton DEF Connect, Connects, Post, Empty, Known, SystemTyped, ServerTyped, WireTypeOK
<1>3. \A d \in Conns : /\ d # c => to_server'[d] = to_server[d] /\ to_client'[d] = to_client[d]
                       /\ handler'[d] = IF d = c THEN "receiving" ELSE handler[d]
  BY DEF Connect, Connects, Accept, HandlerBecomes, Post, Empty,
         Known, SystemTyped, ServerTyped, WireTypeOK, ServerTypeOK
<1> USE <1>1 DEF history, clientDisk, timers, config
<1>4. conn \notin Conns /\ ~restart_timer
  BY ClientAssumption DEF Known, InCampaign, Timely
<1>5. \A S : Settled(S)' = Settled(S)
  BY DEF Settled, Recorded
<1>6. \A t \in Tests : Capturing(t) => Capturing(t)'
  BY <1>4, <1>5 DEF Capturing, Unfetched, ClientRuns, ServerRuns, ServerHas
<1>7. Between'
  BY <1>6 DEF Known, InCampaign, Stages, Between, Staged, Untouched
<1>8. Stages'
  BY <1>2, <1>7 DEF Stages
<1>9. OneSpeaks' /\ Linked'
  BY <1>2, <1>3, <1>4, Singleton DEF Known, InCampaign, OneSpeaks, Linked, Silent
<1>10. \A t : ~Holds(t) /\ ~Holds(t)'
  BY DEF Holds
<1>11. Timely' /\ Supplied'
  BY <1>3, <1>4, <1>10 DEF Known, InCampaign, Timely, Triggering, Supplied
<1>12. Archived'
  BY SameArchives
<1> QED
  BY <1>8, <1>9, <1>11, <1>12
-----------------------------------------------------------------------------
(* The server answers the client. *)

(* The result of every payload that keeps its limits is in the archive. *)
LEMMA RecordComplete ==
    ASSUME NEW unit, NEW live, NEW t, NEW jobs \in SUBSET Payloads,
           Holding(live, t, jobs), InProgress(unit, live, jobs), Resting(unit)
    PROVE  IsRecord(Zipped(CollectLogs(live, jobs)),
                    {CapconFile(t), IdFile(t)} \cup JobFiles(jobs)
                        \cup LogFiles(jobs) \cup OutFiles(jobs))
<1>1. \A p \in jobs \ Overruns : OutFile(p) \in live
  BY DEF InProgress, Resting
<1>2. OutFiles(jobs) \ OutFiles(Overruns) \subseteq live
  BY <1>1 DEF OutFiles
<1> QED
  BY <1>2 DEF IsRecord, Zipped, Zip, Archivable, CollectLogs, Holding, OwnFiles

(* No capcon.json, whole or torn, where nothing of a CapCon is *)
LEMMA VacantEmpty ==
    ASSUME NEW live, Vacant(live)
    PROVE  MayStore(live) /\ \A p : JobFile(p) \notin live
BY FilesDiffer DEF Vacant, OutFiles, MayStore, HasCapcon, Torn

(* The one CapCon whose files are there is the one that is found. *)
LEMMA HoldingOne ==
    ASSUME NEW live, NEW t \in Tests, NEW jobs, Holding(live, t, jobs)
    PROVE  HasCapcon(live) /\ StoredCapcon(live) = t /\ ~Torn(live) /\ live # {}
<1>1. CapconFile(t) \in live
  BY DEF Holding, OwnFiles
<1>2. \A s \in Tests : CapconFile(s) \in live => s = t
  BY FilesDiffer DEF Holding, OwnFiles, JobFiles, OutFiles
<1>3. ~Torn(live)
  BY FilesDiffer DEF Holding, OwnFiles, JobFiles, OutFiles, Torn
<1> QED
  BY <1>1, <1>2, <1>3 DEF HasCapcon, StoredCapcon

LEMMA ReadsOwn ==
    ASSUME Known, NEW c \in Conns, NEW type, Waiting(c, type)
    PROVE  c = conn
BY DEF Known, InCampaign, OneSpeaks, Waiting

LEMMA Answers ==
    ASSUME Known, conn \in Conns, NEW type, Receives(conn, type), NEW m, Replies(conn, m)
    PROVE  /\ link[conn] = "open"
           /\ to_client[conn] = <<>> /\ handler[conn] = "receiving" /\ ~restart_timer
           /\ to_server'[conn] = <<>> /\ to_client'[conn] = <<m>>
           /\ \A d \in Conns \ {conn} : to_server'[d] = <<>> /\ to_client'[d] = <<>>
<1>1. /\ to_client[conn] = <<>> /\ Tail(to_server[conn]) = <<>>
      /\ handler[conn] = "receiving" /\ client_state # "off"
  BY Asked DEF Receives, Known
<1>2. link[conn] = "open" /\ ~restart_timer
  BY <1>1 DEF Known, InCampaign, Linked, Triggering, Timely
<1>3. /\ DOMAIN to_server = Conns /\ DOMAIN to_client = Conns
      /\ \A d \in Conns \ {conn} : to_server[d] = <<>> /\ to_client[d] = <<>>
  BY DEF Known, InCampaign, OneSpeaks, SystemTyped, ServerTyped, WireTypeOK
<1>4. to_server' = [to_server EXCEPT ![conn] = Tail(@)]
  BY DEF Receives, Drop
<1>5. to_client' = [to_client EXCEPT ![conn] = Append(@, m)]
  BY <1>2 DEF Replies, SendTo, Post
<1> QED
  BY <1>1, <1>2, <1>3, <1>4, <1>5, Singleton

LEMMA AnswersSteady ==
    ASSUME Known, conn \in Conns, NEW type, Receives(conn, type), NEW m, Replies(conn, m),
           UNCHANGED <<clientVars, link>>
    PROVE  OneSpeaks' /\ Linked'
<1> USE DEF clientVars, process
<1>1. OneSpeaks'
  BY Answers DEF OneSpeaks
<1>2. Linked'
  BY Answers, Singleton DEF Linked, Silent
<1> QED
  BY <1>1, <1>2

(* While there is nothing to pop and nothing to trigger, a step that leaves *)
(* handlers and queue alone changes neither.                               *)
LEMMA NobodyBusy ==
    ASSUME Known, ~restart_timer, ~Triggering, NEW c \in Conns
    PROVE  /\ handler[c] # "triggering"
           /\ (c # conn \/ \A t : ~Holds(t)) => handler[c] # "delivering" \/ test_queue = <<>>
BY DEF Known, InCampaign, Timely

LEMMA HelloKept ==
    ASSUME Known, conn \in Conns, OnClientHello(conn), UNCHANGED <<clientVars, history>>
    PROVE  OneSpeaks' /\ Linked' /\ Timely' /\ Supplied' /\ Archived' /\ Stages'
<1> USE DEF clientVars, process, clientDisk, timers, history
<1>1. Receives(conn, "CLIENT_HELLO") /\ Replies(conn, Msg("SERVER_HELLO", NoTest))
  BY DEF OnClientHello
<1>2. client_state = "connecting" /\ to_server[conn] # <<>>
  BY <1>1, Asked DEF Known, Receives, Waiting
<1>3. Between /\ ~restart_timer
  BY <1>1, <1>2, Answers DEF Known, InCampaign, Stages
<1>4. /\ server_live' = {} /\ schedule_units' = {}
      /\ UNCHANGED <<link, server_up, test_queue, last_capcon, server_unit, handler>>
  BY DEF OnClientHello, CleanLive, ForgetUnits
<1>5. Untouched => Greets' /\ Archived'
  <2> SUFFICES ASSUME Untouched PROVE Greets' /\ Archived'
    OBVIOUS
  <2>1. UNCHANGED server_archive /\ capture_jobs' = {}
    BY DEF OnClientHello, Untouched
  <2>2. ServerVacant' /\ ClientVacant'
    BY <1>4, <2>1 DEF Untouched, ServerVacant, ClientVacant, Resting, Vacant
  <2>3. Settled(Tests)'
    BY DEF Untouched, Settled
  <2>4. Greets'
    BY <1>3, <2>2, <2>3 DEF Greets, Between, Staged
  <2>5. Archived'
    BY <2>1, SameArchives
  <2> QED
    BY <2>4, <2>5
<1>6. ASSUME NEW t \in Tests, Capturing(t) PROVE Greets' /\ Archived'
  <2>1. Unfetched(t) /\ ClientRuns(t) /\ ServerRuns(t) /\ Resting(server_unit)
    BY <1>3, <1>6 DEF Capturing
  <2>2. server_live # {} /\ last_capcon = t /\ capture_jobs = ServerJobs[t]
    BY <2>1, HoldingOne DEF ServerRuns, ServerHas
  <2> DEFINE zip == Zipped(CollectLogs(server_live, ServerJobs[t]))
  <2>3. server_archive' = [server_archive EXCEPT ![ServerZip(t)] = zip] /\ capture_jobs' = {}
    BY <2>2 DEF OnClientHello, ArchiveLive
  <2>4. IsRecord(zip, ServerRecord(t)) /\ zip.there
    <3>1. ServerJobs[t] \in SUBSET Payloads
      BY WireAssumption
    <3> QED
      BY <2>1, <3>1, RecordComplete DEF ServerRuns, ServerHas, ServerRecord, Zipped, Zip
  <2> HIDE DEF zip
  <2>5. /\ server_archive'[ServerZip(t)] = zip
        /\ \A s : /\ server_archive'[Uploaded(s)] = server_archive[Uploaded(s)]
                  /\ s # t => server_archive'[ServerZip(s)] = server_archive[ServerZip(s)]
    <3>1. server_archive \in [ArchiveName -> Archive] /\ ServerZip(t) \in ArchiveName
      BY DEF Known, SystemTyped, ServerTyped, ServerTypeOK, ArchiveName, ServerZip, TestId
    <3>2. \A s : Uploaded(s) # ServerZip(t) /\ (s # t => ServerZip(s) # ServerZip(t))
      BY DEF Uploaded, ServerZip
    <3> QED
      BY <2>3, <3>1, <3>2
  <2>6. ServerVacant'
    BY <1>4, <2>1, <2>3 DEF ServerVacant, Vacant
  <2>7. ClientRuns(t)'
    BY <2>1 DEF ClientRuns
  <2>8. Unfetched(t)' /\ server_archive'[ServerZip(t)].there
    BY <2>1, <2>4, <2>5 DEF Unfetched, Settled, Recorded
  <2>9. Greets'
    BY <1>3, <2>6, <2>7, <2>8 DEF Greets, Between, Staged
  <2>10. Archived'
    BY <2>4, <2>5 DEF Known, InCampaign, Archived, RecordsExact, AcknowledgedIsSaved
  <2> QED
    BY <2>9, <2>10
<1>7. Greets' /\ Archived'
  BY <1>3, <1>5, <1>6 DEF Between
<1>8. Stages'
  BY <1>1, <1>2, <1>7, Answers DEF Stages
<1>9. OneSpeaks' /\ Linked'
  BY <1>1, <1>4, AnswersSteady
<1>10. \A t : ~Holds(t) /\ ~Holds(t)'
  BY <1>2 DEF Holds
<1>11. Timely'
  BY <1>2, <1>3, <1>4, <1>10, NobodyBusy DEF Timely, Triggering
<1>12. Supplied'
  BY <1>4, <1>10 DEF Known, InCampaign, Supplied
<1> QED
  BY <1>7, <1>8, <1>9, <1>11, <1>12
LEMMA UploadKept ==
    ASSUME Known, conn \in Conns, OnRequestUpload(conn), UNCHANGED <<clientVars, history>>
    PROVE  OneSpeaks' /\ Linked' /\ Timely' /\ Supplied' /\ Archived' /\ Stages'
<1> USE DEF clientVars, process, clientDisk, timers, history
<1> DEFINE m == Head(to_server[conn])
<1>1. Receives(conn, "REQUEST_UPLOAD") /\ Replies(conn, Msg("UPLOAD_COMPLETE", m.id))
  BY DEF OnRequestUpload
<1>2. client_state = "upload_data_available" /\ to_server[conn] # <<>>
  BY <1>1, Asked DEF Known, Receives, Waiting
<1>3. PICK t \in Tests : Hands(t)
  BY <1>2 DEF Known, InCampaign, Stages, HandsOver
<1>4. m = Upload(t, staging[t].files) /\ ~server_archive[Uploaded(t)].there
  BY <1>2, <1>3 DEF Hands
<1>5. m.id = t /\ m.body = staging[t].files
  BY <1>4 DEF Upload
<1>6. UNCHANGED <<link, server_up, config, server_live, server_unit, handler>>
  BY DEF OnRequestUpload
<1>7. server_archive' = [server_archive EXCEPT ![Uploaded(t)] = Zip(staging[t].files)]
  BY <1>4, <1>5 DEF OnRequestUpload, SaveFile
<1>8. staging[t].there /\ Zip(staging[t].files) = staging[t]
  <2>1. staging[t] \in Archive /\ staging[t].there
    BY <1>3 DEF Known, SystemTyped, ClientTyped, ClientTypeOK, Hands, Staged
  <2> QED
    BY <2>1 DEF Archive, Zip
<1>9. /\ server_archive'[Uploaded(t)] = staging[t]
      /\ \A s : /\ server_archive'[ServerZip(s)] = server_archive[ServerZip(s)]
                /\ s # t => server_archive'[Uploaded(s)] = server_archive[Uploaded(s)]
  <2>1. server_archive \in [ArchiveName -> Archive] /\ Uploaded(t) \in ArchiveName
    BY DEF Known, SystemTyped, ServerTyped, ServerTypeOK, ArchiveName, Uploaded, TestId
  <2>2. \A s : Uploaded(t) # ServerZip(s) /\ (s # t => Uploaded(s) # Uploaded(t))
    BY DEF Uploaded, ServerZip
  <2> QED
    BY <1>7, <1>8, <2>1, <2>2
<1>10. to_server'[conn] = <<>> /\ to_client'[conn] = <<Msg("UPLOAD_COMPLETE", t)>>
  BY <1>1, <1>5, Answers
<1>11. Received'.id = t
  BY <1>10, Singleton DEF Received, Msg
<1>12. Settled(Tests \ {t})'
  BY <1>3, <1>9 DEF Hands, Settled, Recorded
<1>13. Hands(t)'
  BY <1>3, <1>9, <1>10, <1>11, <1>12 DEF Hands, Staged
<1>14. HandsOver' /\ client_state' = "upload_data_available"
  BY <1>2, <1>6, <1>13
     DEF Known, InCampaign, Stages, HandsOver, ClientVacant, ServerVacant, config
<1>15. Stages'
  BY <1>14 DEF Stages
<1>16. Archived'
  <2>1. ~archive[t].there
    BY <1>4, <1>8 DEF Known, InCampaign, Archived, AcknowledgedIsSaved
  <2> QED
    BY <1>3, <1>9, <2>1 DEF Known, InCampaign, Archived, RecordsExact, AcknowledgedIsSaved, Hands
<1>17. OneSpeaks' /\ Linked'
  BY <1>1, <1>6, AnswersSteady
<1>18. \A s : ~Holds(s) /\ ~Holds(s)'
  BY <1>2 DEF Holds
<1>19. Timely' /\ Supplied'
  <2>1. ~restart_timer /\ ~Triggering
    BY <1>1, <1>2, Answers DEF Triggering
  <2> QED
    BY <1>2, <1>6, <1>18, <2>1, NobodyBusy
       DEF Timely, Triggering, Known, InCampaign, Supplied, config
<1> QED
  BY <1>15, <1>16, <1>17, <1>19

LEMMA RequestKept ==
    ASSUME Known, conn \in Conns, OnRequestCapcon(conn), UNCHANGED <<clientVars, history>>
    PROVE  OneSpeaks' /\ Linked' /\ Timely' /\ Supplied' /\ Archived' /\ Stages'
<1> USE DEF clientVars, process, clientDisk, timers, history
<1>1. Receives(conn, "REQUEST_CAPCON")
  BY DEF OnRequestCapcon
<1>2. client_state = "preparing_ready_for_test" /\ to_server[conn] # <<>>
  BY <1>1, Asked DEF Known, Receives, Waiting
<1> PICK id : id = PendingTest
  OBVIOUS
<1>3. Fetches /\ ServerVacant
  BY <1>2 DEF Known, InCampaign, Stages, Fetches
<1>4. /\ UNCHANGED <<server_up, test_queue, server_archive, server_unit>>
      /\ last_capcon' = id
  BY DEF OnRequestCapcon
<1>5. MayStore(server_live)
  BY <1>3, VacantEmpty DEF ServerVacant
<1>6. SendNothing(conn) \/ SendPending(conn)
  BY <1>5 DEF OnRequestCapcon, RefusePending
<1>7. Replies(conn, Msg("CAPCON", id)) /\ AwaitsSend(conn, "delivering") /\ UNCHANGED link
  BY <1>6 DEF SendNothing, SendPending
<1>8. /\ to_server'[conn] = <<>> /\ to_client'[conn] = <<Msg("CAPCON", id)>>
      /\ link[conn] = "open" /\ to_client[conn] = <<>>
      /\ ~restart_timer /\ handler[conn] = "receiving"
  BY <1>1, <1>7, Answers
<1>9. to_client'[conn] # <<>> /\ Received'.id = id
  BY <1>8, Singleton DEF Received, Msg
<1>10. \A d \in Conns : handler'[d] = IF d = conn THEN "delivering" ELSE handler[d]
  BY <1>7, <1>8 DEF AwaitsSend, HandlerBecomes, Known, SystemTyped, ServerTyped, ServerTypeOK
<1>11. /\ test_queue = <<>> <=> id = NoTest
       /\ test_queue # <<>> => id \in Tests /\ id = Head(test_queue)
  <2>1. test_queue \in Seq(Tests)
    BY DEF Known, SystemTyped, ServerTyped, ServerTypeOK
  <2>2. test_queue # <<>> => Head(test_queue) \in Tests
    BY <2>1
  <2> QED
    BY <2>2, WireAssumption DEF PendingTest
<1>12. id = NoTest => ServerVacant'
  BY <1>3, <1>4, <1>6 DEF SendNothing, SendPending, ServerVacant
<1>13. id # NoTest => ServerStored(id)'
  <2>1. id # NoTest =>
            /\ server_live' = StoreCapcon(server_live, id, ServerJobs[id])
            /\ capture_jobs' = ServerJobs[id] /\ schedule_units' = ServerJobs[id]
    BY <1>3, <1>6 DEF SendNothing, SendPending, PrepareUnits, ServerVacant
  <2>2. \A live : Vacant(live) => Holding(StoreCapcon(live, id, ServerJobs[id]), id, ServerJobs[id])
    BY DEF Vacant, Holding, OwnFiles, StoreCapcon
  <2> QED
    BY <1>3, <1>4, <2>1, <2>2 DEF ServerStored, ServerHas, ServerVacant
<1>14. Settled(Tests)'
  BY <1>3, <1>4 DEF Fetches, Settled, Recorded
<1>15. Fetches'
  BY <1>3, <1>4, <1>8, <1>9, <1>11, <1>12, <1>13, <1>14 
     DEF Fetches, ClientVacant, Staged, ServerStored, ServerHas
<1>16. Stages'
  BY <1>2, <1>15 DEF Stages
<1>17. OneSpeaks' /\ Linked'
  BY <1>1, <1>7, AnswersSteady
<1>18. /\ \A t : ~Holds(t)
       /\ test_queue # <<>> => Holds(Head(test_queue))'
  BY <1>2, <1>4, <1>8, <1>9, <1>11 DEF Holds
<1>19. ~Triggering
  BY <1>2 DEF Triggering
<1>20. \A d \in Conns : handler[d] # "triggering" /\ (handler[d] = "delivering" => test_queue = <<>>)
  BY <1>8, <1>18, <1>19, NobodyBusy
<1>21. Timely'
  BY <1>4, <1>8, <1>10, <1>18, <1>20 DEF Timely
<1>22. Supplied'
  BY <1>4, <1>18 DEF Known, InCampaign, Supplied
<1>23. Archived'
  BY <1>4, SameArchives
<1> QED
  BY <1>16, <1>17, <1>21, <1>22, <1>23

LEMMA AckKept ==
    ASSUME Known, conn \in Conns, OnAckCapcon(conn), UNCHANGED <<clientVars, history>>
    PROVE  OneSpeaks' /\ Linked' /\ Timely' /\ Supplied' /\ Archived' /\ Stages'
<1> USE DEF clientVars, process, clientDisk, timers, history
<1> DEFINE m == Head(to_server[conn])
<1>1. Receives(conn, "ACK_CAPCON") /\ Replies(conn, TriggerFor(m))
  BY DEF OnAckCapcon
<1>2. client_state = "offline_testing" /\ to_server[conn] # <<>>
  BY <1>1, Asked DEF Known, Receives, Waiting
<1>3. current \in Tests
  BY <1>2 DEF Known, SystemTyped, ClientTyped, Connected
<1>4. Acknowledges /\ ServerStored(current)
  BY <1>2 DEF Known, InCampaign, Stages, Acknowledges
<1>5. UNCHANGED <<link, server_up, config, server_live, server_archive, server_unit>>
  BY DEF OnAckCapcon
<1>6. /\ to_server'[conn] = <<>> /\ to_client'[conn] # <<>>
      /\ link[conn] = "open" /\ to_client[conn] = <<>>
      /\ ~restart_timer /\ handler[conn] = "receiving"
  BY <1>1, Answers, Singleton
<1>7. \A d \in Conns : handler'[d] = IF d = conn THEN "triggering" ELSE handler[d]
  BY <1>6 DEF OnAckCapcon, AwaitsSend, HandlerBecomes, Known, SystemTyped, ServerTyped, ServerTypeOK
<1>8. ServerGoing(current)'
  BY <1>4, <1>5, <1>7 DEF ServerGoing, ServerStored, ServerHas, config
<1>9. Settled(Tests)'
  BY <1>4, <1>5 DEF Acknowledges, Settled, Recorded
<1>10. Acknowledges'
  BY <1>4, <1>6, <1>8, <1>9 DEF Acknowledges, ClientStored, Staged
<1>11. Stages'
  BY <1>2, <1>10 DEF Stages
<1>12. OneSpeaks' /\ Linked'
  BY <1>1, <1>5, AnswersSteady
<1>13. \A d \in Conns : handler[d] = "delivering" => test_queue = <<>>
  BY <1>6, NobodyBusy DEF Triggering
<1>14. \A t : Holds(t)' = Holds(t)
  BY <1>2 DEF Holds
<1>15. Timely'
  BY <1>2, <1>5, <1>6, <1>7, <1>13, NobodyBusy DEF Timely, Triggering, config
<1>16. Supplied'
  BY <1>5, <1>14 DEF Known, InCampaign, Supplied, config
<1>17. Archived'
  BY <1>5, SameArchives
<1> QED
  BY <1>11, <1>12, <1>15, <1>16, <1>17

LEMMA HandlersStep ==
    ASSUME Known, NEW c \in Conns, ServerHandles(c), UNCHANGED <<clientVars, history>>
    PROVE  OneSpeaks' /\ Linked' /\ Timely' /\ Supplied' /\ Archived' /\ Stages'
<1>1. CASE OnDisconnect(c) \/ Delivered(c) \/ Triggered(c)
  BY <1>1, DisconnectKept, DeliveredKept, TriggeredKept
<1>2. CASE OnClientHello(c) \/ OnRequestUpload(c) \/ OnRequestCapcon(c) \/ OnAckCapcon(c)
  <2>1. c = conn
    BY <1>2, ReadsOwn DEF OnClientHello, OnRequestUpload, OnRequestCapcon, OnAckCapcon, Receives
  <2> QED
    BY <1>2, <2>1, HelloKept, UploadKept, RequestKept, AckKept
<1>3. ~OnUnknown(c) /\ ~OnMalformed(c)
  BY ReadsOwn, Asked DEF OnUnknown, OnMalformed, Receives, Known
<1> QED
  BY <1>1, <1>2, <1>3, NoSendRaises DEF ServerHandles
-----------------------------------------------------------------------------
(* The client goes on. *)

(* No timer is there yet to count a capture for. *)
LEMMA NothingCounted ==
    ASSUME ClientStep, UNCHANGED restart_timer
    PROVE  UNCHANGED <<serverVars, history>>
BY DEF ClientStep, CountExecution, history

LEMMA ReadsQuiet ==
    ASSUME Known, Reads
    PROVE  /\ conn \in Conns /\ ~restart_timer
           /\ \A d \in Conns : to_server[d] = <<>> /\ to_client'[d] = <<>>
<1>1. /\ conn \in Conns /\ to_server[conn] = <<>> /\ client_state # "off"
      /\ to_client'[conn] = <<>>
  BY Replied, ReadsLast DEF Known, Reads, Waits
<1>2. \A d \in Conns \ {conn} : to_client'[d] = to_client[d]
  BY DEF Reads, Drop, Known, SystemTyped, ServerTyped, WireTypeOK
<1> QED
  BY <1>1, <1>2 DEF Known, InCampaign, OneSpeaks, Timely

LEMMA SendsOne ==
    ASSUME Known, conn \in Conns, ~Triggering,
           \A d \in Conns : to_server[d] = <<>> /\ to_client'[d] = <<>>,
           NEW m, Sends(m), UNCHANGED <<link, conn>>
    PROVE  to_server'[conn] = <<m>> /\ OneSpeaks' /\ Linked'
<1>1. link[conn] = "open"
  BY DEF Known, InCampaign, Linked
<1>2. DOMAIN to_server = Conns /\ to_server' = [to_server EXCEPT ![conn] = Append(@, m)]
  BY <1>1 DEF Sends, SendTo, Post, Known, SystemTyped, ServerTyped, WireTypeOK
<1>3. to_server'[conn] = <<m>> /\ \A d \in Conns \ {conn} : to_server'[d] = <<>>
  BY <1>2, Singleton
<1> QED
  BY <1>1, <1>3, Singleton DEF OneSpeaks, Linked, Silent

LEMMA GoneSteady ==
    ASSUME Known, NEW s, Gone(s), \A d \in Conns : to_server'[d] = <<>> /\ to_client'[d] = <<>>
    PROVE  OneSpeaks' /\ Linked'
BY ClientAssumption DEF Gone, OneSpeaks, Linked

LEMMA ServerHelloKept ==
    ASSUME Known, ClientStep, HandleServerHello
    PROVE  OneSpeaks' /\ Linked' /\ Timely' /\ Supplied' /\ Archived' /\ Stages'
<1>1. /\ Reads /\ client_state = "connecting" /\ client_state' = "connected"
      /\ UNCHANGED <<link, to_server, conn, current, clientDisk, timers, serverVars, history>>
  BY NothingCounted DEF HandleServerHello, Handles, timers
<1> USE <1>1 DEF clientDisk, timers, serverVars, config, history
<1>2. /\ conn \in Conns /\ ~restart_timer
      /\ \A d \in Conns : to_server[d] = <<>> /\ to_client'[d] = <<>>
  BY ReadsQuiet
<1>3. Greets
  BY DEF Known, InCampaign, Stages, Reads
<1>4. ServerVacant' = ServerVacant /\ ClientVacant' = ClientVacant
  BY DEF ServerVacant, ClientVacant
<1>5. \A t \in Tests : ClientRuns(t)' = ClientRuns(t) /\ Unfetched(t)' = Unfetched(t)
  BY DEF ClientRuns, Unfetched, Settled, Recorded
<1>6. Greets'
  BY <1>3, <1>4, <1>5 DEF Greets, Settled, Recorded, Staged
<1>7. Stages'
  BY <1>6 DEF Stages
<1>8. OneSpeaks'
  BY <1>2 DEF OneSpeaks
<1>9. link[conn] = "open"
  BY <1>2 DEF Known, InCampaign, Linked, Triggering
<1>10. Linked'
  BY <1>9 DEF Linked
<1>11. \A t : ~Holds(t) /\ ~Holds(t)'
  BY DEF Holds
<1>12. Timely' /\ Supplied'
  BY <1>2, <1>11, NobodyBusy DEF Timely, Triggering, Known, InCampaign, Supplied
<1>13. Archived'
  BY SameArchives
<1> QED
  BY <1>7, <1>8, <1>10, <1>12, <1>13

(* Entering preparing_ready_for_test with nothing left to upload *)
LEMMA AsksForCapcon ==
    ASSUME Known, conn \in Conns, ~restart_timer, ~Triggering, \A t : ~Holds(t),
           \A d \in Conns : to_server[d] = <<>> /\ to_client'[d] = <<>>,
           UploadNext({}, staging'), UNCHANGED <<timers, serverVars, history>>,
           ClientVacant', ServerVacant, Staged(staging)' = {}, Settled(Tests)'
    PROVE  OneSpeaks' /\ Linked' /\ Timely' /\ Supplied' /\ Stages'
<1>1. /\ Sends(Msg("REQUEST_CAPCON", NoTest))
      /\ client_state' = "preparing_ready_for_test" /\ UNCHANGED <<link, conn, current>>
  BY DEF UploadNext
<1> USE <1>1 DEF timers, serverVars, config, history
<1>2. OneSpeaks' /\ Linked'
  BY SendsOne
<1>3. ServerVacant'
  BY DEF ServerVacant
<1>4. Fetches'
  BY <1>3 DEF Fetches
<1>5. Stages'
  BY <1>4 DEF Stages
<1>6. \A t : ~Holds(t)'
  BY DEF Holds
<1>7. Timely' /\ Supplied'
  BY <1>6, NobodyBusy DEF Timely, Triggering, Known, InCampaign, Supplied
<1> QED
  BY <1>2, <1>5, <1>7

LEMMA CheckKept ==
    ASSUME Known, ClientStep, CheckFilesForUpload
    PROVE  OneSpeaks' /\ Linked' /\ Timely' /\ Supplied' /\ Archived' /\ Stages'
<1>1. /\ client_state = "connected" /\ UNCHANGED <<to_client, archive, timers, serverVars, history>>
      /\ UploadNext(Staged(staging'), staging')
  BY NothingCounted DEF CheckFilesForUpload, timers
<1> USE <1>1 DEF timers, serverVars, config, history
<1>2. conn \in Conns
  BY DEF Known, SystemTyped, ClientTyped, Connected
<1>3. ~restart_timer /\ ~Triggering /\ \A t : ~Holds(t)
  BY DEF Known, InCampaign, Timely, Triggering, Holds
<1>4. \A d \in Conns : to_server[d] = <<>> /\ to_client'[d] = <<>>
  BY DEF Known, InCampaign, OneSpeaks, Dialogue, Greeted, Silent
<1>5. Greets
  BY DEF Known, InCampaign, Stages
<1>6. Resting(client_unit) /\ Staged(staging) = {} /\ ServerVacant
  BY <1>3, <1>5 DEF Greets, Resting, Known, Apart
<1>7. Archived'
  BY SameArchives
<1>8. ASSUME ClientVacant, Settled(Tests)
      PROVE  OneSpeaks' /\ Linked' /\ Timely' /\ Supplied' /\ Stages'
  <2>1. UNCHANGED <<staging, client_live>>
    BY <1>8, VacantEmpty DEF CheckFilesForUpload, ClientVacant, MayStore
  <2>2. Staged(staging') = {} /\ Staged(staging)' = {}
    BY <1>6, <2>1 DEF Staged
  <2>3. ClientVacant' /\ Settled(Tests)'
    BY <1>8, <2>1 DEF ClientVacant, Settled, Recorded
  <2> QED
    BY <1>2, <1>3, <1>4, <1>6, <2>2, <2>3, AsksForCapcon
<1>9. ASSUME NEW t \in Tests, ClientRuns(t), Unfetched(t), server_archive[ServerZip(t)].there
      PROVE  OneSpeaks' /\ Linked' /\ Timely' /\ Supplied' /\ Stages'
  <2>1. HasCapcon(client_live) /\ StoredCapcon(client_live) = t
    BY <1>9, HoldingOne DEF ClientRuns
  <2> DEFINE zip == Zipped(CollectLogs(client_live, ClientJobs[t]))
  <2>2. client_live' = {} /\ staging' = [staging EXCEPT ![t] = zip]
    BY <2>1 DEF CheckFilesForUpload, StageLast, LastFiles
  <2>3. IsRecord(zip, ClientRecord(t)) /\ zip.there
    <3>1. ClientJobs[t] \in SUBSET Payloads
      BY WireAssumption
    <3> QED
      BY <1>6, <1>9, <3>1, RecordComplete DEF ClientRuns, ClientRecord, Zipped, Zip
  <2> HIDE DEF zip
  <2>4. staging'[t] = zip /\ \A s \in Tests : s # t => staging'[s] = staging[s]
    BY <2>2 DEF Known, SystemTyped, ClientTyped, ClientTypeOK
  <2>5. Staged(staging') = {t} /\ Staged(staging)' = {t}
    BY <1>6, <2>3, <2>4 DEF Staged
  <2>6. /\ Sends(Upload(t, staging'[t].files)) /\ pending_files' = {}
        /\ client_state' = "upload_data_available" /\ UNCHANGED <<link, conn, current>>
    BY <2>3, <2>4, <2>5 DEF UploadNext
  <2>7. to_server'[conn] = <<Upload(t, staging'[t].files)>> /\ OneSpeaks' /\ Linked'
    BY <1>2, <1>3, <1>4, <2>6, SendsOne
  <2>8. ClientVacant' /\ ServerVacant'
    BY <1>6, <2>2 DEF ClientVacant, ServerVacant, Vacant
  <2>9. Hands(t)'
    <3>1. Head(to_server'[conn']) = Upload(t, staging'[t].files) /\ to_client'[conn'] = <<>>
      BY <1>2, <1>4, <2>6, <2>7, Singleton
    <3>2. Settled(Tests \ {t})'
      BY <1>9 DEF Unfetched, Settled, Recorded
    <3> QED
      BY <1>9, <2>3, <2>4, <2>5, <3>1, <3>2 DEF Hands, Unfetched
  <2>10. HandsOver'
    BY <2>6, <2>8, <2>9 DEF HandsOver
  <2>11. Stages'
    BY <2>6, <2>10 DEF Stages
  <2>12. \A s : ~Holds(s)'
    BY <2>6 DEF Holds
  <2>13. Timely' /\ Supplied'
    BY <1>3, <2>6, <2>12, NobodyBusy DEF Timely, Triggering, Known, InCampaign, Supplied
  <2> QED
    BY <2>7, <2>11, <2>13
<1> QED
  BY <1>5, <1>7, <1>8, <1>9 DEF Greets

LEMMA CompleteKept ==
    ASSUME Known, ClientStep, HandleUploadComplete
    PROVE  OneSpeaks' /\ Linked' /\ Timely' /\ Supplied' /\ Archived' /\ Stages'
<1>1. /\ Reads /\ client_state = "upload_data_available"
      /\ UNCHANGED <<client_live, timers, serverVars, history>>
      /\ UploadNext(pending_files, staging')
  BY NothingCounted DEF HandleUploadComplete, Handles, timers
<1> USE <1>1 DEF timers, serverVars, config, history
<1>2. HandsOver /\ pending_files = {} /\ ClientVacant /\ ServerVacant
  BY DEF Known, InCampaign, Stages, HandsOver
<1>3. PICK t \in Tests : Hands(t)
  BY <1>2 DEF HandsOver
<1>4. Received.id = t /\ server_archive[Uploaded(t)] = staging[t]
  BY <1>3 DEF Hands, Reads
<1>5. staging[t].there /\ t # NoTest
  BY <1>3, WireAssumption DEF Hands, Staged
<1>6. staging' = [staging EXCEPT ![t] = NoZip] /\ archive' = [archive EXCEPT ![t] = staging[t]]
  BY <1>4, <1>5 DEF HandleUploadComplete, Movable, MoveOut, MoveIn
<1>7. /\ archive'[t] = staging[t] /\ ~staging'[t].there
      /\ \A s \in Tests : s # t => archive'[s] = archive[s] /\ staging'[s] = staging[s]
  BY <1>6 DEF NoZip, Known, SystemTyped, ClientTyped, ClientTypeOK
<1>8. Staged(staging)' = {}
  BY <1>3, <1>7 DEF Hands, Staged
<1>9. Settled(Tests)'
  BY <1>3, <1>4, <1>5 DEF Hands, Settled, Recorded
<1>10. ClientVacant'
  BY <1>2 DEF ClientVacant
<1>11. /\ conn \in Conns /\ ~restart_timer
       /\ \A d \in Conns : to_server[d] = <<>> /\ to_client'[d] = <<>>
  BY ReadsQuiet
<1>12. ~Triggering /\ \A s : ~Holds(s)
  BY DEF Triggering, Holds
<1>13. UploadNext({}, staging')
  BY <1>2
<1>14. OneSpeaks' /\ Linked' /\ Timely' /\ Supplied' /\ Stages'
  BY <1>2, <1>8, <1>9, <1>10, <1>11, <1>12, <1>13, AsksForCapcon
<1>15. Archived'
  BY <1>4, <1>7 DEF Known, InCampaign, Archived, RecordsExact, AcknowledgedIsSaved
<1> QED
  BY <1>14, <1>15
LEMMA CapconKept ==
    ASSUME Known, ClientStep, HandleCapcon
    PROVE  OneSpeaks' /\ Linked' /\ Timely' /\ Supplied' /\ Archived' /\ Stages'
<1>1. /\ Reads /\ client_state = "preparing_ready_for_test" /\ Received.id # NoTest
      /\ UNCHANGED <<link, conn, staging, archive, timers, serverVars, history>>
      /\ Sends(Msg("ACK_CAPCON", Received.id))
      /\ client_state' = "offline_testing" /\ current' = Received.id
      /\ client_live' = StoreCapcon(client_live, Received.id, ClientJobs[Received.id])
  BY NothingCounted DEF HandleCapcon, Handles, timers
<1> USE <1>1 DEF timers, serverVars, config, history
<1>2. PICK t \in Tests : t = Received.id /\ ServerStored(t)
  BY DEF Known, InCampaign, Stages, Fetches, Reads
<1>3. ClientVacant /\ Staged(staging) = {} /\ Settled(Tests) /\ ~Triggering
  BY DEF Known, InCampaign, Stages, Fetches, Triggering
<1>4. /\ conn \in Conns /\ ~restart_timer
      /\ \A d \in Conns : to_server[d] = <<>> /\ to_client'[d] = <<>>
  BY ReadsQuiet
<1>5. OneSpeaks' /\ Linked'
  BY <1>3, <1>4, SendsOne
<1>6. \A live : Vacant(live) => Holding(StoreCapcon(live, t, ClientJobs[t]), t, ClientJobs[t])
  BY DEF Vacant, Holding, OwnFiles, StoreCapcon
<1>7. ClientStored(current)'
  BY <1>2, <1>3, <1>6 DEF ClientStored, ClientVacant
<1>8. ServerStored(current)'
  BY <1>2 DEF ServerStored, ServerHas
<1>9. Acknowledges'
  BY <1>3, <1>4, <1>7, <1>8 DEF Acknowledges, Settled, Recorded, Staged
<1>10. Stages'
  BY <1>9 DEF Stages
<1>11. \A s : Holds(s) <=> Holds(s)'
  BY <1>2 DEF Holds, Reads
<1>12. Timely'
  BY <1>3, <1>4, <1>11, NobodyBusy DEF Known, InCampaign, Timely
<1>13. Supplied'
  BY <1>11 DEF Known, InCampaign, Supplied
<1>14. Archived'
  BY SameArchives
<1> QED
  BY <1>5, <1>10, <1>12, <1>13, <1>14

LEMMA LastKept ==
    ASSUME Known, ClientStep, HandleLastCapcon
    PROVE  /\ OneSpeaks' /\ Linked' /\ Timely' /\ Supplied' /\ Archived' /\ Stages'
           /\ \A t \in Tests : executed[t] > 0 /\ Recorded(t)
<1>1. /\ Reads /\ client_state = "preparing_ready_for_test" /\ Received.id = NoTest
      /\ UNCHANGED <<to_server, clientDisk, timers, serverVars, history>>
      /\ Gone("finished") /\ client_state' = "finished"
  BY NothingCounted DEF HandleLastCapcon, Handles, timers, Gone
<1> USE <1>1 DEF clientDisk, timers, serverVars, config, history
<1>2. Settled(Tests) /\ test_queue = <<>>
  BY WireAssumption DEF Known, InCampaign, Stages, Fetches, Reads
<1>3. /\ ~restart_timer /\ ~Triggering
      /\ \A d \in Conns : to_server[d] = <<>> /\ to_client'[d] = <<>>
  BY ReadsQuiet DEF Triggering
<1>4. \A t \in Tests : executed[t] > 0
  <2>1. Queued(test_queue) = {}
    BY <1>2 DEF Queued
  <2>2. \A t \in Tests : ~Holds(t)
    BY WireAssumption DEF Holds
  <2> QED
    BY <2>1, <2>2 DEF Known, InCampaign, Supplied
<1>5. \A t \in Tests : Recorded(t)
  BY <1>2, <1>4 DEF Settled
<1>6. Stages'
  BY <1>4, <1>5 DEF Stages, Recorded
<1>7. OneSpeaks' /\ Linked'
  BY <1>3, GoneSteady
<1>8. Timely' /\ Supplied'
  BY <1>2, <1>3, <1>4, NobodyBusy DEF Timely, Supplied
<1>9. Archived'
  BY SameArchives
<1> QED
  BY <1>4, <1>5, <1>6, <1>7, <1>8, <1>9

LEMMA ExecuteKept ==
    ASSUME Known, ClientStep, HandleExecute
    PROVE  /\ OneSpeaks' /\ Linked' /\ Timely' /\ Supplied' /\ Archived' /\ Stages'
           /\ ServerGoing(current) /\ executed[current] = 0 /\ executed' = Count(current)
           /\ Settled(Tests)
<1>1. /\ Reads /\ client_state = "offline_testing" /\ Execute(current)
      /\ Gone("off") /\ client_state' = "off"
      /\ UNCHANGED <<to_server, clientDisk, serverVars, faults, oversized>>
  BY DEF HandleExecute, Handles, Gone, ClientStep
<1> USE <1>1 DEF clientDisk, serverVars, config
<1>2. PICK t \in Tests : t = current
  BY DEF Known, SystemTyped, ClientTyped, Connected
<1>3. /\ ClientStored(t) /\ ServerGoing(t)
      /\ Staged(staging) = {} /\ Settled(Tests)
  BY <1>2 DEF Known, InCampaign, Stages, Acknowledges, Reads
<1>4. /\ ~restart_timer /\ handler[conn] # "delivering" /\ conn \in Conns
      /\ \A d \in Conns : to_server[d] = <<>> /\ to_client'[d] = <<>>
  BY ReadsQuiet, Replied DEF Known, Reads
<1>5. /\ restart_timer' = TRUE /\ client_unit' = Arm(client_unit, ClientJobs[t])
      /\ executed' = Count(t)
  BY <1>2, <1>4 DEF Execute, ClientStep, CountExecution
<1>6. executed[t] = 0
  <2>1. Holds(t)
    BY <1>2 DEF Holds
  <2> QED
    BY <2>1, CountersInt DEF Known, InCampaign, NothingFails, Once
<1>7. executed'[t] = 1 /\ \A s \in Tests \ {t} : executed'[s] = executed[s]
  BY <1>5, <1>6, SystemAssumption DEF Count, MostExecutions, Known, SystemTyped
<1>8. Unfetched(t)'
  <2>1. ~server_archive[Uploaded(t)].there
    BY <1>6 DEF Known, InCampaign, Archived
  <2> QED
    BY <1>3, <1>7, <2>1 DEF Unfetched, Settled, Recorded
<1>9. ClientRuns(t)'
  <2>1. /\ client_unit \in [Payloads -> UnitState] /\ ClientJobs[t] \in SUBSET Payloads
        /\ Holding(client_live, t, ClientJobs[t]) /\ Resting(client_unit)
    BY <1>3, WireAssumption DEF Known, SystemTyped, ClientTyped, ClientTypeOK, ClientStored
  <2>2. \A p \in Payloads : client_unit'[p] =
            IF p \in ClientJobs[t] /\ ~Busy(client_unit, p) THEN "armed" ELSE client_unit[p]
    BY <1>5 DEF Arm
  <2>3. \A p \in ClientJobs[t] : Busy(client_unit', p)
    BY <2>1, <2>2 DEF Busy
  <2>4. \A p \in Payloads : Busy(client_unit', p) => p \in Overruns \cup ClientJobs[t]
    BY <2>1, <2>2 DEF Resting, Busy
  <2> QED
    BY <2>1, <2>3, <2>4 DEF ClientRuns, InProgress
<1>10. ServerGoing(t)'
  BY <1>3 DEF ServerGoing, ServerRuns, ServerStored, ServerHas
<1>11. Between'
  BY <1>3, <1>5, <1>8, <1>9, <1>10 DEF Between, Capturing, Staged
<1>12. Stages'
  BY <1>11 DEF Stages
<1>13. OneSpeaks' /\ Linked'
  BY <1>4, GoneSteady
<1>14. Timely'
  BY <1>4, <1>5 DEF Known, InCampaign, Timely
<1>15. Supplied'
  <2>1. \A s \in Tests \ {t} : ~Holds(s)
    BY <1>2 DEF Holds
  <2> QED
    BY <1>7, <2>1 DEF Known, InCampaign, Supplied
<1>16. Archived'
  BY <1>7, SameArchives
<1> QED
  BY <1>2, <1>3, <1>5, <1>6, <1>12, <1>13, <1>14, <1>15, <1>16

(* The ways in which a client dies need a fault. *)
LEMMA ClientLives ==
    ASSUME Known
    PROVE  /\ ~CheckFilesRaises /\ ~HandleCapconRaises /\ ~HandleExecuteMismatch
           /\ ~BadReply /\ ~ConnectionLost
<1>1. ~CheckFilesRaises
  <2> SUFFICES ASSUME client_state = "connected" PROVE Loadable
    BY DEF CheckFilesRaises
  <2>1. ClientVacant \/ \E t \in Tests : ClientRuns(t)
    BY DEF Known, InCampaign, Stages, Greets
  <2>2. ~Torn(client_live)
    BY <2>1, VacantEmpty, HoldingOne DEF ClientVacant, ClientRuns, MayStore
  <2> QED
    BY <2>2 DEF Loadable, Known, InCampaign, NothingFails, Undisturbed
<1>2. ~HandleCapconRaises
  <2> SUFFICES ASSUME HandleCapconRaises PROVE FALSE
    OBVIOUS
  <2>1. ClientVacant
    BY DEF HandleCapconRaises, Handles, Known, InCampaign, Stages, Fetches
  <2>2. MayStore(client_live) /\ \A p : JobFile(p) \notin client_live
    BY <2>1, VacantEmpty DEF ClientVacant
  <2> QED
    BY <2>2 DEF HandleCapconRaises, OwnJobsConflict, JobFiles
<1>3. ~HandleExecuteMismatch /\ ~BadReply
  BY Replied DEF Known, HandleExecuteMismatch, BadReply, Handles, Reads
<1>4. ~ConnectionLost
  <2> SUFFICES ASSUME ConnectionLost PROVE FALSE
    OBVIOUS
  <2>1. Waits /\ to_client[conn] = <<>> /\ link[conn] = "closed"
    BY DEF ConnectionLost
  <2>2. conn \in Conns
    BY <2>1 DEF Waits, Known, SystemTyped, ClientTyped, Connected
  <2> QED
    BY <2>1, <2>2 DEF Known, InCampaign, Linked, Triggering
<1> QED
  BY <1>1, <1>2, <1>3, <1>4

LEMMA ClientCases ==
    ASSUME Known, ClientStep
    PROVE  \/ HandleServerHello \/ CheckFilesForUpload \/ HandleUploadComplete
           \/ HandleCapcon \/ HandleLastCapcon \/ HandleExecute
BY ClientLives DEF ClientStep, ClientHandles
-----------------------------------------------------------------------------
(* The invariant *)

(* The glob order is of all CapCons. *)
LEMMA OrdersComplete == \A q \in TestOrders : Tests \subseteq Queued(q)
<1> DEFINE n == Cardinality(Tests)
<1>1. IsFiniteSet(Tests) /\ n \in Nat
  BY WireAssumption, FS_CardinalityType
<1>2. IsFiniteSet(1..n) /\ Cardinality(1..n) = n
  BY <1>1, FS_Interval
<1>3. ASSUME NEW q \in TestOrders PROVE Tests \subseteq Queued(q)
  <2>1. q \in [1..n -> Tests] /\ \A i, j \in 1..n : q[i] = q[j] => i = j
    BY <1>3 DEF TestOrders
  <2> HIDE DEF n
  <2>2. q \in Injection(1..n, Tests)
    BY <2>1, Fun_IsInj
  <2>3. q \in Surjection(1..n, Tests)
    BY <1>1, <1>2, <2>2, FS_Injection DEF n
  <2>4. \A t \in Tests : \E i \in 1..n : q[i] = t
    BY <2>3 DEF Surjection
  <2> QED
    BY <2>1, <2>4 DEF Queued
<1> QED
  BY <1>3

LEMMA KnownInit == Undisturbed /\ SystemInit => Known
<1> SUFFICES ASSUME Undisturbed, SystemInit PROVE Known
  OBVIOUS
<1> USE DEF SystemInit, WireInit, ServerInit, ClientInit
<1>1. SystemTyped /\ Dialogue /\ Once
  BY SystemTypedInit, DialogueInit, OnceInit
<1>2. \A p \in Payloads : ~Busy(client_unit, p) /\ ~Busy(server_unit, p)
  BY DEF Busy
<1>3. Apart
  BY <1>2 DEF Apart
<1>4. NothingFails
  BY DEF NothingFails, Undisturbed, Restarts, FaultKind
<1>5. OneSpeaks /\ Linked /\ Timely
  BY ClientAssumption DEF OneSpeaks, Linked, Timely
<1>6. Supplied
  BY OrdersComplete DEF Supplied
<1>7. Archived
  <2>1. \A t \in Tests : /\ ~server_archive[Uploaded(t)].there
                         /\ ~server_archive[ServerZip(t)].there
                         /\ ~archive[t].there
    BY DEF ArchiveName, Uploaded, ServerZip, TestId, NoZip
  <2> QED
    BY <2>1 DEF Archived, RecordsExact, AcknowledgedIsSaved, IsRecord
<1>8. Between
  <2>1. Staged(staging) = {}
    BY DEF Staged, NoZip
  <2> QED
    BY <1>2, <2>1 DEF Between, Untouched
<1>9. Stages
  BY <1>8 DEF Stages
<1> QED
  BY <1>1, <1>3, <1>4, <1>5, <1>6, <1>7, <1>9 DEF Known, InCampaign

LEMMA KnownStep == Known /\ StepOfSystem => Known'
<1> SUFFICES ASSUME Known, StepOfSystem PROVE Known'
  OBVIOUS
<1>1. SystemTyped' /\ Dialogue' /\ Once' /\ Apart'
  BY SystemTypedStep, DialogueStep, OnceStep, ApartStep DEF Known, StepOfSystem
<1>2. NothingFails'
  BY NothingFailsStep
<1>3. OneSpeaks' /\ Linked' /\ Timely' /\ Supplied' /\ Archived' /\ Stages'
  <2>1. CASE ClientStep
    BY <2>1, ClientCases, ServerHelloKept, CheckKept, CompleteKept, CapconKept, LastKept, ExecuteKept
  <2> QED
    BY <2>1, OnlyPlainSteps, NothingKept, StartKept, ConnectKept, ClientPayloadsKept,
       ServerPayloadsKept, HandlersStep
<1> QED
  BY <1>1, <1>2, <1>3 DEF Known, InCampaign

LEMMA KnownInvariant == Undisturbed /\ SystemSpec => []Known
BY KnownInit, KnownStep, PTL DEF SystemSpec, StepOfSystem

-----------------------------------------------------------------------------
(* What the invariant says about the archives and the campaign *)

(* When nothing fails, every archive on the server is the complete and     *)
(* pure record of its capture, whichever payloads overrun and whatever is  *)
(* still running when CLIENT_HELLO and the client archive a live workspace. *)
THEOREM RecordsAreExact == Undisturbed /\ SystemSpec => []RecordsExact
<1>1. Known => RecordsExact
  BY DEF Known, InCampaign, Archived
<1> QED
  BY <1>1, KnownInvariant, PTL

(* When nothing fails, what the client has moved to its archive upon       *)
(* UPLOAD_COMPLETE is what handle_file_payload has written on the server.  *)
THEOREM AcknowledgedAreSaved == Undisturbed /\ SystemSpec => []AcknowledgedIsSaved
<1>1. Known => AcknowledgedIsSaved
  BY DEF Known, InCampaign, Archived
<1> QED
  BY <1>1, KnownInvariant, PTL

(* A client that learns that no test is left, when nothing fails, does so  *)
(* with every capture run once and both of its records on the server.      *)
THEOREM CompletesWhenFinished == Undisturbed /\ SystemSpec => []CompleteWhenFinished
<1>1. Known => CompleteWhenFinished
  <2> SUFFICES ASSUME Known, client_state = "finished", NEW t \in Tests
               PROVE  executed[t] = 1 /\ Recorded(t)
    BY DEF CompleteWhenFinished, Recorded
  <2>1. executed[t] > 0 /\ Recorded(t)
    BY DEF Known, InCampaign, Stages
  <2>2. executed[t] <= 1 /\ executed[t] \in Nat
    BY CountersInt DEF Known, InCampaign, NothingFails, Once
  <2> QED
    BY <2>1, <2>2
<1> QED
  BY <1>1, KnownInvariant, PTL
-----------------------------------------------------------------------------
(* The steps of a campaign *)

(* Only a handled EXECUTE_CAPCON starts the timer of the client. *)
LEMMA TimerStarts ==
    ASSUME Known, StepOfSystem, restart_timer', ~restart_timer
    PROVE  ClientStep /\ HandleExecute
<1>1. ~(UNCHANGED timers)
  BY DEF timers
<1>2. ~Restart /\ ~OperatorStart /\ ~ClientPayloads /\ ~(UNCHANGED systemVars)
  BY <1>1 DEF Restart, OperatorStart, StartsByTimer, StartsByOperator, TimerFires, ClientPayloads,
              ClientRunsPayloads, ClientMexec, ClientPayloadEnds, systemVars, clientVars
<1>3. ~ServerPayloads /\ \A c \in Conns : ~Connect(c)
  BY <1>1 DEF ServerPayloads, Connect, Connects, clientVars
<1>4. ClientStep
  BY <1>1, <1>2, <1>3, OnlyPlainSteps DEF clientVars
<1>5. HandleExecute
  BY <1>1, <1>4, ClientCases
     DEF HandleServerHello, CheckFilesForUpload, HandleUploadComplete, HandleCapcon, HandleLastCapcon
<1> QED
  BY <1>4, <1>5

(* When nothing fails, a client that obeys EXECUTE_CAPCON does so while    *)
(* the server has the same CapCon stored and its units started, or about   *)
(* to be by the handler that sent it.                                      *)
THEOREM TriggersStayTogether == Undisturbed /\ SystemSpec => TriggersTogether
<1>1. Known /\ StepOfSystem =>
        (restart_timer' /\ ~restart_timer =>
            /\ CapconFile(current) \in server_live
            /\ \A p \in ServerJobs[current] :
                 server_unit[p] # "none" \/ p \in schedule_units)
  <2> SUFFICES ASSUME Known, StepOfSystem, restart_timer', ~restart_timer
               PROVE  /\ CapconFile(current) \in server_live
                      /\ \A p \in ServerJobs[current] :
                           server_unit[p] # "none" \/ p \in schedule_units
    OBVIOUS
  <2>1. ServerGoing(current)
    BY TimerStarts, ExecuteKept
  <2> QED
    BY <2>1 DEF ServerGoing, ServerRuns, ServerStored, ServerHas, Holding, OwnFiles
<1> QED
  BY <1>1, KnownInvariant, KnownStep, PTL DEF SystemSpec, StepOfSystem, TriggersTogether

CampaignStep == [Campaign!CampaignNext]_<<[t \in Tests |-> PhaseOf(t)], client_state = "finished">>

(* A step of the system that starts no capture, stores no record of one    *)
(* that has been executed and does not end, is none of the campaign.       *)
LEMMA SamePhases ==
    ASSUME \A t \in Tests : Recorded(t)' <=> Recorded(t), UNCHANGED executed,
           client_state' = "finished" <=> client_state = "finished"
    PROVE  CampaignStep
<1>1. \A t \in Tests : PhaseOf(t)' = PhaseOf(t)
  BY DEF PhaseOf
<1>2. [t \in Tests |-> PhaseOf(t)]' = [t \in Tests |-> PhaseOf(t)]
  BY <1>1
<1>3. (client_state = "finished")' = (client_state = "finished")
  OBVIOUS
<1> QED
  BY <1>2, <1>3 DEF CampaignStep

(* HandleExecute starts a capture. *)
LEMMA ExecuteStarts ==
    ASSUME Known, ClientStep, HandleExecute
    PROVE  CampaignStep
<1>1. PICK t \in Tests : t = current
  BY DEF HandleExecute, Handles, Known, SystemTyped, ClientTyped, Connected
<1>2. executed[t] = 0 /\ executed' = Count(t) /\ Settled(Tests)
  BY <1>1, ExecuteKept
<1>3. executed'[t] > 0 /\ \A s \in Tests \ {t} : executed'[s] = executed[s]
  BY <1>2, SystemAssumption DEF Count, MostExecutions, Known, SystemTyped
<1>4. UNCHANGED server_archive /\ client_state = "offline_testing" /\ client_state' = "off"
  BY DEF ClientStep, serverVars, HandleExecute, Handles, Gone
<1>5. ~Recorded(t) /\ \A s \in Tests : Recorded(s)' <=> Recorded(s)
  BY <1>2, <1>4 DEF Recorded, Known, InCampaign, Archived
<1>6. /\ PhaseOf(t) = "waiting" /\ PhaseOf(t)' = "executing"
      /\ \A s \in Tests : PhaseOf(s) # "executing"
      /\ \A s \in Tests \ {t} : PhaseOf(s)' = PhaseOf(s)
  BY <1>2, <1>3, <1>5 DEF PhaseOf, Settled
<1>7. [s \in Tests |-> PhaseOf(s)]' =
        [[s \in Tests |-> PhaseOf(s)] EXCEPT ![t] = "executing"]
  BY <1>6
<1>8. (client_state = "finished")' = (client_state = "finished")
  BY <1>4
<1>9. Campaign!Start(t)
  BY <1>6, <1>7, <1>8 DEF Campaign!Start
<1> QED
  BY <1>9 DEF CampaignStep, Campaign!CampaignNext

(* Saving the upload completes the record of a capture. *)
LEMMA UploadStores ==
    ASSUME Known, conn \in Conns, OnRequestUpload(conn), UNCHANGED <<clientVars, history>>
    PROVE  CampaignStep
<1>1. /\ Waiting(conn, "REQUEST_UPLOAD") /\ UNCHANGED <<client_state, executed>>
  BY DEF OnRequestUpload, Receives, clientVars, process, history
<1>2. client_state = "upload_data_available" /\ to_server[conn] # <<>>
  BY <1>1, Asked DEF Known, Waiting
<1>3. PICK t \in Tests : Hands(t)
  BY <1>2 DEF Known, InCampaign, Stages, HandsOver
<1>4. /\ Head(to_server[conn]) = Upload(t, staging[t].files)
      /\ ~server_archive[Uploaded(t)].there /\ executed[t] > 0
      /\ server_archive[ServerZip(t)].there
  BY <1>2, <1>3 DEF Hands
<1>5. server_archive' = [server_archive EXCEPT ![Uploaded(t)] = Zip(staging[t].files)]
  <2>1. Head(to_server[conn]).id = t /\ Head(to_server[conn]).body = staging[t].files
    BY <1>4 DEF Upload
  <2> QED
    BY <1>4, <2>1 DEF OnRequestUpload, SaveFile
<1>6. server_archive \in [ArchiveName -> Archive] /\ Uploaded(t) \in ArchiveName
  BY DEF Known, SystemTyped, ServerTyped, ServerTypeOK, ArchiveName, Uploaded, TestId
<1>7. \A s : Uploaded(t) # ServerZip(s) /\ (s # t => Uploaded(s) # Uploaded(t))
  BY DEF Uploaded, ServerZip
<1>8. ~Recorded(t) /\ Recorded(t)' /\ \A s \in Tests \ {t} : Recorded(s)' <=> Recorded(s)
  BY <1>4, <1>5, <1>6, <1>7 DEF Recorded, Zip
<1>9. /\ PhaseOf(t) = "executing" /\ PhaseOf(t)' = "recorded"
      /\ \A s \in Tests \ {t} : PhaseOf(s)' = PhaseOf(s)
  BY <1>1, <1>4, <1>8 DEF PhaseOf
<1>10. [s \in Tests |-> PhaseOf(s)]' =
        [[s \in Tests |-> PhaseOf(s)] EXCEPT ![t] = "recorded"]
  BY <1>9
<1>11. (client_state = "finished")' = (client_state = "finished")
  BY <1>1
<1>12. Campaign!Store(t)
  BY <1>9, <1>10, <1>11 DEF Campaign!Store
<1> QED
  BY <1>12 DEF CampaignStep, Campaign!CampaignNext

(* The empty CapCon ends the campaign. *)
LEMMA LastEnds ==
    ASSUME Known, ClientStep, HandleLastCapcon
    PROVE  CampaignStep
<1>1. /\ client_state = "preparing_ready_for_test" /\ client_state' = "finished"
      /\ UNCHANGED <<server_archive, executed>>
  BY NothingCounted DEF HandleLastCapcon, Handles, Gone, serverVars, history, timers
<1>2. \A t \in Tests : Recorded(t) /\ (Recorded(t)' <=> Recorded(t))
  BY <1>1, LastKept DEF Recorded
<1>3. \A t \in Tests : PhaseOf(t) = "recorded" /\ PhaseOf(t)' = PhaseOf(t)
  BY <1>1, <1>2 DEF PhaseOf
<1>4. [t \in Tests |-> PhaseOf(t)]' = [t \in Tests |-> PhaseOf(t)]
  BY <1>3
<1>5. ~(client_state = "finished") /\ (client_state = "finished")' = TRUE
  BY <1>1
<1>6. Campaign!End
  BY <1>3, <1>4, <1>5 DEF Campaign!End
<1> QED
  BY <1>6 DEF CampaignStep, Campaign!CampaignNext
(* What the server archives of its own side upon CLIENT_HELLO completes no *)
(* record: the upload is still to come.                                    *)
LEMMA HelloStutters ==
    ASSUME Known, conn \in Conns, OnClientHello(conn), UNCHANGED <<clientVars, history>>
    PROVE  CampaignStep
<1>1. Waiting(conn, "CLIENT_HELLO") /\ UNCHANGED <<client_state, executed>>
  BY DEF OnClientHello, Receives, clientVars, process, history
<1>2. client_state = "connecting" /\ to_server[conn] # <<>> /\ ~restart_timer
  BY <1>1, Asked DEF Known, Waiting, InCampaign, Timely
<1>3. Between
  BY <1>2 DEF Known, InCampaign, Stages
<1>4. CASE Untouched
  BY <1>1, <1>4, SamePhases DEF OnClientHello, Untouched, Recorded
<1>5. CASE \E t \in Tests : Capturing(t)
  <2>1. PICK t \in Tests : Capturing(t)
    BY <1>5
  <2>2. server_live # {} /\ last_capcon = t /\ ~server_archive[Uploaded(t)].there
    BY <1>2, <2>1, HoldingOne DEF Capturing, Unfetched, ServerRuns, ServerHas
  <2>3. \E zip : server_archive' = [server_archive EXCEPT ![ServerZip(t)] = zip]
    BY <2>2 DEF OnClientHello, ArchiveLive
  <2>4. server_archive \in [ArchiveName -> Archive]
    BY DEF Known, SystemTyped, ServerTyped, ServerTypeOK
  <2>5. \A s : Uploaded(s) # ServerZip(t) /\ (s # t => ServerZip(s) # ServerZip(t))
    BY DEF Uploaded, ServerZip
  <2>6. \A s \in Tests : Uploaded(s) \in ArchiveName /\ ServerZip(s) \in ArchiveName
    BY DEF ArchiveName, Uploaded, ServerZip, TestId
  <2>7. \A s \in Tests : Recorded(s)' <=> Recorded(s)
    BY <2>2, <2>3, <2>4, <2>5, <2>6 DEF Recorded
  <2> QED
    BY <1>1, <2>7, SamePhases
<1> QED
  BY <1>3, <1>4, <1>5 DEF Between

LEMMA HandlersCampaign ==
    ASSUME Known, NEW c \in Conns, ServerHandles(c), UNCHANGED <<clientVars, history>>
    PROVE  CampaignStep
<1>1. UNCHANGED <<client_state, executed>>
  BY DEF clientVars, process, history
<1>2. CASE OnClientHello(c) \/ OnRequestUpload(c)
  <2>1. c = conn
    BY <1>2, ReadsOwn DEF OnClientHello, OnRequestUpload, Receives
  <2> QED
    BY <1>2, <2>1, HelloStutters, UploadStores
<1>3. CASE ~OnClientHello(c) /\ ~OnRequestUpload(c)
  <2>1. UNCHANGED server_archive
    BY <1>3 DEF ServerHandles, OnRequestCapcon, OnAckCapcon, OnUnknown, OnMalformed,
                OnDisconnect, Delivered, Triggered, SendRaises
  <2> QED
    BY <1>1, <2>1, SamePhases DEF Recorded
<1> QED
  BY <1>2, <1>3

LEMMA ClientCampaign ==
    ASSUME Known, ClientStep
    PROVE  CampaignStep
<1>1. CASE HandleExecute \/ HandleLastCapcon
  BY <1>1, ExecuteStarts, LastEnds
<1>2. CASE HandleServerHello \/ HandleCapcon \/ CheckFilesForUpload \/ HandleUploadComplete
  <2>1. UNCHANGED <<server_archive, executed>>
    BY <1>2, NothingCounted
       DEF HandleServerHello, HandleCapcon, CheckFilesForUpload, HandleUploadComplete, timers,
           serverVars, history
  <2>2. client_state # "finished" /\ client_state' # "finished"
    BY <1>2 DEF HandleServerHello, HandleCapcon, CheckFilesForUpload, HandleUploadComplete,
                Handles, UploadNext, Gone
  <2> QED
    BY <2>1, <2>2, SamePhases DEF Recorded
<1> QED
  BY <1>1, <1>2, ClientCases

LEMMA KnownCampaign == Known /\ StepOfSystem => CampaignStep
<1> SUFFICES ASSUME Known, StepOfSystem PROVE CampaignStep
  OBVIOUS
<1>1. CASE UNCHANGED systemVars
  BY <1>1, SamePhases DEF systemVars, serverVars, clientVars, process, Recorded
<1>2. CASE ServerPayloads \/ ClientPayloads
  <2>1. UNCHANGED <<server_archive, executed, client_state>>
    BY <1>2 DEF ServerPayloads, ServerRunsPayloads, ServerMexec, ServerPayloadEnds, clientVars,
                history, ClientPayloads, ClientRunsPayloads, ClientMexec, ClientPayloadEnds,
                serverVars, process
  <2> QED
    BY <2>1, SamePhases DEF Recorded
<1>3. CASE Restart \/ OperatorStart \/ \E c \in Conns : Connect(c)
  <2>1. UNCHANGED <<server_archive, executed>>
    BY <1>3 DEF Restart, OperatorStart, Connect, Accept, serverVars, history
  <2>2. client_state # "finished" /\ client_state' # "finished"
    BY <1>3 DEF Restart, OperatorStart, StartsByTimer, StartsByOperator, ClientStarts,
                Disconnected, GivesUp, Gone, Connect, Connects
  <2> QED
    BY <2>1, <2>2, SamePhases DEF Recorded
<1> QED
  BY <1>1, <1>2, <1>3, OnlyPlainSteps, ClientCampaign, HandlersCampaign

(* When nothing fails, client, server and systemd together carry out the   *)
(* campaign that CaptureCampaign promises, up to its liveness: every       *)
(* CapCon is executed once, one at a time, the next one only when both     *)
(* records of the last one are on the server, and the end is announced     *)
(* when that is so for all.                                                *)
THEOREM CarriesOutCampaign == Undisturbed /\ SystemSpec => Campaign!CampaignSafety
<1>1. Undisturbed /\ SystemInit => Campaign!CampaignInit
  <2> SUFFICES ASSUME SystemInit PROVE Campaign!CampaignInit
    OBVIOUS
  <2>1. \A t \in Tests : ~Recorded(t) /\ executed[t] = 0
    BY DEF SystemInit, ServerInit, Recorded, ArchiveName, Uploaded, TestId, NoZip
  <2>2. \A t \in Tests : PhaseOf(t) = "waiting"
    BY <2>1 DEF PhaseOf
  <2>3. ~(client_state = "finished")
    BY DEF SystemInit, ClientInit
  <2>4. [t \in Tests |-> PhaseOf(t)] = [t \in Tests |-> "waiting"]
    BY <2>2
  <2> QED
    BY <2>3, <2>4 DEF Campaign!CampaignInit
<1>2. Known /\ StepOfSystem => CampaignStep
  BY KnownCampaign
<1> QED
  BY <1>1, <1>2, KnownInvariant, KnownStep, PTL
     DEF SystemSpec, StepOfSystem, CampaignStep, Campaign!CampaignSafety
=============================================================================
