# A TLA+ model of MOTRA-Capture

MOTRA-Capture runs measurement campaigns on a testbed. A *server* holds a set of
capture configurations (*CapCons*). A *client* on the measured machine connects,
uploads what it has, asks for the next CapCon, acknowledges it, and on the trigger
`EXECUTE_CAPCON` hands the CapCon's payloads to systemd timers and **exits**: no
client process runs during a measurement. A last timer starts a new client after the
CapCon's duration; it archives the capture, uploads it and asks for the next one. The
server runs the payloads meant for its side in the same way. This directory holds the
TLA+ modules of that protocol, the TLC configurations that check them and the proofs
that TLAPS checks.

## 1. The system

| component | state | operations | interacts with |
|---|---|---|---|
| server endpoint (`server/server.py`, `configuration.py`, `file_upload.py`, `lifespan.py`) | `MotraServerConfig` (test queue, capture jobs, prepared units, last CapCon), one coroutine per websocket | `CLIENT_HELLO`, `REQUEST_UPLOAD`, `REQUEST_CAPCON`, `ACK_CAPCON`, anything else; start and stop | clients by message, its workspaces, systemd, journal |
| client state machine (`client/measurement_client.py`, `cli/client_cli.py`) | machine state, pending files, current CapCon, prepared units; three workspaces: live, staging, archive | connect, upload, store a CapCon, acknowledge, execute; exits and exceptions | the server by message, systemd, journal |
| client connection (`client/client_connection.py`) | websocket, retry counter, waiting time | connect, send, receive, disconnect, backoff | client, server |
| files (`common/archive.py`, `capcon.py`, `util.py`) | zips, `capcon.json`, ID file, `{payload_id}.json` | archive, clean, write, load, move | both roles |
| scheduling (`common/schedule.py`, `systemd.py`, `mexec/mexec.py`) | transient units | arm a timer, run a payload, read a journal | both roles |
| protocol (`common/capcon_protocol.py`, the two `requests.py`) | none | build and validate messages | both roles |
| generators (`capcon/`) | none | write CapCon files, compute durations | feed the server's test workspace |
| workspace setup (`workspace/`, `cli/workspace_cli.py`) | `{entity}.config`, `{entity}.env`, directories, four unit files | `workspace client`, `workspace server`, `workspace clean`; find, open and validate a workspace | the operator's prompts, `sudo`, systemd, and the services started from the units |
| entry points (`cli/client_cli.py`, `cli/server_cli.py`) | none | open the workspace, start the client or the server | workspaces, client, server |
| logging, debug plot | none | write logs, draw the state machine | |

What is hard in it:

* **Interleaving.** The endpoint's coroutines share one `MotraServerConfig` and one
  live workspace; a coroutine loses control at each `await`. Two handlers go on after
  their reply has been sent (`pop_test` after `CAPCON`, starting units after
  `EXECUTE_CAPCON`), and the handler of a dead connection may still be at work when the
  next client connects.
* **Crashes.** A client's life ends in the middle of the protocol by design; its
  successor only has the files. A kill between two file operations leaves half a
  workspace. The server keeps its queue in memory only.
* **Loss.** A broken connection loses messages, and there are no retransmissions: the
  next process starts the protocol from the beginning.
* **Limits.** An upload is one websocket frame; a frame over the server's limit closes
  the socket before the endpoint sees it.
* **Bad input and files.** A test of the queue need not parse, and a file of the live
  workspace need not be readable when it is archived.
* **Setup.** Setting up a workspace is a sequence of prompts, file writes and `sudo`
  commands, any of which may be the last; services may start from what is half done.
* **Time.** Who is first is decided by timers: the client comes back after "duration",
  whether its payloads have ended or not.

What makes each part correct is listed with the modules below. `PROJECT.json` lists the
hazards at the lines where they bite, with the properties that cover them.

## 2. The modules

| module | models | extends |
|---|---|---|
| `MotraWire` | CapCons, payloads, files, zips, messages, websockets, transient units | |
| `MotraServer` | the server, and its specification `ServerSpec` among arbitrary peers | `MotraWire` |
| `MotraWire_proofs` | facts about files and messages that both proofs use | `MotraWire`, `TLAPS` |
| `MotraServer_proofs` | theorems about `ServerSpec` | `MotraServer`, `MotraWire_proofs` |
| `MotraClient` | the client, and its specification `ClientSpec` before an arbitrary server | `MotraWire` |
| `MotraClient_proofs` | theorems about `ClientSpec` | `MotraClient`, `MotraWire_proofs` |
| `CaptureCampaign` | the abstract specification of a campaign | |
| `CaptureSystem` | client, server and systemd together, with faults; the refinement | both |
| `CaptureSystem_proofs` | theorems about `SystemSpec` | `CaptureSystem`, `MotraServer_proofs`, `MotraClient_proofs` |
| `CaptureCampaign_proofs` | theorems about `SystemSpec` when nothing fails, with the refinement of `CaptureCampaign` | `CaptureSystem_proofs` |
| `CapconGenerators` | the scripts that write the CapCons of a campaign | |
| `CapconGenerators_proofs` | theorems about `GeneratorSpec` | `CapconGenerators`, `TLAPS` |
| `Workspaces` | setting up, opening, using and cleaning workspaces | |
| `Workspaces_proofs` | theorems about its `Spec` | `Workspaces`, `TLAPS` |
| `MCMotraServer`, `MCMotraClient`, `MCCaptureSystem`, `MCCapconGenerators`, `MCWorkspaces` | instances for TLC | |

### Data

A CapCon is a member of `Tests`, its payloads are given by `ClientJobs` and
`ServerJobs`. Payload ids are distinct between CapCons (`OwnPayloads`) because
`format_payloadIds_with_digest` ends them in a digest of the CapConID; CapConIDs are
distinct because `scan_tests` exits on duplicates. Files are kinds (`capcon.json`, ID
file, payload configuration, log, output); a zip is a set of files. `create_archive` logs a
file that it cannot add and goes on (`archive.py:62-67`), and `clean_workspace` removes it
all the same: the outputs of the payloads in `Unreadable` (written under `sudo`, say) are not
`Archivable` and get lost. Commands, time stamps, hashes and hardware ids are left out.

### The server

| action | code |
|---|---|
| `Accept`, `OnDisconnect` | accept, `WebSocketDisconnect` |
| `OnClientHello` | collect the logs of all jobs, archive under `{last_capcon}_server`, clean, forget the prepared units |
| `OnRequestUpload`, `OnRequestUploadUnsaved` | `handle_file_payload`, which refuses an existing file and swallows errors; `UPLOAD_COMPLETE` in any case |
| `OnRequestCapcon` | `SendNothing` (queue empty), `SendPending`, `RefusePending` (`capcon.json` is there: an exception ends the handler after `last_capcon` was set) |
| `OnRequestCapconUnparsed` | `parse_CAPCON` raises, or returns `None` as the file is gone: an exception ends the handler, and the test stays at the head of the queue |
| `Delivered`, `SendRaises` | the await of the reply returns and `pop_test` runs, or it raises and the rest is skipped |
| `OnAckCapcon`, `Triggered` | `EXECUTE_CAPCON`, then the units, then close |
| `OnMalformed`, `OnUnknown` | validation failure, unknown type |
| `ServerMexec`, `ServerPayloadEnds` | systemd starts `mexec`, the payload writes its output where it was started |
| `ServerStops`, `ServerStarts` | the process ends between two awaits, and comes back; memory is lost, files and timers stay |
| `ServerKilled` | a kill inside a handler: `ServerStopsWhileSaving` (an empty upload), `ServerKilledArchiving` (some logs, or a part of the zip), `ServerKilledCleaning` (some files unlinked), `ServerKilledStoring` (some files of a CapCon), `ServerKilledTriggering` (some units started) |

What one handler does between two awaits is one action, as only an await lets another
coroutine run. `ServerSpec` puts the server among peers that connect, send any request
in any order, and hang up at any time.

### The client

`client_state` is the state of the state machine, "off" without a process, "finished"
after `exit(0)`.

| action | code |
|---|---|
| `StartsByTimer`, `StartsByOperator` | a new process, for the operator only while the timer does not run (an assumption, see below); entering "disconnected" calls `backoff()`, which counts a retry and lengthens the next wait (`retries`, `retry_time`), or gives up |
| `Connects`, `ConnectFails` | `issue_connection_request`; back to "disconnected" without a server |
| `HandleServerHello` | `wait_for_server_hello` |
| `CheckFilesForUpload`, `CheckFilesRaises` | archive and clean if `capcon.json` is there, then `UploadNext`; a CapCon without payload list raises |
| `HandleUploadComplete` | move the file the reply names from staging to archive, then `UploadNext` |
| `HandleCapcon`, `HandleLastCapcon`, `HandleCapconRaises` | store and acknowledge; disconnect and exit; existing files |
| `HandleExecute`, `HandleExecuteMismatch` | start the client's own timer first, then the payloads; exit |
| `BadReply`, `ConnectionLost` | `parse_raw_data` |
| `ClientKilled`, `KilledArchiving`, `KilledCleaning`, `KilledStoring`, `KilledWriting`, `KilledExecuting` | the process is killed between two steps, or with part of a handler done; `KilledWriting` leaves a `capcon.json` written in part (`TornFile`) |

A handler of the state machine runs from one received message to the next `receive`;
what it does in between is seen by nobody else but a kill, so it is one action, and the
`Killed...` actions are its prefixes. `ClientSpec` puts the client before a server that
sends any reply or hangs up at any time.

`StartsByOperator` has a guard that no line of `client_cli.py` has: nobody starts a client by
hand while its timer runs, which is while a capture is under way. It is an assumption on the
operator. A client started into a capture would archive and remove the files of the payloads
that run; `RestartFindsCapture` and `CapturesApart` rest on the assumption, and so does the
part of `NothingLeftBehind` about the live workspace.

### The campaign

`CaptureSystem` joins both. A connection is made by both ends (`Connect`). `faults`
counts the faults of each kind and `executed` how often the client has obeyed a trigger;
both are history variables. `CaptureOver` is the one place where time enters: the timer
that restarts the client fires after the payloads that keep their limits have ended, on
both machines, and after the server has started its units. It stands for "duration"
being longer than offset plus limits of each payload, which `CapconGenerators` checks of
every generated CapCon; payloads in `Overruns` are exempt.

`FrameRefused` is the other step that no single side has: the server's websocket library
refuses a frame over its limit (`server.py:209` sets none, so it is uvicorn's default) and
closes the socket. Which CapCons have such an archive, `oversized`, is chosen at the
beginning among `MayExceed`. In the same way `unparsable`, chosen among `MayNotParse`, are the
tests whose file `parse_CAPCON` refuses: `scan_tests` asks for JSON with a CapConID, no more
(`Unparsable`). The kinds of faults are kills of the client
(`ClientCrashes`), a kill in the middle of writing `capcon.json` (`TornFault`), a broken
connection that may lose what is under way, a stop or kill of the server at any point, and
an upload that cannot be written.

`CaptureCampaign` is what an operator expects: every CapCon is executed once, one at a
time, recorded on both sides before the next one starts, until all are recorded.

### The generators

A record per script (`baseline_perf`, `bruteforce`, ...) holds what differs between
them: shared payloads, dynamic payloads, repetitions, which texts it formats, durations
and how often the testbed is reset. `NextCapCon` is one round of the loop they all have,
`WriteFiles` the loop at the end, into a folder that is empty when the script starts.
Of a payload its type, targets, offset and limits are kept, in tenths of a second; a text
that still has a field to be formatted is a `Template`. Parsing a time span is taken by
what it does to the texts that occur, whole seconds and milliseconds.

### Workspaces

A *site* is an entity in a workspace root: its `{entity}.config`, and a storage with the
environment file and directories. `workspace client` and `workspace server` are the same
sequence of steps: `BeginSetup` validates what is there and touches the environment file,
`Confirms` and `ConfirmsOverride` are the prompts, `Dumps`, `DumpsEnv`,
`CreatesDirectories`, `InstallsUnit`, `InstallsMexecUnit`, `Reloads` the writes. `Aborts`
is a "no" at a prompt, `CutShort` a kill, a refused `sudo` or a full disk in the middle of
any step. `Cleans` has the three forms of `workspace clean`; `--all` may be killed midway.
`ServiceStarts` is what systemd starts from the installed units: it reads the environment
file, finds the workspace and validates it, and for the server reads every test.
`RootFor`, `Loadable`, `Accepted`, `Initialized` and `CanOpen` are the functions of `workspace.py`.
`Insists` is an operator who sets up one site again and again, and removes everything
where that is refused; he gives one command at a time.

## 3. What is checked

| run | configuration | properties |
|---|---|---|
| `server_open` | 2 CapCons, 1 payload, 2 connections, arbitrary peers, restarts | `LiveOfOneCapcon`, `JobsBacked`, `NothingDropped`, `UploadsKept`, `StartsOnlyPrepared` |
| `client_open` | 2 CapCons, one of them without a payload list, 1 connection, kills | `AcknowledgedIsStored`, `RestartFindsCapture`, `ArchivesNamedByCapcon`, `RemovedIsStaged` |
| `campaign` | 3 CapCons, 5 payloads, no faults, one payload overruns, one output cannot be read | `RecordsExact`, `AcknowledgedIsSaved`, `TriggersTogether`, `CampaignKept` (refinement, with liveness) |
| `two_faults` | 2 CapCons, one maybe oversized, up to 2 faults (kill, torn `capcon.json`, broken connection, server stop or kill) | `ExecutedOncePerServer`, `NothingLeftBehind`, `RepliesFit`, `NoOrphanJobs`, `StagedIsKeptUnlessKilled`, `CapturesApart` |
| `one_fault` | 2 CapCons, one maybe oversized or unparsable, 2 payloads, one of which overruns, 1 fault of any kind | `CampaignEnds`, `OutputsSurviveRestart` |
| `generators` | all seven scripts, from start to end | `PayloadsEndFirst`, `CaptureOutlastsAttacks`, `ResetsRecur`, `NoNameTaken` |
| `workspaces` | 2 roots, 2 clients and the server, 3 commands besides those of `Insists` | `DirectoriesExist`, `InstalledIsWhole`, `ServicesHaveDirectories`, `SetupSucceeds` |

and the type invariants with them. What they show:

* **The server alone** keeps its files in order whatever peers do: `capcon.json` works
  as a lock between requesters, and every job or unit it remembers has its
  configuration on disk.
* **The client alone** never loses a file of a capture to a kill, a hang-up or an
  absurd reply: a file that can be read leaves the live workspace only into a zip, and a zip
  bears the name of the `capcon.json` in it. The process that the timer brings back finds the
  CapCon of its capture.
* **Without faults** the system implements `CaptureCampaign`, including that it ends,
  and the two records of each CapCon hold exactly what belongs to it and can be read. If a payload
  overruns, its output may be missing and turn up in a later record; nothing else
  changes.
* **With faults** captures may be lost or recorded although they were not executed (see
  below), but a server process never has a capture executed twice, the client always
  gets the kind of reply it waits for, captures do not overlap on the client, and no CapCon
  is stored next to what a killed server left of another. When the client asks for the next
  CapCon, no archive waits in its staging area and no `capcon.json` lies in its live workspace;
  if it was never killed, nothing lies there at all but outputs of payloads that overrun. (A
  kill inside `clean_workspace` leaves files that go into the next archive, behaviour 7 below.)
* **After one fault of any of the five kinds** the campaign ends, or stops for good at
  something that only a person can remove (`Blocked`): a `capcon.json` cut short by a kill, an
  archive that no frame can hold, or a test that does not parse at the head of the queue. It
  stops nowhere else, and nobody waits for ever for a reply. One stop or kill of the server, at
  any point of its work, does not lose an output that its payloads have written: it is in the
  live workspace or in an archive from then on. `OutputsSurviveRestart` promises that of
  outputs that can be read and payloads that keep to their limits, while the client is not
  killed, keeps its connection and gets past its uploads and CapCons; a client that says
  `CLIENT_HELLO` twice in a row can make the server replace a record (behaviours 3 and 8), and
  a second stop of the server replaces `_server.zip` (behaviour 6).
* **Workspaces**: no sequence of aborted or interrupted commands leaves a unit without its
  directories. As long as nothing was interrupted or removed with `--all`, an installation keeps
  both its units, a whole configuration and its environment file; what the unit starts can open
  it if it bears the name that the unit asks for, its role; and a service only works without its
  directories while the setup that makes them is between its configuration and its directories
  (`ServicesHaveDirectories`). Whatever happened, an operator
  who insists gets the target installed, because `clean --all` does not validate what it
  removes.
* **The generators** leave every payload time to end before the client comes back, on
  both machines, as long as one call of `systemd-run` takes no longer than 0.4 s
  (`ArmDelay`): the client arms its own timer first and the payloads one after the other.
  At 0.5 s the last log payload of `nmap.py` no longer ends in time. Where a script computes
  the runtime of the network capture ("this will just round up the runtime for the tcpdump
  process": `nmap.py`, `bruteforce.py`, `ettercap.py`, `capcontrol.py`), the capture outlasts
  the attacks of the server although these are armed later, one call of `systemd-run` per unit
  in between. `flood.py` and `opc.py` give capture and attack the same offset and limits: there
  the capture is stopped first (see below), and `CaptureOutlastsAttacks` does not speak of them.

Of these, all invariants and all action properties but `OutputsSurviveRestart` are also
proved (section 4).

### Disagreements with the documentation

Each is a run in which TLC finds the property violated.

| run | what happens |
|---|---|
| `upload_lost` | an upload that could not be written is acknowledged like any other; the client files the archive away and never offers it again |
| `test_lost` | the server pops a CapCon when it is sent; if the client dies before it executes it, nobody will |
| `staged_lost` | a client killed in the middle of cleaning leaves `capcon.json` behind; its successor archives the remains over the complete archive |
| `no_payload` | a CapCon whose payload is `null` is executed, but no later client process gets past archiving it |
| `logs_untaken` | five of seven scripts leave the offset `{end_of_test_logs}s` unformatted; systemd refuses that log payload |

Smaller ones, without a run: `opc.py:153` says "every 20 iterations add a config reset"
and resets after every 5; in `bruteforce.py` the attack on postgres starts 0.2 s before
the network capture; in `flood.py:26-27,55-56` and `opc.py:55-56,106-107` the network capture
has the offset and limits of the attack and is armed before it, so it is stopped before it; the
docstring of `create_archive`, "Archives an entire directory" (`archive.py:18`), leaves out that
a file which cannot be read is only logged, and then removed by `clean_workspace`; the server
takes CapCons in the order of `glob`, so a reset need
not follow the capture it was generated after.

In workspaces: `motra-client@` runs `motra client` without `--client-id`
(`workspace_cli.py:158`), so the unit of a client with a name of its own starts the entity
"client" (`Opens`), which need not be there; a service may start between the configuration
(`workspace_cli.py:144`) and the directories (line 153) of a setup; a named client is set up
once and then refused, because the type of its
configuration, "client", is compared with its name (`workspace.py:157`), until
`clean --all`; a client named "server" takes the place of `server.config`; all clients
share one pair of units, and the last one set up owns them. `clean` without options is
commented "only remove runtime configuration" (`workspace_cli.py:398`) and removes tests
and archives too. The docstring of `get_initialized_default_workspace` names
`XDG_RUNTIME_DIR` and `/run/user`, which no code looks at. After `clean --all` and an
aborted setup the environment file is there and empty: the client's unit then opens the
workspace in the home directory. `retry_limit` is prompted for as "No of times the client
should retry"; the first attempt counts as one, so with 0 the client never tries.

More behaviours under faults, found with the same modules and not counted as
disagreements because no document speaks of them.

1. A handler that is still delivering `CAPCON` for a dead client pops the queue late: the
   next process first uploads the hollow archive of the capture it never executed, is then
   sent the same CapCon again, executes it, and its real archive is refused as existing and
   yet acknowledged.
2. A late `CLIENT_HELLO` of a dead client can clean the server's workspace between the next
   client's `CAPCON` and its trigger: the client then runs its half of a capture alone.
3. A late `REQUEST_CAPCON` of a dead client is refused, as `capcon.json` is there, but has
   set `last_capcon` before (`server.py:121`): the server archives its side of the running
   capture under the name of the next one, and later overwrites it.
4. A `capcon.json` cut short by a kill of the client does not validate and is not
   overwritten: no later process gets past `connected.enter`, as in `no_payload`.
5. A client with an oversized archive is disconnected by the server at every attempt, and
   asks for no further CapCon.
6. A server that is stopped twice in captures archives both under `_server.zip`.
7. A client killed inside `clean_workspace` after `capcon.json` is gone leaves other files of
   the capture. They are in its archive, but the next process neither removes nor archives them
   (it looks for `capcon.json`, `measurement_client.py:132`), and they go into the archive of the
   next capture, although `clean_workspace` "destroys all files found in the source folder to
   prepare for the next test run" (`archive.py:116-118`).
8. An output that is written between two `CLIENT_HELLO`s with no `REQUEST_CAPCON` in between (a
   payload that overruns, a connection that breaks) makes the second one replace the server's
   record: `last_capcon` is not reset.
9. A test that does not parse stops the campaign: the endpoint raises at the same head of the
   queue for every client process. If its file is gone instead, the same happens until the
   server is started again, which reads the directory anew; `unparsable` is a fixed set and
   stands for the first kind.

### Bounds

Two connections are enough for "the handler of a dead client beside that of a live
one"; two CapCons for mixing one with the next; one payload on each side, and one on
both, for every combination of targets. `server_open` explores until a second zip of
the server's own exists, `client_open` until a second zip of a capture exists
(constraints named in the `MC` modules). `RetryLimit` is 1 or 2: only whether it is
reached matters, and `RetryTime` only gives the waiting times their first value. `executed` counts to `MostExecutions`, more than the faults allow.
In `one_fault` t2 may be oversized, may not parse, and has the payload
that overruns, so that each meets each fault. The view of `two_faults` leaves out the server's
archives, which enable nothing.
`workspaces` has two roots, for units that move from one workspace to another, a client
named "client" and one with another name, `MaxCommands` = 3 commands (one to spoil an
installation, two to meet what it left) and `MaxFiles` = 1 file below the storages, as
files only matter by being there. The generators have no
bounds: their constants are those of the scripts. Symmetry is used between connections, in runs without liveness. The views of
`server_open` and `client_open` leave out the queue that nobody in that specification
reads.

Every property of a passing run is accompanied by a variation of one definition (named
`Bad...`, next to the definition it varies) under which TLC finds it violated:
overriding an existing `capcon.json`, writing no payload files, a periodic instead of a
one-shot timer, copying instead of moving, and so on.

### Fairness

`SystemFairness` assumes weak fairness of: each handler of the server (the event loop
serves every ready coroutine), the client's machine, the payloads (systemd ends a unit
at `RuntimeMaxSec`), the timer that restarts the client, connecting and failing to
connect. Two assumptions are about people: somebody starts a client that died
(`OperatorStart`; the client's unit has no `Restart=`, and a client that gave up does not come
back by itself), and a server that is down
(`ServerComesUp`). Without the first there is no liveness, since a killed client with no
timer never returns. Faults are not fair: they may happen, at most `MaxFaults` times.

`Workspaces` assumes that the operator answers the prompts of a setup and that its commands
go on (`SetupProceeds`), and that he sets up the target again as long as it is not
installed (`Insists`). Nothing is assumed of the services.

## 4. What is proved

For all values of the constants that satisfy the named assumptions (`WireAssumption`,
`OwnPayloads`, and `PeerAssumption`, `ClientAssumption`, `SystemAssumption`,
`GeneratorAssumption` or `WorkspacesAssumption`): any number of connections, CapCons, payloads, faults, roots and
clients. The server is among peers that send any sequence of requests, and restarts at any
time; the client is before a server that sends any replies, and is killed at any point; the
composed system has any faults that its constants allow, except in the theorems of
`CaptureCampaign_proofs`, which are about a campaign in which nothing fails
(`Undisturbed`).

| theorem | says |
|---|---|
| `ServerTypes` | `[]ServerTypeOK` (with the types of the wire) |
| `OneCapconAtATime` | `[]LiveOfOneCapcon` |
| `JobsAreBacked` | `[]JobsBacked` |
| `NothingIsDropped` | `NothingDropped` |
| `UploadsAreKept` | `UploadsKept` |
| `OnlyPreparedStart` | `StartsOnlyPrepared` |
| `ClientTypes` | `[]ClientTypeOK` (with the types of the wire) |
| `AcknowledgedStaysStored` | `[]AcknowledgedIsStored` |
| `RestartsWithCapture` | `[]RestartFindsCapture` |
| `ArchivesKeepTheirName` | `[]ArchivesNamedByCapcon` |
| `NothingRemovedUnstaged` | `RemovedIsStaged` |
| `SystemTypes` | `[]SystemTypeOK` |
| `RepliesAlwaysFit` | `[]RepliesFit` |
| `NothingStaysBehind` | `[]NothingLeftBehind` |
| `CapturesRunOnce` | `[]ExecutedOncePerServer` |
| `NoOrphansMeetCapcon` | `[]NoOrphanJobs` |
| `CapturesStayApart` | `CapturesApart` |
| `StagedStaysUnlessKilled` | `StagedIsKeptUnlessKilled` |
| `RecordsAreExact` | `Undisturbed => []RecordsExact` |
| `AcknowledgedAreSaved` | `Undisturbed => []AcknowledgedIsSaved` |
| `TriggersStayTogether` | `Undisturbed => TriggersTogether` |
| `CompletesWhenFinished` | `Undisturbed => []CompleteWhenFinished` (which `test_lost` refutes with faults) |
| `CarriesOutCampaign` | `Undisturbed => Campaign!CampaignSafety`: the system implements the steps of `CaptureCampaign` |
| `GeneratorTypes` | `[]GeneratorTypeOK` |
| `CapturesOutlastAttacks` | `ArmDelay <= 6 => []CaptureOutlastsAttacks` |
| `PayloadsAreOverFirst` | `ArmDelay <= 4 => []PayloadsEndFirst` |
| `ResetsAlwaysRecur` | `[]ResetsRecur` |
| `NamesAreFree` | `[]NoNameTaken` |
| `WorkspacesTypes` | `[]WorkspacesTypeOK` |
| `DirectoriesAreKept` | `[]DirectoriesExist` |
| `InstallationsStayWhole` | `[]InstalledIsWhole` |
| `DirectoriesAwaitServices` | `[]ServicesHaveDirectories` |

The argument for the server. `LiveOfOneCapcon` is nearly inductive: `REQUEST_CAPCON` stores nothing
next to a `capcon.json`, and with no `capcon.json` there is, by the invariant, no ID file
and no payload file either, so what it stores is alone. `JobsBacked` needs more: that a
remembered unit is a server payload of the stored CapCon. The strengthening, `Prepared`
in the module, says both; it is inductive because jobs and units are only added together
with their files, files are only removed by `CLIENT_HELLO`, and the same step forgets the
jobs and the units. Here it matters that cleaning and forgetting happen without an await
in between. `StartsOnlyPrepared` and `NothingDropped` follow step by step from it.

The argument for the client. Types need `Connected`: a process that talks has a connection,
one that waits for the trigger a CapCon. `AcknowledgedIsStored` is inductive because only
`HandleCapcon` enters that state, and `LiveKept` says that nothing but cleaning removes
files. `RestartFindsCapture` is strengthened to `Awaited`: while the timer runs there is
no process, so no cleaning either. `ArchivesNamedByCapcon` is strengthened to `Named`: while
the client uploads there is no `capcon.json`, so an archive that is moved has its own
inside. `RemovedIsStaged` follows step by step.

The argument for the composed system. Both sides' type proofs are reused; the rest is six
invariants, each with a lemma per step.

* `Dialogue` says what is under way between a client process and its handler in each state
  of the client: nothing, the one request it has sent, or the one reply to it, with the
  right CapConID, and how far the handler is. It holds whatever the handlers of dead clients
  do, because they write to other sockets, and through every fault, because faults only
  shorten queues or end the process. `RepliesFit` follows, and the part of
  `NothingLeftBehind` about `capcon.json` and the staging area.
* `Once` counts. A capture that a client *holds* (it has the reply with it, or waits for the
  trigger) has been executed fewer times than the server has been started, or the queue has
  let go of it, which includes the moment when the client's handler is still to pop it.
  `ExecutedOncePerServer` follows.
* `Orphans`: payload configurations without `capcon.json` are what only a kill leaves on the
  server. It closes every socket, and no `REQUEST_CAPCON` can be under way before a
  `CLIENT_HELLO` has removed them. `NoOrphanJobs` follows.
* `Apart`: without its timer no payload of the client that keeps its limits is armed or
  running. `CapturesApart` follows, and it needs that the timer is started first.
* `Swept`: as long as the client was not killed, its live workspace without `capcon.json` holds
  nothing but outputs of payloads that overrun. A payload that keeps to its limits writes only
  while the timer runs (`Apart`), and then `capcon.json` is there (`Awaited`); a process removes
  it only together with everything else. The rest of `NothingLeftBehind` follows.
* `Fresh`: as long as the client was not killed, a CapCon in its live workspace means an
  empty staging area, so `create_archive` replaces nothing.
  `StagedIsKeptUnlessKilled` follows.

The argument for the campaign. `Undisturbed` says that there are no faults, no oversized
archive, no test that does not parse and no CapCon without a payload list. Each part is necessary:
TLC refutes `RecordsExact` with any single kind of fault, with an oversized archive and with a
test that does not parse; and with a CapCon
without payload list as the last one, the client that cannot archive it connects again and
again, and an output that an overrunning payload still writes makes the server overwrite its
full record. Payloads may overrun, which is the normal case of a capture that does not behave.
The inductive invariant is `Known`: `SystemTyped`, `Dialogue`, `Once` and `Apart` from above
with `InCampaign`, whose parts are

* `NothingFails`: the server is up and has never been restarted, no archive is oversized and
  every test parses;
* `OneSpeaks`: no connection but the client's carries anything;
* `Linked`: that connection is open until the server hangs up after the trigger, and a
  question or its answer is under way;
* `Timely`: the timer runs only while there is no client process, units are started only
  while it runs or the trigger is being read, and a handler that has yet to pop the queue
  pops what the client holds;
* `Supplied`: each CapCon is in the queue, held by the client, or executed;
* `Archived`: the archives are exact records, and only of CapCons that were executed;
* `Stages`: what both live workspaces, the staging area and the server's memory hold in each
  stage of a capture: `Between` two captures, the client `Greets`, `HandsOver` an archive,
  `Fetches` the next CapCon, has it and `Acknowledges` it, or both sides are `Capturing`.

There is a lemma for each step and each part. The properties follow from the stage in which
they bite, `TriggersTogether` from the step out of `Acknowledges`. For the refinement,
`HandleExecute` is the abstract `Start`, the `OnRequestUpload` that saves the upload is
`Store`, `HandleLastCapcon` is `End`, and every other step stutters.

The argument for the generators. `PayloadsAreOverFirst` is arithmetic over the scripts
(`Load`, and what each adds), with one difficulty: a payload of the client starts late by
`ArmDelay` times the number of payloads armed before it. `ArmedInTime` bounds that number: a
role has armed at most i of the first i payloads, and one fewer where a payload before is not
its own, which `nmap.py` needs. The hypothesis is exact: TLC refutes the property at
`ArmDelay = 5`. `CapturesOutlastAttacks` is arithmetic too: between the network capture and an
attack the server arms at most three units, the attack included (`ThreeAtMost`; six in
`capcontrol.py`, where the capture has time to spare), and the computed runtime leaves 1.8 s
for them; TLC refutes it at `ArmDelay = 7`. The other two need history: `SinceReset`, that there have been as many captures
since the last reset as `id_count` is past a multiple of the period, and `Numbered`, that
every CapCon so far has a number below `id_count` and no two have the same CapConID. Both are
shown along the loop that the scripts share (lemma `Round`).

The argument for workspaces. `Written` says what a setup under way has written when it is at
each of its steps; `DirectoriesExist` is inductive with it. `InstalledIsWhole` is split into
`Whole`, inductive too, and `Named`: unless a client is named "server", only the site of the
server has a configuration of its type, so what a unit opens under the name of its role is of
that role. `ServicesHaveDirectories` is strengthened to `Built` and `Served`: a configuration,
whether a service uses it or not, comes with its directories or with a setup that is about to
make them.

Only model-checked:

* liveness: `CampaignEnds`, `SetupSucceeds`, and the part of `CampaignKept` that says the
  campaign goes on (its fairness). Liveness under fairness and `ENABLED` are beyond the proof
  system;
* `OutputsSurviveRestart`, which needs the whole history of the two workspaces between two
  `CLIENT_HELLO`s.

## 5. Not modelled, and why

* In the protocol, offsets, limits and how long a wait takes: abstracted to orders
  (`CaptureOver`).
* Errors of single file operations other than a failed upload and a file that `create_archive`
  cannot read, such as a subdirectory in a workspace that `clean_workspace` cannot unlink, or a
  full disk while a zip is written. File writes other than `capcon.json`,
  uploads, zips and the two files of a setup are taken to be done or not done.
* A `workspace clean` that is killed midway, other than `--all`; workspace roots inside one
  another; two setups at once. `env`, `tree` and dry runs change nothing.
* `format_systemd_timespan`, `get_max_runtime_limit`, `schedule_capture_process` and
  `schedule_client_process`: no part of the program calls them.
* The order of the queue, which is that of `glob`: the model allows every order.
* Logging, option parsing and the debug plot carry no protocol state.

## 6. What is left

1. A weaker abstract campaign that holds with faults: each CapCon at most once per server
   process.
2. A proof of `OutputsSurviveRestart`.
3. `AcknowledgedIsSaved` where only `capcon.json` may be torn: TLC finds no violation there,
   but `Known` rests on `NothingFails`.
