----------------------------- MODULE MotraWire -----------------------------
(***************************************************************************)
(* What the measurement client and the measurement server share: capture   *)
(* configurations (CapCons) and their payloads, the files of a live        *)
(* workspace, zip archives, the messages of the CapCon protocol, the       *)
(* websocket they travel on, and the transient systemd units that run a    *)
(* payload on either machine.                                              *)
(*                                                                         *)
(* A CapCon is a member of Tests; what a payload does, its command line    *)
(* and its time spans are abstracted away.  A file is its kind and what it *)
(* belongs to, an archive is the set of the files zipped into it.          *)
(***************************************************************************)
EXTENDS Naturals, Sequences, FiniteSets

CONSTANTS
    Tests,        \* the CapCons in the server's test workspace
    NoTest,       \* the CapConID "" of the reply to an exhausted campaign
    Payloads,     \* payload ids
    ClientJobs,   \* CapCon -> its payloads with the client among their targets
    ServerJobs,   \* CapCon -> its payloads with "server" among their targets
    Unreadable,   \* payloads whose output the archiving process cannot read
    Conns         \* websockets that may exist at the same time

(* CapConIDs are distinct (configuration.py refuses duplicates at startup) *)
(* and never empty.                                                        *)
ASSUME WireAssumption ==
    /\ IsFiniteSet(Tests)
    /\ NoTest \notin Tests
    /\ ClientJobs \in [Tests -> SUBSET Payloads]
    /\ ServerJobs \in [Tests -> SUBSET Payloads]
    /\ Unreadable \subseteq Payloads

Jobs(t) == ClientJobs[t] \cup ServerJobs[t]

(* A payload id ends in a digest of its CapConID, so no two CapCons share  *)
(* one.                                                                    *)
ASSUME OwnPayloads ==
    \A s, t \in Tests : s # t => Jobs(s) \cap Jobs(t) = {}

TestId == Tests \cup {NoTest}

-----------------------------------------------------------------------------
(* Files and archives *)

File == [kind : {"capcon", "torn", "id"}, of : Tests]
            \cup [kind : {"job", "log", "out"}, of : Payloads]

CapconFile(t) == [kind |-> "capcon", of |-> t]   \* capcon.json
TornFile(t)   == [kind |-> "torn",   of |-> t]   \* capcon.json, cut short by a kill
IdFile(t)     == [kind |-> "id",     of |-> t]   \* an empty file named CapConID
JobFile(p)    == [kind |-> "job",    of |-> p]   \* {payload_id}.json
LogFile(p)    == [kind |-> "log",    of |-> p]   \* {payload_id}.log
OutFile(p)    == [kind |-> "out",    of |-> p]   \* what the payload itself writes

JobFiles(S) == {JobFile(p) : p \in S}
LogFiles(S) == {LogFile(p) : p \in S}
OutFiles(S) == {OutFile(p) : p \in S}

(* load_capcon_from_file: capcon.json is one file, whichever CapCon is in it. *)
HasCapcon(live) == \E t \in Tests : CapconFile(t) \in live
Torn(live)      == \E t \in Tests : TornFile(t) \in live
BadStoredCapcon(live) ==   \* trusts the ID file, if there is one
    CHOOSE t \in Tests : \/ IdFile(t) \in live
                        \/ /\ CapconFile(t) \in live
                           /\ \A s \in Tests : IdFile(s) \notin live
StoredCapcon(live) == CHOOSE t \in Tests : CapconFile(t) \in live

(* Faulty variants of definitions, which no specification uses, stand      *)
(* before the definition they vary and are named Bad...                    *)

(* write_capcon_to_file: "Found existing configuration, not overriding."   *)
BadMayStore(live) == TRUE   \* overrides
MayStore(live) == ~HasCapcon(live) /\ ~Torn(live)

(* write_capcon_to_file and the write_payload_to_file calls that follow it *)
BadStoreCapcon(live, t, jobs) == live \cup {IdFile(t), CapconFile(t)}
StoreCapcon(live, t, jobs) ==
    live \cup {IdFile(t), CapconFile(t)} \cup JobFiles(jobs)

(* generate_logfile_from_jobid: the journal of each unit becomes a file *)
BadCollectLogs(live, jobs) == live
CollectLogs(live, jobs) == live \cup LogFiles(jobs)

Zip(files) == [there |-> TRUE, files |-> files]
NoZip      == [there |-> FALSE, files |-> {}]
Archive    == [there : BOOLEAN, files : SUBSET File]

(* create_archive logs a file that it cannot add to the zip, one that a    *)
(* payload wrote under sudo, say, and goes on with the next.               *)
Archivable(files) == files \ OutFiles(Unreadable)
Zipped(files) == Zip(Archivable(files))

-----------------------------------------------------------------------------
(* Messages: the fields that no property tells apart (time stamps, hashes, *)
(* hardware ids) are left out.  UNKNOWN is a frame with another            *)
(* message_type, MALFORMED one that pydantic refuses.                      *)

Request == {"CLIENT_HELLO", "REQUEST_UPLOAD", "REQUEST_CAPCON", "ACK_CAPCON",
            "UNKNOWN", "MALFORMED"}
Reply   == {"SERVER_HELLO", "UPLOAD_COMPLETE", "CAPCON", "EXECUTE_CAPCON",
            "INVALID_DATA"}

Message(T) == [type : T, id : TestId, body : SUBSET File]

Msg(type, id)      == [type |-> type, id |-> id, body |-> {}]
Upload(name, body) == [type |-> "REQUEST_UPLOAD", id |-> name, body |-> body]

-----------------------------------------------------------------------------
(* The websocket: per connection one FIFO queue in each direction.  What   *)
(* was sent before the close can still be read after it.                   *)

VARIABLES link, to_server, to_client
wire == <<link, to_server, to_client>>

WireTypeOK ==
    /\ link \in [Conns -> {"open", "closed"}]
    /\ to_server \in [Conns -> Seq(Message(Request))]
    /\ to_client \in [Conns -> Seq(Message(Reply))]

WireInit ==
    /\ link = [c \in Conns |-> "closed"]
    /\ to_server = [c \in Conns |-> <<>>]
    /\ to_client = [c \in Conns |-> <<>>]

Post(queue, c, m) == [queue EXCEPT ![c] = Append(@, m)]
Drop(queue, c)    == [queue EXCEPT ![c] = Tail(@)]
Empty(queue, c)   == [queue EXCEPT ![c] = <<>>]
Close(links, c)   == [links EXCEPT ![c] = "closed"]

(* A send on a closed socket is lost: the client's send swallows the       *)
(* ConnectionClosed, the server learns of it at the next await.            *)
SendTo(queue, c, m) == IF link[c] = "open" THEN Post(queue, c, m) ELSE queue

-----------------------------------------------------------------------------
(* Transient systemd units motra-{role}-mexec@{payload_id}.service: a      *)
(* timer (armed), the payload itself (running) and how it ended.           *)

UnitState == {"none", "armed", "running", "done", "failed"}
Busy(unit, p) == unit[p] \in {"armed", "running"}

(* systemd-run refuses a unit that is already loaded; the refusal is only  *)
(* logged by execute_scheduler_template.                                   *)
Arm(unit, jobs) ==
    [p \in Payloads |-> IF p \in jobs /\ ~Busy(unit, p) THEN "armed" ELSE unit[p]]

(* mexec_run: the unit finds {payload_id}.json in the live workspace and   *)
(* becomes the payload, or raises.                                         *)
Fire(unit, p, live) ==
    [unit EXCEPT ![p] = IF JobFile(p) \in live THEN "running" ELSE "failed"]

Finish(unit, p) == [unit EXCEPT ![p] = "done"]
=============================================================================
