-------------------------- MODULE CapconGenerators --------------------------
(***************************************************************************)
(* The scripts of src/capcon that write the CapCons of a campaign.  Each   *)
(* script repeats every one of its dynamic payloads, adds the payloads     *)
(* that all its captures share, computes from the limits how long the      *)
(* capture lasts, adds CapCons that reset the testbed, and writes one file *)
(* per CapCon.                                                             *)
(*                                                                         *)
(* What a payload executes is abstracted away; its type, targets, offset   *)
(* and limits are kept.  Time is counted in tenths of a second.            *)
(***************************************************************************)
EXTENDS Naturals, Sequences, FiniteSets

CONSTANT ArmDelay   \* an upper bound for one call of systemd-run
ASSUME GeneratorAssumption == ArmDelay \in Nat

Sec(n) == 10 * n

(* A time span is a number or a template, "{field}s", until str.format.    *)
Span(n)     == [field |-> "none", span |-> n]
Template(f) == [field |-> f, span |-> 0]
TimeText    == [field : {"none", "tcpdump_runtime", "perf_runtime", "end_of_test_logs"},
                span : Nat]

(* str.format: every field any script fills in has the value               *)
(* upper_runtime + 1; fields it is not called for stay as they are.        *)
Format(text, fields, upper) ==
    IF text.field \in fields THEN Span(Sec(upper + 1)) ELSE text

genPayload(type, target, limits, offset) ==
    [payload_type |-> type, target |-> target, limits |-> limits, offset |-> offset]

Client(type, limits, offset) == genPayload(type, {"client"}, limits, offset)
Server(type, limits, offset) == genPayload(type, {"server"}, limits, offset)

Repeat(n, x) == [i \in 1..n |-> x]

logging_payloads ==
    LET quick == Span(Sec(1)) IN
    <<genPayload("logs", {"client", "server"}, quick, Span(2))>>
        \o Repeat(3, Client("logs", quick, Span(2)))
        \o <<genPayload("logs", {"client", "server"}, quick, Template("end_of_test_logs"))>>

perf_stat_payloads == Repeat(19, Client("capture", Span(Sec(302)), Span(5)))

-----------------------------------------------------------------------------
(* The scripts.  dynamic is the sequence of what varies from capture to    *)
(* capture, one or more payloads each; limit_fields and offset_fields are  *)
(* what the script formats in the limits and the offsets; a duration of 0  *)
(* stands for "five seconds after upper_runtime"; reset_period n for       *)
(* id_count % n == 0, and 1 for a reset in every iteration.                *)

baseline_perf == [
    static        |-> <<Server("capture", Template("tcpdump_runtime"), Span(5))>>
                        \o logging_payloads,
    dynamic       |-> [i \in DOMAIN perf_stat_payloads |-> <<perf_stat_payloads[i]>>],
    repetition    |-> 5,
    limit_fields  |-> {"tcpdump_runtime"},
    offset_fields |-> {"end_of_test_logs"},
    duration      |-> Sec(310), reset_period |-> 5, reset_duration |-> Sec(310)]

(* two attacks with two lists of users and four of passwords *)
bruteforce == [
    static        |-> <<Server("capture", Template("tcpdump_runtime"), Span(4))>>
                        \o logging_payloads,
    dynamic       |-> Repeat(8, <<Server("attack", Span(Sec(305)), Span(5))>>)
                        \o Repeat(8, <<Server("attack", Span(Sec(305)), Span(2))>>),
    repetition    |-> 1,
    limit_fields  |-> {"tcpdump_runtime", "end_of_test_logs"},
    offset_fields |-> {},
    duration      |-> 0, reset_period |-> 3, reset_duration |-> Sec(35)]

(* one capture with a session of six payloads; its upper_runtime is fixed *)
capcontrol == [
    static        |-> logging_payloads
                        \o <<Server("capture", Template("tcpdump_runtime"), Span(5))>>,
    dynamic       |-> <<<<Server("attack", Span(Sec(5)), Span(Sec(2))),
                          Client("attack", Span(Sec(200)), Span(Sec(5))),
                          Server("attack", Span(Sec(5)), Span(Sec(12))),
                          Server("attack", Span(Sec(5)), Span(Sec(14))),
                          Server("attack", Span(Sec(10)), Span(Sec(170))),
                          Server("attack", Span(Sec(5)), Span(Sec(188)))>>>>,
    repetition    |-> 1,
    limit_fields  |-> {"tcpdump_runtime"},
    offset_fields |-> {},
    duration      |-> 0, reset_period |-> 1, reset_duration |-> Sec(35)]

ettercap == [
    static        |-> logging_payloads
                        \o <<Server("capture", Template("tcpdump_runtime"), Span(5))>>,
    dynamic       |-> Repeat(3, <<Server("attack", Span(Sec(231)), Span(5))>>),
    repetition    |-> 10,
    limit_fields  |-> {"tcpdump_runtime"},
    offset_fields |-> {},
    duration      |-> 0, reset_period |-> 1, reset_duration |-> Sec(35)]

flood == [
    static        |-> <<Server("capture", Span(Sec(65)), Span(5))>> \o logging_payloads,
    dynamic       |-> <<<<Server("attack", Span(Sec(65)), Span(5))>>>>,
    repetition    |-> 1,
    limit_fields  |-> {},
    offset_fields |-> {},
    duration      |-> Sec(70), reset_period |-> 5, reset_duration |-> Sec(35)]

nmap_limits == <<25, 505, 1400, 6, 6, 6, 3, 6, 6, 65, 35, 35, 305>>

nmap == [
    static        |-> <<Server("capture", Template("tcpdump_runtime"), Span(4)),
                        Client("capture", Template("perf_runtime"), Span(5))>>
                        \o logging_payloads,
    dynamic       |-> [i \in DOMAIN nmap_limits |->
                        <<Server("attack", Span(Sec(nmap_limits[i])), Span(5))>>],
    repetition    |-> 1,
    limit_fields  |-> {"tcpdump_runtime", "perf_runtime"},
    offset_fields |-> {"end_of_test_logs"},
    duration      |-> 0, reset_period |-> 3, reset_duration |-> Sec(35)]

(* five kinds of server, five functions *)
opc == [
    static        |-> <<Server("capture", Span(Sec(205)), Span(5))>> \o logging_payloads,
    dynamic       |-> Repeat(25, <<Server("attack", Span(Sec(205)), Span(5))>>),
    repetition    |-> 1,
    limit_fields  |-> {},
    offset_fields |-> {},
    duration      |-> Sec(210), reset_period |-> 5, reset_duration |-> Sec(65)]

Scripts == [baseline_perf |-> baseline_perf, bruteforce |-> bruteforce,
            capcontrol |-> capcontrol, ettercap |-> ettercap, flood |-> flood,
            nmap |-> nmap, opc |-> opc]

config_payload == Client("config", Span(Sec(30)), Span(2))

-----------------------------------------------------------------------------
VARIABLES
    script,         \* the script that runs
    dyn, rep,       \* its two loops
    id_count,
    capture_configurations,
    outcome         \* of writing the files
vars == <<script, dyn, rep, id_count, capture_configurations, outcome>>

This == Scripts[script]

Load ==
    [payload_type : {"capture", "attack", "config", "logs", "other"},
     target : SUBSET {"client", "server"}, limits : TimeText, offset : TimeText]

(* CapConIDs: f"{name}_{id_count:04}", with "_config" for a reset *)
CapConID == [number : Nat, reset : BOOLEAN]
CapCon   == [CapConID : CapConID, duration : Nat, payload : Seq(Load)]

Init ==
    /\ script \in DOMAIN Scripts
    /\ dyn = 1 /\ rep = 1 /\ id_count = 1
    /\ capture_configurations = <<>>
    /\ outcome = "generating"

(* int(parse_systemd_timespan(limits)) + 1, or the constant of capcontrol *)
BadUpperRuntime(d) ==   \* the runtime of the first payload for all of them
    IF script = "capcontrol" THEN 220 ELSE This.dynamic[1][1].limits.span \div 10 + 1
UpperRuntime(d) ==
    IF script = "capcontrol" THEN 220 ELSE This.dynamic[d][1].limits.span \div 10 + 1

BadDuration(upper) == IF This.duration = 0 THEN Sec(upper) ELSE This.duration
Duration(upper) == IF This.duration = 0 THEN Sec(upper + 5) ELSE This.duration

Formatted(load, upper) ==
    [load EXCEPT !.limits = Format(@, This.limit_fields, upper),
                 !.offset = Format(@, This.offset_fields, upper)]

Capture ==
    LET upper == UpperRuntime(dyn)
        loads == This.static \o This.dynamic[dyn]
    IN  [CapConID |-> [number |-> id_count, reset |-> FALSE],
         duration |-> Duration(upper),
         payload  |-> [i \in DOMAIN loads |-> Formatted(loads[i], upper)]]

ConfigReset ==
    [CapConID |-> [number |-> id_count, reset |-> TRUE],
     duration |-> This.reset_duration,
     payload  |-> <<config_payload>>]

(* The test comes after id_count has been incremented *)
BadResetDue(n) == n % This.reset_period = 0 /\ rep = This.repetition
ResetDue(n) == n % This.reset_period = 0

BadIdCount(n) == IF rep = This.repetition THEN n + 1 ELSE n
IdCount(n) == n + 1

BadLastRep(n) == n > This.repetition
LastRep(n) == n = This.repetition

Generating == dyn \in DOMAIN This.dynamic

(* One round of the inner loop *)
NextCapCon ==
    /\ Generating
    /\ capture_configurations' = capture_configurations \o
         (IF ResetDue(IdCount(id_count)) THEN <<Capture, ConfigReset>> ELSE <<Capture>>)
    /\ id_count' = IdCount(id_count)
    /\ IF LastRep(rep) THEN rep' = 1 /\ dyn' = dyn + 1
                       ELSE rep' = rep + 1 /\ UNCHANGED dyn
    /\ UNCHANGED <<script, outcome>>

(* write_capcon_to_file for each: "Found existing configuration, not       *)
(* overriding." when two have the same name.                               *)
WriteFiles ==
    /\ ~Generating /\ outcome = "generating"
    /\ LET ids == {capture_configurations[i].CapConID : i \in DOMAIN capture_configurations}
       IN  outcome' = IF Cardinality(ids) = Len(capture_configurations)
                      THEN "written" ELSE "failed"
    /\ UNCHANGED <<script, dyn, rep, id_count, capture_configurations>>

Next == NextCapCon \/ WriteFiles

GeneratorSpec == Init /\ [][Next]_vars

-----------------------------------------------------------------------------
(* Properties *)

(* The loop counters stay in their ranges, and what is generated is a      *)
(* CapCon.                                                                 *)
GeneratorTypeOK ==
    /\ script \in DOMAIN Scripts
    /\ dyn \in 1 .. Len(This.dynamic) + 1 /\ rep \in 1..This.repetition
    /\ id_count \in Nat
    /\ capture_configurations \in Seq(CapCon)
    /\ outcome \in {"generating", "written", "failed"}

Generated == {capture_configurations[i] : i \in DOMAIN capture_configurations}
Captures  == {c \in Generated : ~c.CapConID.reset}

(* systemd-run refuses a template that was never filled in *)
Runnable(load) == load.offset.field = "none" /\ load.limits.field = "none"

Ends(load) == load.offset.span + load.limits.span

(* How many units a role has armed when it has come to the i-th payload *)
ArmedUnits(c, role, i) == Cardinality({k \in 1..i : role \in c.payload[k].target})

EndsInTime(c) ==
    \A role \in {"client", "server"} : \A i \in DOMAIN c.payload :
        role \in c.payload[i].target /\ Runnable(c.payload[i]) =>
            (ArmedUnits(c, role, i) + 1) * ArmDelay + Ends(c.payload[i]) <= c.duration

(* The client's own timer is armed before the payloads and the duration is *)
(* counted from there.  Even so, on either machine every payload is over   *)
(* when the client comes back, as long as no call of systemd-run takes     *)
(* longer than ArmDelay: what CaptureOver of CaptureSystem takes for       *)
(* granted of payloads that keep their limits.                             *)
PayloadsEndFirst == \A c \in Generated : EndsInTime(c)

(* How many units the server arms after the i-th payload, up to the j-th *)
ArmedLater(c, i, j) == Cardinality({k \in (i + 1)..j : "server" \in c.payload[k].target})

OnServer(load, type) == load.payload_type = type /\ "server" \in load.target

OutlastsAttacks(c) ==
    \A i, j \in DOMAIN c.payload :
        OnServer(c.payload[i], "capture") /\ OnServer(c.payload[j], "attack") =>
            Ends(c.payload[i]) >= ArmedLater(c, i, j) * ArmDelay + Ends(c.payload[j])

(* "this will just round up the runtime for the tcpdump process" (nmap.py, *)
(* bruteforce.py, ettercap.py, capcontrol.py): where a script computes the *)
(* runtime of the network capture, the capture is stopped no earlier than  *)
(* any attack of the server that it records, although the attack's timer   *)
(* is armed later by one call of systemd-run for each unit in between.     *)
(* (flood.py and opc.py give both the same offset and limits, so that      *)
(* there the capture is stopped first.)                                    *)
CaptureOutlastsAttacks ==
    "tcpdump_runtime" \in This.limit_fields => \A c \in Captures : OutlastsAttacks(c)

(* "every x iterations add a config reset": x + 1 CapCons in a row include *)
(* one, across the borders of repetitions and of dynamic payloads.         *)
ResetsRecur ==
    \A i \in DOMAIN capture_configurations :
        i + This.reset_period \in DOMAIN capture_configurations =>
            \E j \in i .. i + This.reset_period :
                capture_configurations[j].CapConID.reset

(* No two CapCons of a script have the same CapConID: writing them all     *)
(* succeeds, and so does the server's check when it scans them.            *)
NoNameTaken == outcome # "failed"

(* "add the currently configured logging payloads, since we always need    *)
(* those" (flood.py, opc.py, baseline_perf.py): systemd accepts the log    *)
(* payloads of every capture.                                              *)
LogsAlwaysTaken ==
    \A c \in Captures : \A i \in DOMAIN c.payload :
        c.payload[i].payload_type = "logs" => Runnable(c.payload[i])
=============================================================================
