---------------------- MODULE CapconGenerators_proofs ----------------------
(***************************************************************************)
(* What the scripts of src/capcon write: the proofs go through the scripts *)
(* one by one, with the loads of each written out, and then through the    *)
(* two loops that all of them have.                                        *)
(***************************************************************************)
EXTENDS CapconGenerators, FiniteSetTheorems, FunctionTheorems, SequenceTheorems, TLAPS

(* Sequences that are written out *)
LEMMA RepeatIsSeq ==
    ASSUME NEW S, NEW n \in Nat, NEW x \in S
    PROVE  /\ Repeat(n, x) \in Seq(S)
           /\ Len(Repeat(n, x)) = n
           /\ DOMAIN Repeat(n, x) = 1..n
           /\ \A i \in 1..n : Repeat(n, x)[i] = x
BY DEF Repeat

(* Time spans and templates are time texts. *)
LEMMA Texts ==
    /\ \A n \in Nat : Span(n) \in TimeText /\ Sec(n) \in Nat
    /\ \A f \in {"tcpdump_runtime", "perf_runtime", "end_of_test_logs"} : Template(f) \in TimeText
BY DEF Span, Template, TimeText, Sec

(* genPayload makes loads. *)
LEMMA Loads ==
    ASSUME NEW type \in {"capture", "attack", "config", "logs", "other"},
           NEW limits \in TimeText, NEW offset \in TimeText
    PROVE  /\ Client(type, limits, offset) \in Load
           /\ Server(type, limits, offset) \in Load
           /\ genPayload(type, {"client", "server"}, limits, offset) \in Load
BY DEF Client, Server, genPayload, Load

(* The payloads of a CapCon are loads. *)
LEMMA PayloadIsLoad ==
    ASSUME NEW c \in CapCon
    PROVE  \A i \in DOMAIN c.payload : c.payload[i] \in Load
<1>1. c.payload \in Seq(Load)
  BY DEF CapCon
<1> QED  BY <1>1

Logs(offset) == genPayload("logs", {"client", "server"}, Span(Sec(1)), offset)
ClientLogs == Client("logs", Span(Sec(1)), Span(2))

LogLoads == {Logs(Span(2)), ClientLogs, Logs(Template("end_of_test_logs"))}

LEMMA LoggingPayloads ==
    /\ logging_payloads \in Seq(Load)
    /\ Len(logging_payloads) = 5
    /\ logging_payloads[1] = Logs(Span(2))
    /\ \A i \in 2..4 : logging_payloads[i] = ClientLogs
    /\ logging_payloads[5] = Logs(Template("end_of_test_logs"))
    /\ \A i \in 1..5 : logging_payloads[i] \in LogLoads
<1> DEFINE r == Repeat(3, ClientLogs)
           a == Logs(Span(2))
           b == Logs(Template("end_of_test_logs"))
<1>1. a \in Load /\ ClientLogs \in Load /\ b \in Load
  BY Loads, Texts DEF Logs, ClientLogs
<1>2. /\ r \in Seq(Load) /\ Len(r) = 3 /\ \A i \in 1..3 : r[i] = ClientLogs
  BY <1>1, RepeatIsSeq
<1>3. logging_payloads = <<a>> \o r \o <<b>>
  BY DEF logging_payloads, Logs, ClientLogs
<1> HIDE DEF r, a, b
<1>4. /\ <<a>> \in Seq(Load) /\ Len(<<a>>) = 1 /\ <<a>>[1] = a
      /\ <<b>> \in Seq(Load) /\ Len(<<b>>) = 1 /\ <<b>>[1] = b
  BY <1>1
<1> DEFINE first == <<a>>
           last == <<b>>
           u == first \o r
<1> HIDE DEF first, last, u
<1>5. /\ u \in Seq(Load) /\ Len(u) = 4 /\ u[1] = a
      /\ \A i \in 2..4 : u[i] = ClientLogs
  <2>1. /\ u \in Seq(Load) /\ Len(u) = Len(first) + Len(r)
        /\ \A i \in 1 .. Len(first) + Len(r) :
              u[i] = IF i <= Len(first) THEN first[i] ELSE r[i - Len(first)]
    BY <1>2, <1>4, ConcatProperties DEF u, first
  <2> QED  BY <1>2, <1>4, <2>1 DEF first
<1>6. /\ logging_payloads \in Seq(Load) /\ Len(logging_payloads) = 5
      /\ logging_payloads[1] = a
      /\ \A i \in 2..4 : logging_payloads[i] = ClientLogs
      /\ logging_payloads[5] = b
  <2>1. logging_payloads = u \o last
    BY <1>3 DEF u, first, last
  <2>2. /\ u \o last \in Seq(Load) /\ Len(u \o last) = Len(u) + Len(last)
        /\ \A i \in 1 .. Len(u) + Len(last) :
              (u \o last)[i] = IF i <= Len(u) THEN u[i] ELSE last[i - Len(u)]
    BY <1>4, <1>5, ConcatProperties DEF last
  <2> QED  BY <1>4, <1>5, <2>1, <2>2 DEF last
<1>7. \A i \in 1..5 : logging_payloads[i] \in {a, ClientLogs, b}
  BY <1>6
<1> QED  BY <1>6, <1>7 DEF a, b, LogLoads

-----------------------------------------------------------------------------
(* The scripts *)
Field  == {"tcpdump_runtime", "perf_runtime", "end_of_test_logs"}
Script ==
    [static : Seq(Load), dynamic : Seq(Seq(Load) \ {<<>>}), repetition : Nat \ {0},
     limit_fields : SUBSET Field, offset_fields : SUBSET Field, duration : Nat,
     reset_period : {1, 3, 5}, reset_duration : {n \in Nat : n >= Sec(35)}]

(* One payload varies from capture to capture. *)
LEMMA Singles ==
    ASSUME NEW n \in Nat, NEW load \in Load
    PROVE  /\ Repeat(n, <<load>>) \in Seq(Seq(Load) \ {<<>>})
           /\ DOMAIN Repeat(n, <<load>>) = 1..n
           /\ \A d \in 1..n : Repeat(n, <<load>>)[d] = <<load>>
<1>1. <<load>> \in Seq(Load) \ {<<>>}
  <2>1. <<load>> \in Seq(Load) /\ Len(<<load>>) = 1 /\ Len(<<>>) = 0
    OBVIOUS
  <2> QED  BY <2>1
<1> QED  BY <1>1, RepeatIsSeq

FirstCapture == Server("capture", Template("tcpdump_runtime"), Span(5))

(* A capture before or after the logs *)
LEMMA LoggedCapture ==
    ASSUME NEW load \in Load
    PROVE  /\ <<load>> \o logging_payloads \in Seq(Load)
           /\ Len(<<load>> \o logging_payloads) = 6
           /\ \A i \in 1..6 : (<<load>> \o logging_payloads)[i] \in LogLoads \cup {load}
           /\ \A i \in 3..5 : (<<load>> \o logging_payloads)[i] = ClientLogs
           /\ logging_payloads \o <<load>> \in Seq(Load)
           /\ Len(logging_payloads \o <<load>>) = 6
           /\ \A i \in 1..6 : (logging_payloads \o <<load>>)[i] \in LogLoads \cup {load}
           /\ \A i \in 1..5 : (logging_payloads \o <<load>>)[i] \in LogLoads
           /\ (logging_payloads \o <<load>>)[6] = load
<1>1. /\ logging_payloads \in Seq(Load) /\ Len(logging_payloads) = 5
      /\ \A i \in 1..5 : logging_payloads[i] \in LogLoads
      /\ \A i \in 2..4 : logging_payloads[i] = ClientLogs
  BY LoggingPayloads
<1> DEFINE one == <<load>>
           before == one \o logging_payloads
           after == logging_payloads \o one
<1>2. one \in Seq(Load) /\ Len(one) = 1 /\ one[1] = load
  OBVIOUS
<1> HIDE DEF one
<1>3. /\ before \in Seq(Load) /\ Len(before) = Len(one) + Len(logging_payloads)
      /\ \A i \in 1 .. Len(one) + Len(logging_payloads) :
            before[i] = IF i <= Len(one) THEN one[i] ELSE logging_payloads[i - Len(one)]
  BY <1>1, <1>2, ConcatProperties
<1>4. /\ after \in Seq(Load) /\ Len(after) = Len(logging_payloads) + Len(one)
      /\ \A i \in 1 .. Len(logging_payloads) + Len(one) :
            after[i] = IF i <= Len(logging_payloads) THEN logging_payloads[i]
                       ELSE one[i - Len(logging_payloads)]
  BY <1>1, <1>2, ConcatProperties
<1> HIDE DEF before, after
<1>5. /\ before \in Seq(Load) /\ Len(before) = 6
      /\ \A i \in 1..6 : before[i] \in LogLoads \cup {load}
      /\ \A i \in 3..5 : before[i] = ClientLogs
      /\ after \in Seq(Load) /\ Len(after) = 6
      /\ \A i \in 1..5 : after[i] \in LogLoads
      /\ after[6] = load
  BY <1>1, <1>2, <1>3, <1>4
<1>6. \A i \in 1..6 : after[i] \in LogLoads \cup {load}
  BY <1>5
<1> QED  BY <1>5, <1>6 DEF before, after, one

(* Most scripts add one capture to the logs, in front or at the end, and   *)
(* vary one payload.                                                       *)
Varies(s, capture, kinds) ==
    /\ s \in Script
    /\ Len(s.static) = 6
    /\ \A i \in 1..6 : s.static[i] \in LogLoads \cup {capture}
    /\ \/ \A i \in 3..5 : s.static[i] = ClientLogs
       \/ \A i \in 1..5 : s.static[i] \in LogLoads
    /\ \A d \in DOMAIN s.dynamic : \E load \in kinds : s.dynamic[d] = <<load>>

LEMMA BaselinePerf ==
    Varies(baseline_perf, FirstCapture, {Client("capture", Span(Sec(302)), Span(5))})
<1> DEFINE perf == Client("capture", Span(Sec(302)), Span(5))
<1>1. perf \in Load /\ FirstCapture \in Load
  BY Loads, Texts DEF FirstCapture
<1> HIDE DEF perf
<1>2. /\ perf_stat_payloads = Repeat(19, perf)
      /\ DOMAIN perf_stat_payloads = 1..19
      /\ \A d \in 1..19 : perf_stat_payloads[d] = perf
  <2>1. perf_stat_payloads = Repeat(19, perf)
    BY DEF perf_stat_payloads, perf
  <2>2. /\ DOMAIN Repeat(19, perf) = 1..19
        /\ \A d \in 1..19 : Repeat(19, perf)[d] = perf
    BY DEF Repeat
  <2> QED  BY <2>1, <2>2
<1>3. [i \in DOMAIN perf_stat_payloads |-> <<perf_stat_payloads[i]>>] = Repeat(19, <<perf>>)
  BY <1>2 DEF Repeat
<1>4. /\ baseline_perf.static = <<FirstCapture>> \o logging_payloads
      /\ baseline_perf.dynamic = Repeat(19, <<perf>>)
  BY <1>3 DEF baseline_perf, FirstCapture
<1>5. /\ baseline_perf.static \in Seq(Load) /\ Len(baseline_perf.static) = 6
      /\ \A i \in 1..6 : baseline_perf.static[i] \in LogLoads \cup {FirstCapture}
      /\ \A i \in 3..5 : baseline_perf.static[i] = ClientLogs
  BY <1>1, <1>4, LoggedCapture
<1>6. /\ baseline_perf.dynamic \in Seq(Seq(Load) \ {<<>>})
      /\ \A d \in DOMAIN baseline_perf.dynamic : baseline_perf.dynamic[d] = <<perf>>
  <2>1. /\ Repeat(19, <<perf>>) \in Seq(Seq(Load) \ {<<>>})
        /\ DOMAIN Repeat(19, <<perf>>) = 1..19
        /\ \A d \in 1..19 : Repeat(19, <<perf>>)[d] = <<perf>>
    BY <1>1, Singles, 19 \in Nat
  <2> QED  BY <1>4, <2>1
<1>7. baseline_perf \in Script
  BY <1>5, <1>6 DEF baseline_perf, Script, Field, Sec
<1> QED  BY <1>5, <1>6, <1>7 DEF Varies, perf

LEMMA Ettercap ==
    Varies(ettercap, FirstCapture, {Server("attack", Span(Sec(231)), Span(5))})
<1> DEFINE mitm == Server("attack", Span(Sec(231)), Span(5))
<1>1. mitm \in Load /\ FirstCapture \in Load
  BY Loads, Texts DEF FirstCapture
<1>2. /\ ettercap.static = logging_payloads \o <<FirstCapture>>
      /\ ettercap.dynamic = Repeat(3, <<mitm>>)
  BY DEF ettercap, FirstCapture
<1> HIDE DEF mitm
<1>3. /\ ettercap.static \in Seq(Load) /\ Len(ettercap.static) = 6
      /\ \A i \in 1..6 : ettercap.static[i] \in LogLoads \cup {FirstCapture}
      /\ \A i \in 1..5 : ettercap.static[i] \in LogLoads
  BY <1>1, <1>2, LoggedCapture
<1>4. /\ ettercap.dynamic \in Seq(Seq(Load) \ {<<>>})
      /\ \A d \in DOMAIN ettercap.dynamic : ettercap.dynamic[d] = <<mitm>>
  <2>1. /\ Repeat(3, <<mitm>>) \in Seq(Seq(Load) \ {<<>>})
        /\ DOMAIN Repeat(3, <<mitm>>) = 1..3
        /\ \A d \in 1..3 : Repeat(3, <<mitm>>)[d] = <<mitm>>
    BY <1>1, Singles, 3 \in Nat, Zenon
  <2> QED  BY <1>2, <2>1
<1>5. ettercap \in Script
  BY <1>3, <1>4 DEF ettercap, Script, Field, Sec
<1> QED  BY <1>3, <1>4, <1>5 DEF Varies, mitm

LEMMA Flood ==
    Varies(flood, Server("capture", Span(Sec(65)), Span(5)),
           {Server("attack", Span(Sec(65)), Span(5))})
<1> DEFINE attack == Server("attack", Span(Sec(65)), Span(5))
           capture == Server("capture", Span(Sec(65)), Span(5))
<1>1. attack \in Load /\ capture \in Load
  BY Loads, Texts
<1>2. /\ flood.static = <<capture>> \o logging_payloads
      /\ flood.dynamic = <<<<attack>>>>
  BY DEF flood
<1> HIDE DEF attack, capture
<1>3. /\ flood.static \in Seq(Load) /\ Len(flood.static) = 6
      /\ \A i \in 1..6 : flood.static[i] \in LogLoads \cup {capture}
      /\ \A i \in 3..5 : flood.static[i] = ClientLogs
  BY <1>1, <1>2, LoggedCapture
<1>4. /\ flood.dynamic \in Seq(Seq(Load) \ {<<>>})
      /\ \A d \in DOMAIN flood.dynamic : flood.dynamic[d] = <<attack>>
  <2>1. Repeat(1, <<attack>>) = <<<<attack>>>>
    BY DEF Repeat
  <2>2. /\ Repeat(1, <<attack>>) \in Seq(Seq(Load) \ {<<>>})
        /\ DOMAIN Repeat(1, <<attack>>) = 1..1
        /\ \A d \in 1..1 : Repeat(1, <<attack>>)[d] = <<attack>>
    BY <1>1, Singles, 1 \in Nat, Zenon
  <2> QED  BY <1>2, <2>1, <2>2
<1>5. flood \in Script
  BY <1>3, <1>4 DEF flood, Script, Field, Sec
<1> QED  BY <1>3, <1>4, <1>5 DEF Varies, attack, capture

LEMMA Opc ==
    Varies(opc, Server("capture", Span(Sec(205)), Span(5)),
           {Server("attack", Span(Sec(205)), Span(5))})
<1> DEFINE attack == Server("attack", Span(Sec(205)), Span(5))
           capture == Server("capture", Span(Sec(205)), Span(5))
<1>1. attack \in Load /\ capture \in Load
  BY Loads, Texts
<1>2. /\ opc.static = <<capture>> \o logging_payloads
      /\ opc.dynamic = Repeat(25, <<attack>>)
  BY DEF opc
<1> HIDE DEF attack, capture
<1>3. /\ opc.static \in Seq(Load) /\ Len(opc.static) = 6
      /\ \A i \in 1..6 : opc.static[i] \in LogLoads \cup {capture}
      /\ \A i \in 3..5 : opc.static[i] = ClientLogs
  BY <1>1, <1>2, LoggedCapture
<1>4. /\ opc.dynamic \in Seq(Seq(Load) \ {<<>>})
      /\ \A d \in DOMAIN opc.dynamic : opc.dynamic[d] = <<attack>>
  <2>1. /\ Repeat(25, <<attack>>) \in Seq(Seq(Load) \ {<<>>})
        /\ DOMAIN Repeat(25, <<attack>>) = 1..25
        /\ \A d \in 1..25 : Repeat(25, <<attack>>)[d] = <<attack>>
    BY <1>1, Singles, 25 \in Nat, Zenon
  <2> QED  BY <1>2, <2>1
<1>5. opc \in Script
  BY <1>3, <1>4 DEF opc, Script, Field, Sec
<1> QED  BY <1>3, <1>4, <1>5 DEF Varies, attack, capture

LEMMA Bruteforce ==
    Varies(bruteforce, Server("capture", Template("tcpdump_runtime"), Span(4)),
           {Server("attack", Span(Sec(305)), Span(5)), Server("attack", Span(Sec(305)), Span(2))})
<1> DEFINE late == Server("attack", Span(Sec(305)), Span(5))
           early == Server("attack", Span(Sec(305)), Span(2))
           capture == Server("capture", Template("tcpdump_runtime"), Span(4))
<1>1. late \in Load /\ early \in Load /\ capture \in Load
  BY Loads, Texts
<1>2. /\ bruteforce.static = <<capture>> \o logging_payloads
      /\ bruteforce.dynamic = Repeat(8, <<late>>) \o Repeat(8, <<early>>)
  BY DEF bruteforce
<1> HIDE DEF late, early, capture
<1>3. /\ bruteforce.static \in Seq(Load) /\ Len(bruteforce.static) = 6
      /\ \A i \in 1..6 : bruteforce.static[i] \in LogLoads \cup {capture}
      /\ \A i \in 3..5 : bruteforce.static[i] = ClientLogs
  BY <1>1, <1>2, LoggedCapture
<1>4. /\ bruteforce.dynamic \in Seq(Seq(Load) \ {<<>>})
      /\ \A d \in DOMAIN bruteforce.dynamic :
            bruteforce.dynamic[d] = <<late>> \/ bruteforce.dynamic[d] = <<early>>
  <2> DEFINE a == Repeat(8, <<late>>)
             b == Repeat(8, <<early>>)
             Lists == Seq(Load) \ {<<>>}
  <2>1. /\ a \in Seq(Lists) /\ DOMAIN a = 1..8 /\ \A d \in 1..8 : a[d] = <<late>>
        /\ b \in Seq(Lists) /\ DOMAIN b = 1..8 /\ \A d \in 1..8 : b[d] = <<early>>
    BY <1>1, Singles, 8 \in Nat, Zenon
  <2> HIDE DEF a, b, Lists
  <2>2. Len(a) = 8 /\ Len(b) = 8
    BY <2>1
  <2>3. /\ a \o b \in Seq(Lists) /\ Len(a \o b) = Len(a) + Len(b)
        /\ \A d \in 1 .. Len(a) + Len(b) :
              (a \o b)[d] = IF d <= Len(a) THEN a[d] ELSE b[d - Len(a)]
    BY <2>1, ConcatProperties
  <2> DEFINE c == a \o b
  <2> HIDE DEF c
  <2>4. c \in Seq(Lists) /\ \A d \in DOMAIN c : c[d] = <<late>> \/ c[d] = <<early>>
    BY <2>1, <2>2, <2>3 DEF c
  <2>5. bruteforce.dynamic = c
    BY <1>2 DEF a, b, c
  <2> QED  BY <2>4, <2>5 DEF Lists
<1>5. bruteforce \in Script
  BY <1>3, <1>4 DEF bruteforce, Script, Field, Sec
<1> QED  BY <1>3, <1>4, <1>5 DEF Varies, late, early, capture

(* Two captures, one of them on the client, precede the logs of nmap. *)
LEMMA Nmap ==
    /\ nmap \in Script
    /\ Len(nmap.static) = 7
    /\ nmap.static[1] = Server("capture", Template("tcpdump_runtime"), Span(4))
    /\ nmap.static[2] = Client("capture", Template("perf_runtime"), Span(5))
    /\ \A i \in 3..7 : nmap.static[i] \in LogLoads
    /\ \A i \in 4..6 : nmap.static[i] = ClientLogs
    /\ \A d \in DOMAIN nmap.dynamic : \E n \in Nat :
          nmap.dynamic[d] = <<Server("attack", Span(Sec(n)), Span(5))>>
<1> DEFINE tcpdump == Server("capture", Template("tcpdump_runtime"), Span(4))
           perf == Client("capture", Template("perf_runtime"), Span(5))
           two == <<tcpdump, perf>>
           Scan(n) == Server("attack", Span(Sec(n)), Span(5))
<1>1. tcpdump \in Load /\ perf \in Load /\ \A n \in Nat : Scan(n) \in Load
  BY Loads, Texts
<1>2. nmap.static = two \o logging_payloads
  BY DEF nmap
<1>3. nmap.dynamic = [i \in DOMAIN nmap_limits |-> <<Scan(nmap_limits[i])>>]
  BY DEF nmap
<1> HIDE DEF tcpdump, perf, Scan
<1>4. two \in Seq(Load) /\ Len(two) = 2 /\ two[1] = tcpdump /\ two[2] = perf
  BY <1>1
<1> HIDE DEF two
<1>5. /\ nmap.static \in Seq(Load) /\ Len(nmap.static) = 7
      /\ nmap.static[1] = tcpdump /\ nmap.static[2] = perf
      /\ \A i \in 3..7 : nmap.static[i] \in LogLoads
      /\ \A i \in 4..6 : nmap.static[i] = ClientLogs
  <2>1. /\ logging_payloads \in Seq(Load) /\ Len(logging_payloads) = 5
        /\ \A i \in 1..5 : logging_payloads[i] \in LogLoads
        /\ \A i \in 2..4 : logging_payloads[i] = ClientLogs
    BY LoggingPayloads
  <2> DEFINE both == two \o logging_payloads
  <2>2. /\ both \in Seq(Load) /\ Len(both) = Len(two) + Len(logging_payloads)
        /\ \A i \in 1 .. Len(two) + Len(logging_payloads) :
              both[i] = IF i <= Len(two) THEN two[i] ELSE logging_payloads[i - Len(two)]
    BY <1>4, <2>1, ConcatProperties
  <2> HIDE DEF both
  <2>3. /\ both \in Seq(Load) /\ Len(both) = 7 /\ both[1] = tcpdump /\ both[2] = perf
        /\ \A i \in 3..7 : both[i] \in LogLoads
        /\ \A i \in 4..6 : both[i] = ClientLogs
    BY <1>4, <2>1, <2>2
  <2> QED  BY <1>2, <2>3 DEF both
<1>6. /\ nmap.dynamic \in Seq(Seq(Load) \ {<<>>})
      /\ \A d \in DOMAIN nmap.dynamic : \E n \in Nat : nmap.dynamic[d] = <<Scan(n)>>
  <2>1. DOMAIN nmap_limits = 1..13 /\ \A i \in 1..13 : nmap_limits[i] \in Nat
    BY DEF nmap_limits
  <2>2. \A n \in Nat : <<Scan(n)>> \in Seq(Load) \ {<<>>}
    <3> TAKE n \in Nat
    <3>1. <<Scan(n)>> \in Seq(Load) /\ Len(<<Scan(n)>>) = 1 /\ Len(<<>>) = 0
      BY <1>1
    <3> QED  BY <3>1
  <2> DEFINE Lists == Seq(Load) \ {<<>>}
             f == [i \in DOMAIN nmap_limits |-> <<Scan(nmap_limits[i])>>]
  <2>3. /\ DOMAIN f = 1..13
        /\ \A d \in 1..13 : \E n \in Nat : f[d] = <<Scan(n)>>
    BY <2>1
  <2>4. f \in [1..13 -> Lists]
    BY <2>1, <2>2
  <2> HIDE DEF Lists, f
  <2>5. f \in Seq(Lists)
    <3>1. Seq(Lists) = UNION {[1..n -> Lists] : n \in Nat}
      BY SeqDef, Zenon
    <3>2. 13 \in Nat
      OBVIOUS
    <3> QED  BY <2>4, <3>1, <3>2, Zenon
  <2> QED  BY <1>3, <2>3, <2>5 DEF Lists, f
<1>7. nmap \in Script
  BY <1>5, <1>6 DEF nmap, Script, Field, Sec
<1> QED  BY <1>5, <1>6, <1>7 DEF tcpdump, perf, Scan

(* The attacks of capcontrol's session are over after 205 seconds. *)
C2Load(load) ==
    /\ load.payload_type = "attack"
    /\ load.limits.field = "none" /\ load.offset.field = "none"
    /\ Ends(load) <= Sec(205)

LEMMA Capcontrol ==
    /\ capcontrol \in Script
    /\ Len(capcontrol.static) = 6
    /\ \A i \in 1..5 : capcontrol.static[i] \in LogLoads
    /\ capcontrol.static[6] = FirstCapture
    /\ \A d \in DOMAIN capcontrol.dynamic :
          /\ Len(capcontrol.dynamic[d]) = 6
          /\ \A i \in 1..6 : C2Load(capcontrol.dynamic[d][i])
<1> DEFINE a == Server("attack", Span(Sec(5)), Span(Sec(2)))
           b == Client("attack", Span(Sec(200)), Span(Sec(5)))
           c == Server("attack", Span(Sec(5)), Span(Sec(12)))
           d == Server("attack", Span(Sec(5)), Span(Sec(14)))
           e == Server("attack", Span(Sec(10)), Span(Sec(170)))
           f == Server("attack", Span(Sec(5)), Span(Sec(188)))
           session == <<a, b, c, d, e, f>>
<1>1. a \in Load /\ b \in Load /\ c \in Load /\ d \in Load /\ e \in Load /\ f \in Load
  BY Loads, Texts
<1>2. /\ C2Load(a) /\ C2Load(b) /\ C2Load(c) /\ C2Load(d) /\ C2Load(e) /\ C2Load(f)
  BY DEF C2Load, Server, Client, genPayload, Span, Sec, Ends
<1>3. /\ capcontrol.static = logging_payloads \o <<FirstCapture>>
      /\ capcontrol.dynamic = <<session>>
  BY DEF capcontrol, FirstCapture
<1>4. FirstCapture \in Load
  BY Loads, Texts DEF FirstCapture
<1> HIDE DEF a, b, c, d, e, f
<1>5. /\ capcontrol.static \in Seq(Load) /\ Len(capcontrol.static) = 6
      /\ \A i \in 1..5 : capcontrol.static[i] \in LogLoads
      /\ capcontrol.static[6] = FirstCapture
  BY <1>3, <1>4, LoggedCapture
<1>6. /\ session \in Seq(Load) /\ Len(session) = 6
      /\ \A i \in 1..6 : C2Load(session[i])
  BY <1>1, <1>2
<1> HIDE DEF session
<1>7. /\ capcontrol.dynamic \in Seq(Seq(Load) \ {<<>>})
      /\ \A k \in DOMAIN capcontrol.dynamic : capcontrol.dynamic[k] = session
  <2>1. session # <<>>
    <3>1. Len(<<>>) = 0
      OBVIOUS
    <3> QED  BY <1>6, <3>1
  <2> QED  BY <1>3, <1>6, <2>1
<1>8. capcontrol \in Script
  BY <1>5, <1>7 DEF capcontrol, Script, Field, Sec
<1> QED  BY <1>5, <1>6, <1>7, <1>8

(* The scripts are well formed. *)
LEMMA EveryScript == \A s \in DOMAIN Scripts : Scripts[s] \in Script
BY BaselinePerf, Bruteforce, Capcontrol, Ettercap, Flood, Nmap, Opc DEF Scripts, Varies

-----------------------------------------------------------------------------
(* One capture *)
LEMMA TypedScript ==
    ASSUME script \in DOMAIN Scripts, Generating
    PROVE  /\ This \in Script
           /\ dyn \in 1 .. Len(This.dynamic) /\ Len(This.dynamic) \in Nat
           /\ This.dynamic[dyn] \in Seq(Load)
           /\ Len(This.dynamic[dyn]) \in Nat \ {0}
           /\ This.dynamic[dyn][1] \in Load
<1>1. This \in Script
  BY EveryScript DEF This
<1>2. This.dynamic \in Seq(Seq(Load) \ {<<>>})
  BY <1>1 DEF Script
<1> DEFINE Lists == Seq(Load) \ {<<>>}
           all == This.dynamic
<1> HIDE DEF Lists, all
<1>3. dyn \in 1 .. Len(all) /\ Len(all) \in Nat /\ all[dyn] \in Lists
  BY <1>2 DEF Generating, Lists, all
<1>4. all[dyn] \in Seq(Load) /\ all[dyn] # <<>>
  BY <1>3 DEF Lists
<1> DEFINE one == all[dyn]
<1> HIDE DEF one
<1>5. Len(one) \in Nat \ {0} /\ one[1] \in Load
  BY <1>4, EmptySeq DEF one
<1> QED  BY <1>1, <1>3, <1>4, <1>5 DEF one, all

(* The runtime is that of the first load, rounded up. *)
LEMMA UpperIsNat ==
    ASSUME script \in DOMAIN Scripts, Generating
    PROVE  UpperRuntime(dyn) \in Nat
<1>1. This.dynamic[dyn][1] \in Load
  BY TypedScript
<1>2. This.dynamic[dyn][1].limits.span \in Nat
  BY <1>1 DEF Load, TimeText
<1> QED  BY <1>2 DEF UpperRuntime

(* Formatting changes nothing but limits and offset. *)
LEMMA FormattedLoad ==
    ASSUME NEW load \in Load, NEW upper \in Nat
    PROVE  /\ Formatted(load, upper) \in Load
           /\ Formatted(load, upper).payload_type = load.payload_type
           /\ Formatted(load, upper).target = load.target
           /\ Formatted(load, upper).limits = Format(load.limits, This.limit_fields, upper)
           /\ Formatted(load, upper).offset = Format(load.offset, This.offset_fields, upper)
<1>1. Sec(upper + 1) \in Nat
  BY DEF Sec
<1>2. \A fields : \A text \in TimeText : Format(text, fields, upper) \in TimeText
  BY <1>1, Texts DEF Format
<1> QED  BY <1>2 DEF Formatted, Load

(* A capture has the static loads of its script, then its own. *)
LEMMA CaptureLoads ==
    ASSUME script \in DOMAIN Scripts, Generating, id_count \in Nat
    PROVE  LET upper == UpperRuntime(dyn)
               n     == Len(This.static)
               m     == Len(This.dynamic[dyn])
           IN  /\ Capture \in CapCon
               /\ Capture.CapConID = [number |-> id_count, reset |-> FALSE]
               /\ Capture.duration = Duration(upper)
               /\ Capture.payload \in Seq(Load)
               /\ DOMAIN Capture.payload = 1 .. n + m
               /\ \A i \in 1..n : Capture.payload[i] = Formatted(This.static[i], upper)
               /\ \A i \in n + 1 .. n + m :
                     Capture.payload[i] = Formatted(This.dynamic[dyn][i - n], upper)
<1> DEFINE upper == UpperRuntime(dyn)
           static == This.static
           own == This.dynamic[dyn]
           loads == static \o own
           payload == [i \in DOMAIN loads |-> Formatted(loads[i], upper)]
<1>1. upper \in Nat
  BY UpperIsNat
<1>2. /\ static \in Seq(Load) /\ own \in Seq(Load)
      /\ Len(static) \in Nat /\ Len(own) \in Nat
  BY TypedScript DEF Script
<1>3. Duration(upper) \in Nat
  BY <1>1, TypedScript DEF Duration, Script, Sec
<1>4. Capture = [CapConID |-> [number |-> id_count, reset |-> FALSE],
                 duration |-> Duration(upper), payload |-> payload]
  BY DEF Capture
<1> HIDE DEF upper, static, own
<1>5. /\ loads \in Seq(Load) /\ Len(loads) = Len(static) + Len(own)
      /\ \A i \in 1 .. Len(static) + Len(own) :
            loads[i] = IF i <= Len(static) THEN static[i] ELSE own[i - Len(static)]
  BY <1>2, ConcatProperties
<1> HIDE DEF loads
<1>6. /\ DOMAIN loads = 1 .. Len(static) + Len(own)
      /\ \A i \in DOMAIN loads : loads[i] \in Load
  BY <1>5
<1>7. /\ DOMAIN payload = 1 .. Len(static) + Len(own)
      /\ \A i \in DOMAIN payload : payload[i] = Formatted(loads[i], upper)
      /\ \A i \in DOMAIN payload : payload[i] \in Load
  BY <1>1, <1>6, FormattedLoad
<1>8. payload \in [1 .. Len(static) + Len(own) -> Load]
  BY <1>7
<1> HIDE DEF payload
<1>9. payload \in Seq(Load)
  <2>1. Seq(Load) = UNION {[1..n -> Load] : n \in Nat}
    BY SeqDef, Zenon
  <2>2. Len(static) + Len(own) \in Nat
    BY <1>2
  <2> QED  BY <1>8, <2>1, <2>2, Zenon
<1>10. Capture \in CapCon
  BY <1>3, <1>4, <1>9 DEF CapCon, CapConID
<1>11. /\ \A i \in 1 .. Len(static) : payload[i] = Formatted(static[i], upper)
       /\ \A i \in Len(static) + 1 .. Len(static) + Len(own) :
             payload[i] = Formatted(own[i - Len(static)], upper)
  <2>1. ASSUME NEW i \in 1 .. Len(static)
        PROVE  payload[i] = Formatted(static[i], upper)
    <3>1. i \in 1 .. Len(static) + Len(own) /\ i <= Len(static)
      BY <1>2
    <3>2. loads[i] = static[i]
      BY <1>5, <3>1
    <3> QED  BY <1>7, <3>1, <3>2
  <2>2. ASSUME NEW i \in Len(static) + 1 .. Len(static) + Len(own)
        PROVE  payload[i] = Formatted(own[i - Len(static)], upper)
    <3>1. i \in 1 .. Len(static) + Len(own) /\ ~(i <= Len(static))
      BY <1>2
    <3>2. loads[i] = own[i - Len(static)]
      BY <1>5, <3>1
    <3> QED  BY <1>7, <3>1, <3>2
  <2> QED  BY <2>1, <2>2
<1> QED  BY <1>4, <1>7, <1>9, <1>10, <1>11 DEF upper, static, own

(* Arming a unit delays it by no more than four tenths of a second. *)
LEMMA ArmedInTime ==
    ASSUME ArmDelay <= 4, NEW c \in CapCon, NEW role, NEW i \in DOMAIN c.payload,
           NEW most \in Nat,
           i <= most \/ (i <= most + 1 /\ \E k \in 1..i : role \notin c.payload[k].target),
           Ends(c.payload[i]) + 4 * most + 4 <= c.duration
    PROVE  (ArmedUnits(c, role, i) + 1) * ArmDelay + Ends(c.payload[i]) <= c.duration
<1> DEFINE units == {k \in 1..i : role \in c.payload[k].target}
           n == Cardinality(units)
<1>1. i \in Nat /\ Ends(c.payload[i]) \in Nat /\ c.duration \in Nat
  <2>1. c.payload \in Seq(Load) /\ c.duration \in Nat
    BY DEF CapCon
  <2>2. i \in Nat /\ c.payload[i] \in Load
    BY <2>1
  <2>3. \A load \in Load : Ends(load) \in Nat
    BY DEF Load, TimeText, Ends
  <2> QED  BY <2>1, <2>2, <2>3
<1>2. IsFiniteSet(1..i) /\ Cardinality(1..i) = i
  BY <1>1, FS_Interval
<1>3. n \in Nat /\ n <= i /\ (n = i => units = 1..i)
  BY <1>1, <1>2, FS_Subset, FS_CardinalityType
<1>4. n <= most
  BY <1>1, <1>3
<1> HIDE DEF n
<1>5. (n + 1) * ArmDelay <= 4 * most + 4
  <2>1. ArmDelay = 0 \/ ArmDelay = 1 \/ ArmDelay = 2 \/ ArmDelay = 3 \/ ArmDelay = 4
    BY GeneratorAssumption
  <2> QED  BY <1>3, <1>4, <2>1
<1>6. (n + 1) * ArmDelay \in Nat
  BY <1>3, GeneratorAssumption
<1> QED  BY <1>1, <1>5, <1>6 DEF n, ArmedUnits

(* Few units are armed between two timers, each delaying the second by no  *)
(* more than six tenths of a second.                                       *)
LEMMA ArmedFew ==
    ASSUME ArmDelay <= 6, NEW c, NEW i \in Nat, NEW j \in Nat, NEW most \in Nat,
           NEW few, IsFiniteSet(few), Cardinality(few) <= most,
           \A k \in (i + 1)..j : "server" \in c.payload[k].target => k \in few
    PROVE  /\ ArmedLater(c, i, j) * ArmDelay \in Nat
           /\ ArmedLater(c, i, j) * ArmDelay <= 6 * most
<1> DEFINE units == {k \in (i + 1)..j : "server" \in c.payload[k].target}
           n == Cardinality(units)
<1>1. units \in SUBSET few
  OBVIOUS
<1>2. IsFiniteSet(units) /\ n <= Cardinality(few)
  BY <1>1, FS_Subset
<1>3. n \in Nat /\ n <= most
  <2>1. n \in Nat /\ Cardinality(few) \in Nat
    BY <1>2, FS_CardinalityType
  <2> HIDE DEF n
  <2> QED  BY <1>2, <2>1
<1> HIDE DEF n
<1>4. n * ArmDelay \in Nat /\ n * ArmDelay <= 6 * most
  <2>1. \/ ArmDelay = 0 \/ ArmDelay = 1 \/ ArmDelay = 2 \/ ArmDelay = 3
        \/ ArmDelay = 4 \/ ArmDelay = 5 \/ ArmDelay = 6
    BY GeneratorAssumption
  <2> QED  BY <1>3, <2>1
<1> QED  BY <1>4 DEF n, ArmedLater

LEMMA ThreeAtMost ==
    ASSUME NEW x, NEW y, NEW z
    PROVE  IsFiniteSet({x, y, z}) /\ Cardinality({x, y, z}) <= 3
<1>1. IsFiniteSet({x}) /\ Cardinality({x}) = 1
  BY FS_Singleton
<1>2. IsFiniteSet({x} \cup {y}) /\ Cardinality({x} \cup {y}) \in {1, 2}
  BY <1>1, FS_AddElement
<1> DEFINE two == {x} \cup {y}
<1> HIDE DEF two
<1>3. IsFiniteSet(two \cup {z}) /\ Cardinality(two \cup {z}) \in {1, 2, 3}
  <2>1. IsFiniteSet(two) /\ Cardinality(two) \in {1, 2}
    BY <1>2 DEF two
  <2> QED  BY <2>1, FS_AddElement
<1>4. two \cup {z} = {x, y, z}
  BY DEF two
<1> QED  BY <1>3, <1>4

(* Both properties of a capture, load by load *)
Fits(load, upper, most) ==
    Runnable(Formatted(load, upper)) =>
        Ends(Formatted(load, upper)) + 4 * most + 4 <= Duration(upper)

(* with up to three units of the server armed from the capture to the attack *)
Outlasts(x, y, upper) ==
    "tcpdump_runtime" \in This.limit_fields /\ OnServer(x, "capture") /\ OnServer(y, "attack") =>
        Ends(Formatted(x, upper)) >= 18 + Ends(Formatted(y, upper))

(* What is formatted is a template. *)
LEMMA NamedFields ==
    ASSUME script \in DOMAIN Scripts
    PROVE  "none" \notin This.limit_fields /\ "none" \notin This.offset_fields
BY EveryScript DEF This, Script, Field

(* A log load is over at once, or one second after the runtime. *)
LEMMA FormattedLogs ==
    ASSUME script \in DOMAIN Scripts, NEW load \in LogLoads, NEW upper \in Nat
    PROVE  /\ load.payload_type = "logs" /\ load \in Load
           /\ Runnable(Formatted(load, upper)) =>
                \/ Ends(Formatted(load, upper)) = 12
                \/ /\ "end_of_test_logs" \in This.offset_fields
                   /\ Ends(Formatted(load, upper)) = 10 * upper + 20
<1>1. "none" \notin This.limit_fields /\ "none" \notin This.offset_fields
  BY NamedFields
<1>2. load = Logs(Span(2)) \/ load = ClientLogs \/ load = Logs(Template("end_of_test_logs"))
  BY DEF LogLoads
<1>3. load.payload_type = "logs" /\ load.limits = Span(10)
  BY <1>2 DEF Logs, ClientLogs, Client, genPayload, Sec
<1>4. load.offset = Span(2) \/ load.offset = Template("end_of_test_logs")
  BY <1>2 DEF Logs, ClientLogs, Client, genPayload
<1>5. load \in Load
  BY <1>2, Loads, Texts DEF Logs, ClientLogs
<1>6. Formatted(load, upper).limits = Span(10)
  <2>1. Format(Span(10), This.limit_fields, upper) = Span(10)
    BY <1>1 DEF Format, Span
  <2> QED  BY <1>3, <1>5, <2>1, FormattedLoad
<1>7. CASE "end_of_test_logs" \notin This.offset_fields
  <2>1. Format(load.offset, This.offset_fields, upper) = load.offset
    BY <1>1, <1>4, <1>7 DEF Format, Span, Template
  <2>2. Formatted(load, upper).offset = load.offset
    BY <1>5, <2>1, FormattedLoad
  <2> QED  BY <1>3, <1>4, <1>5, <1>6, <2>2 DEF Runnable, Ends, Span, Template
<1>8. CASE "end_of_test_logs" \in This.offset_fields
  <2>1. \/ Format(load.offset, This.offset_fields, upper) = Span(2)
        \/ Format(load.offset, This.offset_fields, upper) = Span(10 * upper + 10)
    BY <1>1, <1>4, <1>8 DEF Format, Span, Template, Sec
  <2>2. \/ Formatted(load, upper).offset = Span(2)
        \/ Formatted(load, upper).offset = Span(10 * upper + 10)
    BY <1>5, <2>1, FormattedLoad
  <2> QED  BY <1>3, <1>5, <1>6, <1>8, <2>2 DEF Ends, Span
<1> QED  BY <1>7, <1>8

(* Both properties of one capture *)
Sound(c) ==
    /\ ArmDelay <= 4 => EndsInTime(c)
    /\ ArmDelay <= 6 /\ "tcpdump_runtime" \in This.limit_fields => OutlastsAttacks(c)

(* What makes both hold for a script with one capture and one varying load *)
InTime(capture, kinds, upper) ==
    /\ capture \in Load /\ kinds \in SUBSET Load
    /\ capture.payload_type = "capture" /\ Fits(capture, upper, 7)
    /\ \A load \in kinds :
          /\ Fits(load, upper, 7) /\ Outlasts(capture, load, upper)
          /\ load.payload_type = "attack" \/ "server" \notin load.target
    /\ 44 <= Duration(upper)
    /\ "end_of_test_logs" \in This.offset_fields => 10 * upper + 52 <= Duration(upper)

LEMMA VaryingCapture ==
    ASSUME script \in DOMAIN Scripts, Generating, id_count \in Nat,
           NEW capture, NEW kinds, Varies(This, capture, kinds),
           InTime(capture, kinds, UpperRuntime(dyn))
    PROVE  Capture \in CapCon /\ Sound(Capture)
<1> DEFINE upper == UpperRuntime(dyn)
<1> USE DEF InTime
<1>1. UpperRuntime(dyn) \in Nat /\ Duration(upper) \in Nat
  BY UpperIsNat, TypedScript DEF Duration, Script, Sec
<1>2. PICK load \in kinds : This.dynamic[dyn] = <<load>>
  BY DEF Varies, Generating
<1> DEFINE Known == LogLoads \cup {capture, load}
           own == This.dynamic[dyn]
<1>3. /\ Len(This.static) = 6 /\ \A i \in 1..6 : This.static[i] \in Known
      /\ Len(own) = 1 /\ own[1] = load
  BY <1>2 DEF Varies
<1>4. /\ Capture \in CapCon /\ Capture.duration = Duration(upper)
      /\ DOMAIN Capture.payload = 1 .. 6 + 1
      /\ \A i \in 1..6 : Capture.payload[i] = Formatted(This.static[i], upper)
      /\ \A i \in 6 + 1 .. 6 + 1 : Capture.payload[i] = Formatted(own[i - 6], upper)
  BY <1>3, CaptureLoads
<1>5. upper \in Nat
  BY UpperIsNat
<1>6. \A x \in Known : Fits(x, upper, 7) /\ \A y \in Known : Outlasts(x, y, upper)
  <2>1. \A x \in LogLoads : x.payload_type = "logs"
    BY <1>5, FormattedLogs
  <2>2. \A x \in LogLoads : Fits(x, upper, 7)
    BY <1>1, <1>5, FormattedLogs DEF Fits
  <2>3. /\ Fits(load, upper, 7) /\ Outlasts(capture, load, upper)
        /\ load.payload_type = "attack" \/ "server" \notin load.target
    BY <1>2
  <2> QED  BY <2>1, <2>2, <2>3 DEF Outlasts, OnServer
<1>7. \A x \in Known : /\ Formatted(x, upper).payload_type = x.payload_type
                       /\ Formatted(x, upper).target = x.target
  BY DEF Formatted
<1> HIDE DEF upper, Known, own
<1>8. \A i \in 1..7 : \E x \in Known : Capture.payload[i] = Formatted(x, upper)
  <2> SUFFICES ASSUME NEW i \in 1..7
               PROVE  \E x \in Known : Capture.payload[i] = Formatted(x, upper)
    OBVIOUS
  <2>1. CASE i \in 1..6
    BY <1>3, <1>4, <2>1
  <2>2. CASE i = 7
    <3>1. Capture.payload[7] = Formatted(own[7 - 6], upper)
      BY <1>4
    <3>2. load \in Known
      BY DEF Known
    <3> QED  BY <1>3, <2>2, <3>1, <3>2
  <2> QED  BY <2>1, <2>2
<1>9. ASSUME ArmDelay <= 4 PROVE EndsInTime(Capture)
  <2> SUFFICES ASSUME NEW role \in {"client", "server"}, NEW i \in DOMAIN Capture.payload,
                      Runnable(Capture.payload[i])
               PROVE  (ArmedUnits(Capture, role, i) + 1) * ArmDelay + Ends(Capture.payload[i])
                          <= Capture.duration
    BY DEF EndsInTime
  <2>1. PICK x \in Known : Capture.payload[i] = Formatted(x, upper)
    BY <1>4, <1>8
  <2>2. Ends(Capture.payload[i]) + 4 * 7 + 4 <= Capture.duration
    BY <1>4, <1>6, <2>1 DEF Fits
  <2>3. i <= 7 /\ 7 \in Nat
    BY <1>4
  <2> QED  BY <1>4, <1>9, <2>2, <2>3, ArmedInTime
<1>10. ASSUME ArmDelay <= 6, "tcpdump_runtime" \in This.limit_fields
       PROVE  OutlastsAttacks(Capture)
  <2> SUFFICES ASSUME NEW i \in 1..7, NEW j \in 1..7,
                      OnServer(Capture.payload[i], "capture"), OnServer(Capture.payload[j], "attack")
               PROVE  Ends(Capture.payload[i]) >=
                        ArmedLater(Capture, i, j) * ArmDelay + Ends(Capture.payload[j])
    BY <1>4 DEF OutlastsAttacks
  <2>1. PICK x \in Known : Capture.payload[i] = Formatted(x, upper)
    BY <1>8
  <2>2. PICK y \in Known : Capture.payload[j] = Formatted(y, upper)
    BY <1>8
  <2>3. OnServer(x, "capture") /\ OnServer(y, "attack")
    BY <1>7, <2>1, <2>2 DEF OnServer
  <2>4. Ends(Capture.payload[i]) >= 18 + Ends(Capture.payload[j])
    BY <1>6, <1>10, <2>1, <2>2, <2>3 DEF Outlasts
  <2>5. \A k \in (i + 1)..j : "server" \in Capture.payload[k].target => k \in {2, 6, 7}
    <3>1. CASE \A k \in 3..5 : This.static[k] = ClientLogs
      <4>1. \A k \in 3..5 : Capture.payload[k] = Formatted(ClientLogs, upper)
        BY <1>4, <3>1
      <4>2. "server" \notin Formatted(ClientLogs, upper).target
        BY DEF Formatted, ClientLogs, Client, genPayload
      <4> QED  BY <4>1, <4>2
    <3>2. CASE \A k \in 1..5 : This.static[k] \in LogLoads
      <4>1. \A one \in LogLoads : one \in Known /\ one.payload_type = "logs"
        <5>1. \A one \in LogLoads : one \in Known
          BY DEF Known
        <5>2. \A one \in LogLoads : one.payload_type = "logs"
          BY <1>5, FormattedLogs
        <5> QED  BY <5>1, <5>2
      <4>2. \A k \in 1..5 : Capture.payload[k] = Formatted(This.static[k], upper)
        BY <1>4
      <4>3. \A k \in 1..5 : Capture.payload[k].payload_type = "logs"
        <5> SUFFICES ASSUME NEW k \in 1..5 PROVE Capture.payload[k].payload_type = "logs"
          OBVIOUS
        <5> DEFINE one == This.static[k]
        <5>1. one \in LogLoads /\ Capture.payload[k] = Formatted(one, upper)
          BY <3>2, <4>2
        <5> HIDE DEF one
        <5>2. one \in Known /\ one.payload_type = "logs"
          BY <4>1, <5>1
        <5> QED  BY <1>7, <5>1, <5>2
      <4> QED  BY <4>3 DEF OnServer
    <3> QED  BY <3>1, <3>2 DEF Varies
  <2>6. Ends(Capture.payload[i]) \in Nat /\ Ends(Capture.payload[j]) \in Nat
    <3>1. Capture.payload[i] \in Load /\ Capture.payload[j] \in Load
      BY <1>4, PayloadIsLoad
    <3> QED  BY <3>1 DEF Load, TimeText, Ends
  <2>7. /\ ArmedLater(Capture, i, j) * ArmDelay \in Nat
        /\ ArmedLater(Capture, i, j) * ArmDelay <= 6 * 3
    <3>1. IsFiniteSet({2, 6, 7}) /\ Cardinality({2, 6, 7}) <= 3
      BY ThreeAtMost
    <3>2. i \in Nat /\ j \in Nat /\ 3 \in Nat
      OBVIOUS
    <3> QED  BY <1>10, <2>5, <3>1, <3>2, ArmedFew
  <2> QED  BY <2>4, <2>6, <2>7
<1> QED  BY <1>4, <1>9, <1>10 DEF Sound

LEMMA EttercapCapture ==
    ASSUME script = "ettercap", Generating, id_count \in Nat
    PROVE  Capture \in CapCon /\ Sound(Capture)
<1> DEFINE mitm == Server("attack", Span(Sec(231)), Span(5))
           upper == UpperRuntime(dyn)
<1>1. This = ettercap /\ script \in DOMAIN Scripts
  BY DEF This, Scripts
<1>2. mitm \in Load /\ FirstCapture \in Load
  BY Loads, Texts DEF FirstCapture
<1>3. Varies(This, FirstCapture, {mitm})
  BY <1>1, Ettercap
<1>4. upper = 232
  <2>1. This.dynamic[dyn] = <<mitm>>
    BY <1>3 DEF Varies, Generating
  <2>2. This.dynamic[dyn][1].limits = Span(2310)
    BY <2>1 DEF Server, Client, genPayload, Sec
  <2> QED  BY <1>1, <2>2 DEF UpperRuntime, Span
<1> HIDE DEF upper
<1>5. Duration(upper) = 2370
  BY <1>1, <1>4 DEF Duration, ettercap, Sec
<1>6. mitm.payload_type = "attack" /\ Ends(Formatted(mitm, upper)) = 2315
  BY <1>1 DEF ettercap, Server, Client, genPayload, Span, Template, Sec, Ends,
     Formatted, Format
<1>7. FirstCapture.payload_type = "capture" /\ Ends(Formatted(FirstCapture, upper)) = 2335
  BY <1>1, <1>4 DEF FirstCapture, ettercap, Server, Client, genPayload, Span, Template,
     Sec, Ends, Formatted, Format
<1>8. "end_of_test_logs" \notin This.offset_fields
  BY <1>1 DEF ettercap
<1> HIDE DEF mitm
<1>9. \A load \in {mitm, FirstCapture} : Fits(load, upper, 7)
  BY <1>5, <1>6, <1>7 DEF Fits
<1>10. \A load \in {mitm} :
        /\ Outlasts(FirstCapture, load, upper)
        /\ load.payload_type = "attack" \/ "server" \notin load.target
  BY <1>6, <1>7, <1>8 DEF Outlasts
<1>11. InTime(FirstCapture, {mitm}, upper)
  <2>1. {mitm} \in SUBSET Load /\ FirstCapture \in Load /\ FirstCapture.payload_type = "capture"
    BY <1>2, <1>7
  <2>2. 44 <= Duration(upper)
    BY <1>5
  <2>3. "end_of_test_logs" \in This.offset_fields => 10 * upper + 52 <= Duration(upper)
    BY <1>8
  <2>4. Fits(FirstCapture, upper, 7) /\ \A load \in {mitm} : Fits(load, upper, 7)
    BY <1>9
  <2> QED  BY <1>10, <2>1, <2>2, <2>3, <2>4 DEF InTime
<1> QED  BY <1>1, <1>3, <1>11, VaryingCapture DEF upper

LEMMA BruteforceCapture ==
    ASSUME script = "bruteforce", Generating, id_count \in Nat
    PROVE  Capture \in CapCon /\ Sound(Capture)
<1> DEFINE late == Server("attack", Span(Sec(305)), Span(5))
           early == Server("attack", Span(Sec(305)), Span(2))
           capture == Server("capture", Template("tcpdump_runtime"), Span(4))
           upper == UpperRuntime(dyn)
<1>1. This = bruteforce /\ script \in DOMAIN Scripts
  BY DEF This, Scripts
<1>2. late \in Load /\ early \in Load /\ capture \in Load
  BY Loads, Texts
<1>3. Varies(This, capture, {late, early})
  BY <1>1, Bruteforce
<1>4. upper = 306
  <2>1. This.dynamic[dyn] = <<late>> \/ This.dynamic[dyn] = <<early>>
    BY <1>3 DEF Varies, Generating
  <2>2. This.dynamic[dyn][1].limits = Span(3050)
    BY <2>1 DEF Server, Client, genPayload, Sec
  <2> QED  BY <1>1, <2>2 DEF UpperRuntime, Span
<1> HIDE DEF upper
<1>5. Duration(upper) = 3110
  BY <1>1, <1>4 DEF Duration, bruteforce, Sec
<1>6. late.payload_type = "attack" /\ Ends(Formatted(late, upper)) = 3055
  BY <1>1 DEF bruteforce, Server, Client, genPayload, Span, Template, Sec, Ends,
     Formatted, Format
<1>7. early.payload_type = "attack" /\ Ends(Formatted(early, upper)) = 3052
  BY <1>1 DEF bruteforce, Server, Client, genPayload, Span, Template, Sec, Ends,
     Formatted, Format
<1>8. capture.payload_type = "capture" /\ Ends(Formatted(capture, upper)) = 3074
  BY <1>1, <1>4 DEF bruteforce, Server, Client, genPayload, Span, Template, Sec, Ends,
     Formatted, Format
<1>9. "end_of_test_logs" \notin This.offset_fields
  BY <1>1 DEF bruteforce
<1> HIDE DEF late, early, capture
<1>10. \A load \in {late, early, capture} : Fits(load, upper, 7)
  BY <1>5, <1>6, <1>7, <1>8 DEF Fits
<1>11. \A load \in {late, early} :
        /\ Outlasts(capture, load, upper)
        /\ load.payload_type = "attack" \/ "server" \notin load.target
  BY <1>6, <1>7, <1>8, <1>9 DEF Outlasts
<1>12. InTime(capture, {late, early}, upper)
  <2>1. {late, early} \in SUBSET Load /\ capture \in Load /\ capture.payload_type = "capture"
    BY <1>2, <1>8
  <2>2. 44 <= Duration(upper)
    BY <1>5
  <2>3. "end_of_test_logs" \in This.offset_fields => 10 * upper + 52 <= Duration(upper)
    BY <1>9
  <2>4. Fits(capture, upper, 7) /\ \A load \in {late, early} : Fits(load, upper, 7)
    BY <1>10
  <2> QED  BY <1>11, <2>1, <2>2, <2>3, <2>4 DEF InTime
<1> QED  BY <1>1, <1>3, <1>12, VaryingCapture DEF upper

LEMMA FloodCapture ==
    ASSUME script = "flood", Generating, id_count \in Nat
    PROVE  Capture \in CapCon /\ Sound(Capture)
<1> DEFINE attack == Server("attack", Span(Sec(65)), Span(5))
           capture == Server("capture", Span(Sec(65)), Span(5))
           upper == UpperRuntime(dyn)
<1>1. This = flood /\ script \in DOMAIN Scripts
  BY DEF This, Scripts
<1>2. attack \in Load /\ capture \in Load
  BY Loads, Texts
<1>3. Varies(This, capture, {attack})
  BY <1>1, Flood
<1>4. upper = 66
  <2>1. This.dynamic[dyn] = <<attack>>
    BY <1>3 DEF Varies, Generating
  <2>2. This.dynamic[dyn][1].limits = Span(650)
    BY <2>1 DEF Server, Client, genPayload, Sec
  <2> QED  BY <1>1, <2>2 DEF UpperRuntime, Span
<1> HIDE DEF upper
<1>5. Duration(upper) = 700
  BY <1>1, <1>4 DEF Duration, flood, Sec
<1>6. attack.payload_type = "attack" /\ Ends(Formatted(attack, upper)) = 655
  BY <1>1 DEF flood, Server, Client, genPayload, Span, Template, Sec, Ends, Formatted,
     Format
<1>7. capture.payload_type = "capture" /\ Ends(Formatted(capture, upper)) = 655
  BY <1>1, <1>4 DEF flood, Server, Client, genPayload, Span, Template, Sec, Ends,
     Formatted, Format
<1>8. "end_of_test_logs" \notin This.offset_fields /\ This.limit_fields = {}
  BY <1>1 DEF flood
<1> HIDE DEF attack, capture
<1>9. \A load \in {attack, capture} : Fits(load, upper, 7)
  BY <1>5, <1>6, <1>7 DEF Fits
<1>10. \A load \in {attack} :
        /\ Outlasts(capture, load, upper)
        /\ load.payload_type = "attack" \/ "server" \notin load.target
  BY <1>6, <1>7, <1>8 DEF Outlasts
<1>11. InTime(capture, {attack}, upper)
  <2>1. {attack} \in SUBSET Load /\ capture \in Load /\ capture.payload_type = "capture"
    BY <1>2, <1>7
  <2>2. 44 <= Duration(upper)
    BY <1>5
  <2>3. "end_of_test_logs" \in This.offset_fields => 10 * upper + 52 <= Duration(upper)
    BY <1>8
  <2>4. Fits(capture, upper, 7) /\ \A load \in {attack} : Fits(load, upper, 7)
    BY <1>9
  <2> QED  BY <1>10, <2>1, <2>2, <2>3, <2>4 DEF InTime
<1> QED  BY <1>1, <1>3, <1>11, VaryingCapture DEF upper

LEMMA OpcCapture ==
    ASSUME script = "opc", Generating, id_count \in Nat
    PROVE  Capture \in CapCon /\ Sound(Capture)
<1> DEFINE attack == Server("attack", Span(Sec(205)), Span(5))
           capture == Server("capture", Span(Sec(205)), Span(5))
           upper == UpperRuntime(dyn)
<1>1. This = opc /\ script \in DOMAIN Scripts
  BY DEF This, Scripts
<1>2. attack \in Load /\ capture \in Load
  BY Loads, Texts
<1>3. Varies(This, capture, {attack})
  BY <1>1, Opc
<1>4. upper = 206
  <2>1. This.dynamic[dyn] = <<attack>>
    BY <1>3 DEF Varies, Generating
  <2>2. This.dynamic[dyn][1].limits = Span(2050)
    BY <2>1 DEF Server, Client, genPayload, Sec
  <2> QED  BY <1>1, <2>2 DEF UpperRuntime, Span
<1> HIDE DEF upper
<1>5. Duration(upper) = 2100
  BY <1>1, <1>4 DEF Duration, opc, Sec
<1>6. attack.payload_type = "attack" /\ Ends(Formatted(attack, upper)) = 2055
  BY <1>1 DEF opc, Server, Client, genPayload, Span, Template, Sec, Ends, Formatted, Format
<1>7. capture.payload_type = "capture" /\ Ends(Formatted(capture, upper)) = 2055
  BY <1>1, <1>4 DEF opc, Server, Client, genPayload, Span, Template, Sec, Ends,
     Formatted, Format
<1>8. "end_of_test_logs" \notin This.offset_fields /\ This.limit_fields = {}
  BY <1>1 DEF opc
<1> HIDE DEF attack, capture
<1>9. \A load \in {attack, capture} : Fits(load, upper, 7)
  BY <1>5, <1>6, <1>7 DEF Fits
<1>10. \A load \in {attack} :
        /\ Outlasts(capture, load, upper)
        /\ load.payload_type = "attack" \/ "server" \notin load.target
  BY <1>6, <1>7, <1>8 DEF Outlasts
<1>11. InTime(capture, {attack}, upper)
  <2>1. {attack} \in SUBSET Load /\ capture \in Load /\ capture.payload_type = "capture"
    BY <1>2, <1>7
  <2>2. 44 <= Duration(upper)
    BY <1>5
  <2>3. "end_of_test_logs" \in This.offset_fields => 10 * upper + 52 <= Duration(upper)
    BY <1>8
  <2>4. Fits(capture, upper, 7) /\ \A load \in {attack} : Fits(load, upper, 7)
    BY <1>9
  <2> QED  BY <1>10, <2>1, <2>2, <2>3, <2>4 DEF InTime
<1> QED  BY <1>1, <1>3, <1>11, VaryingCapture DEF upper

LEMMA BaselinePerfCapture ==
    ASSUME script = "baseline_perf", Generating, id_count \in Nat
    PROVE  Capture \in CapCon /\ Sound(Capture)
<1> DEFINE perf == Client("capture", Span(Sec(302)), Span(5))
           upper == UpperRuntime(dyn)
<1>1. This = baseline_perf /\ script \in DOMAIN Scripts
  BY DEF This, Scripts
<1>2. perf \in Load /\ FirstCapture \in Load
  BY Loads, Texts DEF FirstCapture
<1>3. Varies(This, FirstCapture, {perf})
  BY <1>1, BaselinePerf
<1>4. upper = 303
  <2>1. This.dynamic[dyn] = <<perf>>
    BY <1>3 DEF Varies, Generating
  <2>2. This.dynamic[dyn][1].limits = Span(3020)
    BY <2>1 DEF Server, Client, genPayload, Sec
  <2> QED  BY <1>1, <2>2 DEF UpperRuntime, Span
<1> HIDE DEF upper
<1>5. Duration(upper) = 3100
  BY <1>1, <1>4 DEF Duration, baseline_perf, Sec
<1>6. perf.payload_type = "capture" /\ Ends(Formatted(perf, upper)) = 3025
  BY <1>1 DEF baseline_perf, Server, Client, genPayload, Span, Template, Sec, Ends,
     Formatted, Format
<1>7. FirstCapture.payload_type = "capture" /\ Ends(Formatted(FirstCapture, upper)) = 3045
  BY <1>1, <1>4 DEF FirstCapture, baseline_perf, Server, Client, genPayload, Span,
     Template, Sec, Ends, Formatted, Format
<1>8. "server" \notin perf.target
  BY DEF Client, genPayload
<1> HIDE DEF perf
<1>9. \A load \in {perf, FirstCapture} : Fits(load, upper, 7)
  BY <1>5, <1>6, <1>7 DEF Fits
<1>10. \A load \in {perf} :
        /\ Outlasts(FirstCapture, load, upper)
        /\ load.payload_type = "attack" \/ "server" \notin load.target
  BY <1>6, <1>7, <1>8 DEF Outlasts, OnServer
<1>11. InTime(FirstCapture, {perf}, upper)
  <2>1. {perf} \in SUBSET Load /\ FirstCapture \in Load /\ FirstCapture.payload_type = "capture"
    BY <1>2, <1>7
  <2>2. 44 <= Duration(upper)
    BY <1>5
  <2>3. "end_of_test_logs" \in This.offset_fields => 10 * upper + 52 <= Duration(upper)
    BY <1>4, <1>5
  <2>4. Fits(FirstCapture, upper, 7) /\ \A load \in {perf} : Fits(load, upper, 7)
    BY <1>9
  <2> QED  BY <1>10, <2>1, <2>2, <2>3, <2>4 DEF InTime
<1> QED  BY <1>1, <1>3, <1>11, VaryingCapture DEF upper

LEMMA CapcontrolCapture ==
    ASSUME script = "capcontrol", Generating, id_count \in Nat
    PROVE  Capture \in CapCon /\ Sound(Capture)
<1> DEFINE upper == UpperRuntime(dyn)
           own == This.dynamic[dyn]
<1>1. This = capcontrol /\ script \in DOMAIN Scripts
  BY DEF This, Scripts
<1>2. upper = 220 /\ Duration(upper) = 2250
  BY <1>1 DEF UpperRuntime, Duration, capcontrol, Sec
<1>3. /\ Len(This.static) = 6 /\ This.static[6] = FirstCapture
      /\ \A i \in 1..5 : This.static[i] \in LogLoads
      /\ Len(own) = 6 /\ \A i \in 1..6 : C2Load(own[i]) /\ own[i] \in Load
  BY <1>1, Capcontrol, TypedScript DEF Generating
<1>4. /\ Capture \in CapCon /\ Capture.duration = Duration(upper)
      /\ DOMAIN Capture.payload = 1 .. 6 + 6
      /\ \A i \in 1..6 : Capture.payload[i] = Formatted(This.static[i], upper)
      /\ \A i \in 6 + 1 .. 6 + 6 : Capture.payload[i] = Formatted(own[i - 6], upper)
  BY <1>1, <1>3, CaptureLoads
<1> HIDE DEF upper, own
<1>5. \A i \in 1..5 : /\ Capture.payload[i].payload_type = "logs"
                      /\ Runnable(Capture.payload[i]) => Ends(Capture.payload[i]) = 12
  <2> SUFFICES ASSUME NEW i \in 1..5
               PROVE  /\ Capture.payload[i].payload_type = "logs"
                      /\ Runnable(Capture.payload[i]) => Ends(Capture.payload[i]) = 12
    OBVIOUS
  <2> DEFINE load == This.static[i]
  <2>1. load \in LogLoads /\ Capture.payload[i] = Formatted(load, upper)
    BY <1>3, <1>4
  <2>2. "end_of_test_logs" \notin This.offset_fields /\ upper \in Nat
    BY <1>1, <1>2 DEF capcontrol
  <2> HIDE DEF load
  <2>3. /\ load.payload_type = "logs" /\ load \in Load
        /\ Runnable(Formatted(load, upper)) => Ends(Formatted(load, upper)) = 12
    BY <1>1, <2>1, <2>2, FormattedLogs
  <2>4. Formatted(load, upper).payload_type = load.payload_type
    BY <2>2, <2>3, FormattedLoad
  <2> QED  BY <2>1, <2>3, <2>4
<1>6. /\ Capture.payload[6].payload_type = "capture"
      /\ Ends(Capture.payload[6]) = 2215
  <2>1. Capture.payload[6] = Formatted(FirstCapture, upper)
    BY <1>3, <1>4
  <2> QED  BY <1>1, <1>2, <2>1 DEF capcontrol, FirstCapture, Server, genPayload, Span,
              Template,
                                  Sec, Ends, Formatted, Format
<1>7. \A i \in 7..12 : /\ Capture.payload[i].payload_type = "attack"
                       /\ Ends(Capture.payload[i]) <= 2050
  <2> SUFFICES ASSUME NEW i \in 7..12
               PROVE  /\ Capture.payload[i].payload_type = "attack"
                      /\ Ends(Capture.payload[i]) <= 2050
    OBVIOUS
  <2> DEFINE load == own[i - 6]
  <2>1. C2Load(load) /\ load \in Load /\ Capture.payload[i] = Formatted(load, upper)
    BY <1>3, <1>4
  <2> HIDE DEF load
  <2>2. /\ Format(load.limits, This.limit_fields, upper) = load.limits
        /\ Format(load.offset, This.offset_fields, upper) = load.offset
    BY <1>1, <2>1, NamedFields DEF C2Load, Format
  <2>3. /\ Formatted(load, upper).payload_type = load.payload_type
        /\ Ends(Formatted(load, upper)) = Ends(load)
    BY <1>2, <2>1, <2>2, FormattedLoad DEF Ends
  <2> QED  BY <2>1, <2>3 DEF C2Load, Sec
<1>8. ASSUME ArmDelay <= 4 PROVE EndsInTime(Capture)
  <2> SUFFICES ASSUME NEW role \in {"client", "server"}, NEW i \in DOMAIN Capture.payload,
                      Runnable(Capture.payload[i])
               PROVE  (ArmedUnits(Capture, role, i) + 1) * ArmDelay + Ends(Capture.payload[i])
                          <= Capture.duration
    BY DEF EndsInTime
  <2>1. i \in 1..12 /\ Ends(Capture.payload[i]) \in Int
    <3>1. i \in 1..12
      BY <1>4
    <3>2. Capture.payload[i] \in Load
      BY <1>4, PayloadIsLoad
    <3> QED  BY <3>1, <3>2 DEF Load, TimeText, Ends
  <2>2. CASE i \in 1..6
    <3>1. i <= 6 /\ 6 \in Nat /\ Ends(Capture.payload[i]) + 4 * 6 + 4 <= Capture.duration
      BY <1>2, <1>4, <1>5, <1>6, <2>1, <2>2
    <3> QED  BY <1>4, <1>8, <3>1, ArmedInTime
  <2>3. CASE i \in 7..12
    <3>1. i <= 12 /\ 12 \in Nat /\ Ends(Capture.payload[i]) + 4 * 12 + 4 <= Capture.duration
      BY <1>2, <1>4, <1>7, <2>1, <2>3
    <3> QED  BY <1>4, <1>8, <3>1, ArmedInTime
  <2> QED  BY <2>1, <2>2, <2>3
<1>9. ASSUME ArmDelay <= 6 PROVE OutlastsAttacks(Capture)
  <2> SUFFICES ASSUME NEW i \in 1..12, NEW j \in 1..12,
                      OnServer(Capture.payload[i], "capture"), OnServer(Capture.payload[j], "attack")
               PROVE  Ends(Capture.payload[i]) >=
                        ArmedLater(Capture, i, j) * ArmDelay + Ends(Capture.payload[j])
    BY <1>4 DEF OutlastsAttacks
  <2>1. i = 6 /\ j \in 7..12
    BY <1>5, <1>6, <1>7 DEF OnServer
  <2>2. Ends(Capture.payload[j]) \in Int
    <3>1. Capture.payload[j] \in Load
      BY <1>4, PayloadIsLoad
    <3> QED  BY <3>1 DEF Load, TimeText, Ends
  <2>3. IsFiniteSet(7..12) /\ Cardinality(7..12) <= 6
    <3>1. 7 \in Int /\ 12 \in Int
      OBVIOUS
    <3>2. IsFiniteSet(7..12) /\ Cardinality(7..12) = IF 7 > 12 THEN 0 ELSE 12 - 7 + 1
      BY <3>1, FS_Interval
    <3> QED  BY <3>2
  <2>4. \A k \in (i + 1)..j : k \in 7..12
    BY <2>1
  <2>5. /\ ArmedLater(Capture, i, j) * ArmDelay \in Nat
        /\ ArmedLater(Capture, i, j) * ArmDelay <= 6 * 6
    <3>1. i \in Nat /\ j \in Nat /\ 6 \in Nat
      OBVIOUS
    <3> QED  BY <1>9, <2>3, <2>4, <3>1, ArmedFew
  <2> QED  BY <1>6, <1>7, <2>1, <2>2, <2>5
<1> QED  BY <1>4, <1>8, <1>9 DEF Sound

(* The last log payload of nmap is in time because each machine leaves out *)
(* the capture of the other one.                                           *)
LEMMA NmapCapture ==
    ASSUME script = "nmap", Generating, id_count \in Nat
    PROVE  Capture \in CapCon /\ Sound(Capture)
<1> DEFINE upper == UpperRuntime(dyn)
           own == This.dynamic[dyn]
           tcpdump == Server("capture", Template("tcpdump_runtime"), Span(4))
           perf == Client("capture", Template("perf_runtime"), Span(5))
<1>1. This = nmap /\ script \in DOMAIN Scripts
  BY DEF This, Scripts
<1>2. /\ Len(This.static) = 7 /\ This.static[1] = tcpdump /\ This.static[2] = perf
      /\ \A i \in 3..7 : This.static[i] \in LogLoads
      /\ \A i \in 4..6 : This.static[i] = ClientLogs
  BY <1>1, Nmap
<1>3. PICK n \in Nat : own = <<Server("attack", Span(Sec(n)), Span(5))>>
  BY <1>1, Nmap DEF Generating
<1> DEFINE scan == Server("attack", Span(Sec(n)), Span(5))
<1>4. Len(own) = 1 /\ own[1] = scan
  BY <1>3
<1>5. upper = n + 1 /\ upper \in Nat /\ Duration(upper) = 10 * n + 60
  <2>1. own[1].limits.span = 10 * n
    BY <1>4 DEF Server, genPayload, Span, Sec
  <2>2. (10 * n) \div 10 = n
    OBVIOUS
  <2>3. upper = n + 1
    BY <1>1, <2>1, <2>2 DEF UpperRuntime
  <2> QED  BY <1>1, <2>3 DEF Duration, nmap, Sec
<1>6. /\ Capture \in CapCon /\ Capture.duration = Duration(upper)
      /\ DOMAIN Capture.payload = 1 .. 7 + 1
      /\ \A i \in 1..7 : Capture.payload[i] = Formatted(This.static[i], upper)
      /\ \A i \in 7 + 1 .. 7 + 1 : Capture.payload[i] = Formatted(own[i - 7], upper)
  BY <1>1, <1>2, <1>4, CaptureLoads
<1> HIDE DEF upper, own
<1>7. /\ Capture.payload[1].target = {"server"}
      /\ Capture.payload[1].payload_type = "capture"
      /\ Ends(Capture.payload[1]) = 10 * n + 24
  <2>1. Capture.payload[1] = Formatted(tcpdump, upper)
    BY <1>2, <1>6
  <2> QED  BY <1>1, <1>5, <2>1 DEF nmap, Server, genPayload, Span, Template, Sec, Ends,
                                  Formatted, Format
<1>8. /\ Capture.payload[2].target = {"client"}
      /\ Capture.payload[2].payload_type = "capture"
      /\ Ends(Capture.payload[2]) = 10 * n + 25
  <2>1. Capture.payload[2] = Formatted(perf, upper)
    BY <1>2, <1>6
  <2> QED  BY <1>1, <1>5, <2>1 DEF nmap, Client, genPayload, Span, Template, Sec, Ends,
                                  Formatted, Format
<1>9. \A i \in 3..7 : /\ Capture.payload[i].payload_type = "logs"
                      /\ Runnable(Capture.payload[i]) => Ends(Capture.payload[i]) <= 10 * n + 30
  <2> SUFFICES ASSUME NEW i \in 3..7
               PROVE  /\ Capture.payload[i].payload_type = "logs"
                      /\ Runnable(Capture.payload[i]) => Ends(Capture.payload[i]) <= 10 * n + 30
    OBVIOUS
  <2> DEFINE load == This.static[i]
  <2>1. load \in LogLoads /\ Capture.payload[i] = Formatted(load, upper)
    BY <1>2, <1>6
  <2> HIDE DEF load
  <2>2. /\ load.payload_type = "logs" /\ load \in Load
        /\ Runnable(Formatted(load, upper)) =>
              \/ Ends(Formatted(load, upper)) = 12
              \/ Ends(Formatted(load, upper)) = 10 * upper + 20
    BY <1>1, <1>5, <2>1, FormattedLogs
  <2>3. Formatted(load, upper).payload_type = load.payload_type
    BY <1>5, <2>2, FormattedLoad
  <2> QED  BY <1>5, <2>1, <2>2, <2>3
<1>10. Capture.payload[8].payload_type = "attack" /\ Ends(Capture.payload[8]) = 10 * n + 5
  <2>1. Capture.payload[8] = Formatted(own[8 - 7], upper)
    BY <1>6
  <2>2. Capture.payload[8] = Formatted(scan, upper)
    BY <1>4, <2>1
  <2> QED  BY <1>1, <2>2 DEF nmap, Server, genPayload, Span, Sec, Ends, Formatted, Format
<1>11. \A i \in 1..8 : Ends(Capture.payload[i]) \in Nat
  <2>1. \A i \in 1..8 : Capture.payload[i] \in Load
    BY <1>6, PayloadIsLoad
  <2> QED  BY <2>1 DEF Load, TimeText, Ends
<1>12. ASSUME ArmDelay <= 4 PROVE EndsInTime(Capture)
  <2> SUFFICES ASSUME NEW role \in {"client", "server"}, NEW i \in DOMAIN Capture.payload,
                      Runnable(Capture.payload[i])
               PROVE  (ArmedUnits(Capture, role, i) + 1) * ArmDelay + Ends(Capture.payload[i])
                          <= Capture.duration
    BY DEF EndsInTime
  <2>1. i \in 1..8 /\ Capture.duration = 10 * n + 60
    BY <1>5, <1>6
  <2>2. CASE i \in 1..2
    <3>1. i <= 2 /\ 2 \in Nat /\ Ends(Capture.payload[i]) + 4 * 2 + 4 <= Capture.duration
      BY <1>7, <1>8, <2>1, <2>2
    <3> QED  BY <1>6, <1>12, <3>1, ArmedInTime
  <2>3. CASE i \in 3..7
    <3>1. i <= 6 + 1 /\ 6 \in Nat /\ Ends(Capture.payload[i]) + 4 * 6 + 4 <= Capture.duration
      BY <1>9, <1>11, <2>1, <2>3
    <3>2. \E k \in 1..i : role \notin Capture.payload[k].target
      <4>1. 1 \in 1..i /\ 2 \in 1..i
        BY <2>3
      <4>2. CASE role = "client"
        BY <1>7, <4>1, <4>2
      <4>3. CASE role = "server"
        BY <1>8, <4>1, <4>3
      <4> QED  BY <4>2, <4>3
    <3> QED  BY <1>6, <1>12, <3>1, <3>2, ArmedInTime
  <2>4. CASE i = 8
    <3>1. i <= 8 /\ 8 \in Nat /\ Ends(Capture.payload[i]) + 4 * 8 + 4 <= Capture.duration
      BY <1>10, <2>1, <2>4
    <3> QED  BY <1>6, <1>12, <3>1, ArmedInTime
  <2> QED  BY <2>1, <2>2, <2>3, <2>4
<1>13. ASSUME ArmDelay <= 6 PROVE OutlastsAttacks(Capture)
  <2> SUFFICES ASSUME NEW i \in 1..8, NEW j \in 1..8,
                      OnServer(Capture.payload[i], "capture"), OnServer(Capture.payload[j], "attack")
               PROVE  Ends(Capture.payload[i]) >=
                        ArmedLater(Capture, i, j) * ArmDelay + Ends(Capture.payload[j])
    BY <1>6 DEF OutlastsAttacks
  <2>1. i = 1 /\ j = 8
    BY <1>7, <1>8, <1>9, <1>10 DEF OnServer
  <2>2. \A k \in (i + 1)..j : "server" \in Capture.payload[k].target => k \in {3, 7, 8}
    <3>1. \A k \in 4..6 : Capture.payload[k] = Formatted(ClientLogs, upper)
      BY <1>2, <1>6
    <3>2. "server" \notin Formatted(ClientLogs, upper).target
      BY DEF Formatted, ClientLogs, Client, genPayload
    <3> QED  BY <1>8, <2>1, <3>1, <3>2
  <2>3. /\ ArmedLater(Capture, i, j) * ArmDelay \in Nat
        /\ ArmedLater(Capture, i, j) * ArmDelay <= 6 * 3
    <3>1. IsFiniteSet({3, 7, 8}) /\ Cardinality({3, 7, 8}) <= 3
      BY ThreeAtMost
    <3>2. i \in Nat /\ j \in Nat /\ 3 \in Nat
      OBVIOUS
    <3> QED  BY <1>13, <2>2, <3>1, <3>2, ArmedFew
  <2> QED  BY <1>7, <1>10, <2>1, <2>3
<1> QED  BY <1>6, <1>12, <1>13 DEF Sound

(* The captures of every script *)
LEMMA SoundCapture ==
    ASSUME script \in DOMAIN Scripts, Generating, id_count \in Nat
    PROVE  /\ Capture \in CapCon /\ Sound(Capture)
           /\ Capture.CapConID = [number |-> id_count, reset |-> FALSE]
<1>1. \/ script = "baseline_perf" \/ script = "bruteforce" \/ script = "capcontrol"
      \/ script = "ettercap" \/ script = "flood" \/ script = "nmap" \/ script = "opc"
  BY DEF Scripts
<1>2. Capture \in CapCon /\ Sound(Capture)
  BY <1>1, BaselinePerfCapture, BruteforceCapture, CapcontrolCapture, EttercapCapture,
     FloodCapture, NmapCapture, OpcCapture
<1> QED  BY <1>2 DEF Capture

(* The reset of the testbed *)
LEMMA SoundReset ==
    ASSUME script \in DOMAIN Scripts, id_count \in Nat
    PROVE  /\ ConfigReset \in CapCon
           /\ ArmDelay <= 4 => EndsInTime(ConfigReset)
           /\ ConfigReset.CapConID = [number |-> id_count, reset |-> TRUE]
<1>1. This \in Script
  BY EveryScript DEF This
<1>2. This.reset_duration \in Nat /\ This.reset_duration >= 350
  BY <1>1 DEF Script, Sec
<1>3. /\ config_payload \in Load /\ Ends(config_payload) = 302
  <2>1. config_payload \in Load
    BY Loads, Texts DEF config_payload
  <2> QED  BY <2>1 DEF config_payload, Client, genPayload, Ends, Span, Sec
<1> DEFINE one == <<config_payload>>
<1>4. one \in Seq(Load) /\ DOMAIN one = 1..1 /\ one[1] = config_payload
  BY <1>3
<1> HIDE DEF one
<1>5. /\ ConfigReset \in CapCon /\ ConfigReset.payload = one
      /\ ConfigReset.duration = This.reset_duration
  BY <1>2, <1>4 DEF ConfigReset, CapCon, CapConID, one
<1>6. ASSUME ArmDelay <= 4 PROVE EndsInTime(ConfigReset)
  <2> SUFFICES ASSUME NEW role \in {"client", "server"}, NEW i \in DOMAIN ConfigReset.payload
               PROVE  (ArmedUnits(ConfigReset, role, i) + 1) * ArmDelay
                          + Ends(ConfigReset.payload[i]) <= ConfigReset.duration
    BY DEF EndsInTime
  <2>1. i = 1 /\ 1 \in Nat /\ ConfigReset.payload[i] = config_payload
    BY <1>4, <1>5
  <2>2. i <= 1 /\ Ends(ConfigReset.payload[i]) + 4 * 1 + 4 <= ConfigReset.duration
    BY <1>2, <1>3, <1>5, <2>1
  <2> QED  BY <1>5, <1>6, <2>1, <2>2, ArmedInTime
<1> QED  BY <1>5, <1>6 DEF ConfigReset

-----------------------------------------------------------------------------
(* One round of the loops *)
LEMMA Round ==
    ASSUME GeneratorTypeOK, NextCapCon
    PROVE  LET n == Len(capture_configurations)
           IN  /\ n \in Nat /\ capture_configurations' \in Seq(CapCon)
               /\ \A i \in 1..n : capture_configurations'[i] = capture_configurations[i]
               /\ capture_configurations'[n + 1] = Capture
               /\ \/ /\ ResetDue(id_count + 1) /\ Len(capture_configurations') = n + 2
                     /\ capture_configurations'[n + 2] = ConfigReset
                  \/ ~ResetDue(id_count + 1) /\ Len(capture_configurations') = n + 1
               /\ id_count' = id_count + 1 /\ script' = script /\ This' = This
<1> DEFINE old == capture_configurations
           one == <<Capture>>
           two == <<Capture, ConfigReset>>
<1>1. /\ script \in DOMAIN Scripts /\ id_count \in Nat /\ old \in Seq(CapCon) /\ Generating
  BY DEF GeneratorTypeOK, NextCapCon
<1>2. Capture \in CapCon /\ ConfigReset \in CapCon
  BY <1>1, SoundCapture, SoundReset
<1>3. /\ one \in Seq(CapCon) /\ Len(one) = 1 /\ one[1] = Capture
      /\ two \in Seq(CapCon) /\ Len(two) = 2 /\ two[1] = Capture /\ two[2] = ConfigReset
  BY <1>2
<1>4. /\ capture_configurations' = IF ResetDue(id_count + 1) THEN old \o two ELSE old \o one
      /\ id_count' = id_count + 1 /\ script' = script /\ This' = This
  BY DEF NextCapCon, IdCount, This
<1> HIDE DEF one, two, old
<1>5. /\ old \o one \in Seq(CapCon) /\ Len(old \o one) = Len(old) + Len(one)
      /\ \A i \in 1 .. Len(old) + Len(one) :
            (old \o one)[i] = IF i <= Len(old) THEN old[i] ELSE one[i - Len(old)]
  BY <1>1, <1>3, ConcatProperties
<1>6. /\ old \o two \in Seq(CapCon) /\ Len(old \o two) = Len(old) + Len(two)
      /\ \A i \in 1 .. Len(old) + Len(two) :
            (old \o two)[i] = IF i <= Len(old) THEN old[i] ELSE two[i - Len(old)]
  BY <1>1, <1>3, ConcatProperties
<1>7. Len(old) \in Nat
  BY <1>1
<1>8. CASE ResetDue(id_count + 1)
  <2> DEFINE new == old \o two
  <2> HIDE DEF new
  <2>1. /\ new \in Seq(CapCon) /\ Len(new) = Len(old) + 2
        /\ \A i \in 1 .. Len(old) : new[i] = old[i]
        /\ new[Len(old) + 1] = Capture /\ new[Len(old) + 2] = ConfigReset
    BY <1>3, <1>6, <1>7 DEF new
  <2>2. capture_configurations' = new
    BY <1>4, <1>8 DEF new
  <2> QED  BY <1>4, <1>7, <1>8, <2>1, <2>2 DEF old
<1>9. CASE ~ResetDue(id_count + 1)
  <2> DEFINE new == old \o one
  <2> HIDE DEF new
  <2>1. /\ new \in Seq(CapCon) /\ Len(new) = Len(old) + 1
        /\ \A i \in 1 .. Len(old) : new[i] = old[i]
        /\ new[Len(old) + 1] = Capture
    BY <1>3, <1>5, <1>7 DEF new
  <2>2. capture_configurations' = new
    BY <1>4, <1>9 DEF new
  <2> QED  BY <1>4, <1>7, <1>9, <2>1, <2>2 DEF old
<1> QED  BY <1>8, <1>9

LEMMA GeneratorTypeInit == Init => GeneratorTypeOK
<1> SUFFICES ASSUME Init PROVE GeneratorTypeOK
  OBVIOUS
<1>1. This \in Script
  BY EveryScript DEF Init, This
<1>2. Len(This.dynamic) \in Nat /\ This.repetition \in Nat \ {0}
  BY <1>1 DEF Script
<1>3. <<>> \in Seq(CapCon)
  BY EmptySeq
<1> QED  BY <1>2, <1>3 DEF Init, GeneratorTypeOK

LEMMA GeneratorTypeStep == GeneratorTypeOK /\ [Next]_vars => GeneratorTypeOK'
<1> SUFFICES ASSUME GeneratorTypeOK, [Next]_vars PROVE GeneratorTypeOK'
  OBVIOUS
<1>1. CASE NextCapCon
  <2>1. /\ script' = script /\ This' = This /\ id_count' = id_count + 1
        /\ capture_configurations' \in Seq(CapCon)
    BY <1>1, Round
  <2>2. dyn \in 1 .. Len(This.dynamic) /\ Len(This.dynamic) \in Nat
    BY <1>1, TypedScript DEF GeneratorTypeOK, NextCapCon
  <2>3. This.repetition \in Nat \ {0}
    BY <1>1, TypedScript DEF GeneratorTypeOK, NextCapCon, Script
  <2>4. dyn' \in 1 .. Len(This.dynamic) + 1 /\ rep' \in 1..This.repetition /\ outcome' = outcome
    BY <1>1, <2>2, <2>3 DEF GeneratorTypeOK, NextCapCon, LastRep
  <2> QED  BY <2>1, <2>4 DEF GeneratorTypeOK
<1>2. CASE WriteFiles
  BY <1>2 DEF GeneratorTypeOK, WriteFiles, This
<1>3. CASE UNCHANGED vars
  BY <1>3 DEF GeneratorTypeOK, vars, This
<1> QED  BY <1>1, <1>2, <1>3 DEF Next

(* The loop counters of every script stay in their ranges, and what it     *)
(* generates is a CapCon.                                                  *)
THEOREM GeneratorTypes == GeneratorSpec => []GeneratorTypeOK
BY GeneratorTypeInit, GeneratorTypeStep, PTL DEF GeneratorSpec

(* Where a script computes the runtime of the network capture from that of *)
(* the attack, the server stops the capture no earlier than any attack,    *)
(* although it arms the attack last, if no call of systemd-run takes       *)
(* longer than 0.6 seconds.                                                *)
THEOREM CapturesOutlastAttacks == ArmDelay <= 6 /\ GeneratorSpec => []CaptureOutlastsAttacks
<1> SUFFICES ASSUME ArmDelay <= 6 PROVE GeneratorSpec => []CaptureOutlastsAttacks
  OBVIOUS
<1>1. Init => CaptureOutlastsAttacks
  BY DEF Init, CaptureOutlastsAttacks, Captures, Generated
<1>2. GeneratorTypeOK /\ CaptureOutlastsAttacks /\ [Next]_vars => CaptureOutlastsAttacks'
  <2> SUFFICES ASSUME GeneratorTypeOK, CaptureOutlastsAttacks, [Next]_vars
               PROVE  CaptureOutlastsAttacks'
    OBVIOUS
  <2>1. CASE NextCapCon
    <3> DEFINE n == Len(capture_configurations)
    <3>1. /\ n \in Nat /\ capture_configurations' \in Seq(CapCon)
          /\ \A i \in 1..n : capture_configurations'[i] = capture_configurations[i]
          /\ capture_configurations'[n + 1] = Capture
          /\ \/ /\ Len(capture_configurations') = n + 2
                /\ capture_configurations'[n + 2] = ConfigReset
             \/ Len(capture_configurations') = n + 1
          /\ This' = This
      BY <2>1, Round
    <3>2. /\ "tcpdump_runtime" \in This.limit_fields => OutlastsAttacks(Capture)
          /\ ConfigReset.CapConID.reset
      BY <2>1, SoundCapture DEF Sound, ConfigReset, GeneratorTypeOK, NextCapCon
    <3>3. ASSUME NEW i \in DOMAIN capture_configurations', "tcpdump_runtime" \in This.limit_fields,
                 ~capture_configurations'[i].CapConID.reset
          PROVE  OutlastsAttacks(capture_configurations'[i])
      <4>1. i \in 1..n \/ i = n + 1 \/ (i = n + 2 /\ Len(capture_configurations') = n + 2)
        BY <3>1
      <4>2. CASE i \in 1..n
        <5>1. capture_configurations'[i] = capture_configurations[i] /\ i \in DOMAIN capture_configurations
          BY <3>1, <4>2 DEF GeneratorTypeOK
        <5> QED  BY <3>3, <5>1 DEF CaptureOutlastsAttacks, Captures, Generated
      <4>3. CASE i = n + 1
        BY <3>1, <3>2, <3>3, <4>3
      <4>4. CASE i = n + 2 /\ Len(capture_configurations') = n + 2
        BY <3>1, <3>2, <3>3, <4>4
      <4> QED  BY <4>1, <4>2, <4>3, <4>4
    <3> QED  BY <3>1, <3>3 DEF CaptureOutlastsAttacks, Captures, Generated
  <2>2. CASE WriteFiles \/ UNCHANGED vars
    BY <2>2 DEF WriteFiles, vars, This, CaptureOutlastsAttacks, Captures, Generated
  <2> QED  BY <2>1, <2>2 DEF Next
<1> QED  BY <1>1, <1>2, GeneratorTypes, PTL DEF GeneratorSpec

(* Every payload of every CapCon of every script is over when the client   *)
(* comes back, if no call of systemd-run takes longer than 0.4 seconds:    *)
(* for nmap it must not.                                                   *)
THEOREM PayloadsAreOverFirst == ArmDelay <= 4 /\ GeneratorSpec => []PayloadsEndFirst
<1> SUFFICES ASSUME ArmDelay <= 4 PROVE GeneratorSpec => []PayloadsEndFirst
  OBVIOUS
<1>1. Init => PayloadsEndFirst
  BY DEF Init, PayloadsEndFirst, Generated
<1>2. GeneratorTypeOK /\ PayloadsEndFirst /\ [Next]_vars => PayloadsEndFirst'
  <2> SUFFICES ASSUME GeneratorTypeOK, PayloadsEndFirst, [Next]_vars
               PROVE  PayloadsEndFirst'
    OBVIOUS
  <2>1. CASE NextCapCon
    <3> DEFINE n == Len(capture_configurations)
    <3>1. /\ n \in Nat /\ capture_configurations' \in Seq(CapCon)
          /\ \A i \in 1..n : capture_configurations'[i] = capture_configurations[i]
          /\ capture_configurations'[n + 1] = Capture
          /\ \/ /\ Len(capture_configurations') = n + 2
                /\ capture_configurations'[n + 2] = ConfigReset
             \/ Len(capture_configurations') = n + 1
      BY <2>1, Round
    <3>2. EndsInTime(Capture) /\ EndsInTime(ConfigReset)
      BY <2>1, SoundCapture, SoundReset DEF Sound, GeneratorTypeOK, NextCapCon
    <3>3. ASSUME NEW i \in DOMAIN capture_configurations'
          PROVE  EndsInTime(capture_configurations'[i])
      <4>1. i \in 1..n \/ i = n + 1 \/ (i = n + 2 /\ Len(capture_configurations') = n + 2)
        BY <3>1
      <4>2. CASE i \in 1..n
        <5>1. /\ capture_configurations'[i] = capture_configurations[i]
              /\ i \in DOMAIN capture_configurations
          BY <3>1, <4>2 DEF GeneratorTypeOK
        <5> QED  BY <5>1 DEF PayloadsEndFirst, Generated
      <4>3. CASE i = n + 1
        BY <3>1, <3>2, <4>3
      <4>4. CASE i = n + 2 /\ Len(capture_configurations') = n + 2
        BY <3>1, <3>2, <4>4
      <4> QED  BY <4>1, <4>2, <4>3, <4>4
    <3> QED  BY <3>3 DEF PayloadsEndFirst, Generated
  <2>2. CASE WriteFiles \/ UNCHANGED vars
    BY <2>2 DEF WriteFiles, vars, PayloadsEndFirst, Generated
  <2> QED  BY <2>1, <2>2 DEF Next
<1> QED  BY <1>1, <1>2, GeneratorTypes, PTL DEF GeneratorSpec

-----------------------------------------------------------------------------
(* Resets *)

(* As many captures follow the last reset as id_count has passed a multiple *)
(* of the period.                                                          *)
SinceReset ==
    LET since == id_count % This.reset_period
        n     == Len(capture_configurations)
    IN  n > since => capture_configurations[n - since].CapConID.reset

(* Counting on by one *)
LEMMA Successor ==
    ASSUME NEW n \in Nat, NEW p \in {1, 3, 5}
    PROVE  /\ n % p \in 0 .. p - 1
           /\ (n + 1) % p = 0 => n % p = p - 1
           /\ (n + 1) % p # 0 => (n + 1) % p = (n % p) + 1
<1>1. CASE p = 1
  BY <1>1
<1>2. CASE p = 3
  BY <1>2
<1>3. CASE p = 5
  BY <1>3
<1> QED  BY <1>1, <1>2, <1>3

(* In what a script writes, any reset_period + 1 CapCons in a row include  *)
(* one that resets the testbed.                                            *)
THEOREM ResetsAlwaysRecur == GeneratorSpec => []ResetsRecur
<1>1. Init => SinceReset /\ ResetsRecur
  <2> SUFFICES ASSUME Init PROVE SinceReset /\ ResetsRecur
    OBVIOUS
  <2>1. This.reset_period \in {1, 3, 5}
    BY EveryScript DEF Init, This, Script
  <2>2. id_count % This.reset_period \in Nat
    BY <2>1, Successor DEF Init
  <2> QED  BY <2>2 DEF Init, SinceReset, ResetsRecur
<1>2. GeneratorTypeOK /\ SinceReset /\ ResetsRecur /\ [Next]_vars => (SinceReset /\ ResetsRecur)'
  <2> SUFFICES ASSUME GeneratorTypeOK, SinceReset, ResetsRecur, [Next]_vars
               PROVE  SinceReset' /\ ResetsRecur'
    OBVIOUS
  <2>1. CASE NextCapCon
    <3> DEFINE n == Len(capture_configurations)
               p == This.reset_period
               since == id_count % p
               old == capture_configurations
               new == capture_configurations'
    <3>1. /\ n \in Nat /\ new \in Seq(CapCon)
          /\ \A i \in 1..n : new[i] = old[i]
          /\ \/ /\ (id_count + 1) % p = 0 /\ Len(new) = n + 2
                /\ new[n + 2] = ConfigReset
             \/ (id_count + 1) % p # 0 /\ Len(new) = n + 1
          /\ id_count' = id_count + 1 /\ This' = This
      BY <2>1, Round DEF ResetDue
    <3>2. p \in {1, 3, 5} /\ id_count \in Nat /\ DOMAIN old = 1..n /\ DOMAIN new = 1 .. Len(new)
      BY <3>1, EveryScript DEF GeneratorTypeOK, This, Script
    <3>3. /\ since \in 0 .. p - 1
          /\ (id_count + 1) % p = 0 => since = p - 1
          /\ (id_count + 1) % p # 0 => (id_count + 1) % p = since + 1
      BY <3>2, Successor
    <3>4. n > since => old[n - since].CapConID.reset
      BY DEF SinceReset
    <3>5. \A i \in 1..n : i + p \in 1..n => \E j \in i .. i + p : old[j].CapConID.reset
      BY <3>2 DEF ResetsRecur
    <3>6. ConfigReset.CapConID.reset
      BY DEF ConfigReset
    <3> HIDE DEF n, p, since, old, new
    <3>7. n \in Nat /\ p \in Nat /\ p >= 1 /\ since \in Nat /\ since <= p - 1
      <4>1. p \in {1, 3, 5}
        BY <3>2
      <4>2. n \in Nat /\ since \in 0 .. p - 1
        BY <3>1, <3>3
      <4>3. p \in Nat /\ p >= 1
        BY <4>1
      <4> QED  BY <4>2, <4>3
    <3>8. CASE (id_count + 1) % p = 0
      <4>1. Len(new) = n + 2 /\ new[n + 2].CapConID.reset /\ since = p - 1
        BY <3>1, <3>3, <3>6, <3>8
      <4>2. ASSUME NEW i \in 1 .. n + 2, i + p \in 1 .. n + 2
            PROVE  \E j \in i .. i + p : new[j].CapConID.reset
        <5>1. CASE i + p \in 1..n
          <6>0. i \in 1..n
            BY <3>7, <5>1
          <6>1. PICK j \in i .. i + p : old[j].CapConID.reset
            BY <3>5, <5>1, <6>0
          <6>2. j \in 1..n
            BY <3>7, <5>1, <6>0
          <6> QED  BY <3>1, <6>1, <6>2
        <5>2. CASE i + p = n + 1
          <6>1. n > since /\ n - since = i /\ i \in 1..n
            BY <3>7, <4>1, <5>2
          <6>2. new[i].CapConID.reset
            BY <3>1, <3>4, <6>1
          <6>3. i \in i .. i + p
            BY <3>7
          <6> QED  BY <6>2, <6>3
        <5>3. CASE i + p = n + 2
          <6>1. n + 2 \in i .. i + p
            BY <3>7, <5>3
          <6> QED  BY <4>1, <6>1
        <5>4. i + p \in 1..n \/ i + p = n + 1 \/ i + p = n + 2
          BY <3>7, <4>2
        <5> QED  BY <5>1, <5>2, <5>3, <5>4
      <4>3. (n + 2) - ((id_count + 1) % p) = n + 2
        BY <3>1, <3>8
      <4>4. SinceReset'
        BY <3>1, <4>1, <4>3 DEF SinceReset, p, new
      <4>5. ResetsRecur'
        BY <3>1, <3>2, <4>1, <4>2 DEF ResetsRecur, p, new
      <4> QED  BY <4>4, <4>5
    <3>9. CASE (id_count + 1) % p # 0
      <4>1. Len(new) = n + 1 /\ (id_count + 1) % p = since + 1 /\ since <= p - 2
        <5>1. (id_count + 1) % p \in 0 .. p - 1
          BY <3>2, Successor
        <5>2. Len(new) = n + 1 /\ (id_count + 1) % p = since + 1
          BY <3>1, <3>3, <3>9
        <5>3. since + 1 <= p - 1
          BY <3>7, <5>1, <5>2
        <5> QED  BY <3>7, <5>2, <5>3
      <4>2. ASSUME NEW i \in 1 .. n + 1, i + p \in 1 .. n + 1
            PROVE  \E j \in i .. i + p : new[j].CapConID.reset
        <5>1. CASE i + p \in 1..n
          <6>0. i \in 1..n
            BY <3>7, <5>1
          <6>1. PICK j \in i .. i + p : old[j].CapConID.reset
            BY <3>5, <5>1, <6>0
          <6>2. j \in 1..n
            BY <3>7, <5>1, <6>0
          <6> QED  BY <3>1, <6>1, <6>2
        <5>2. CASE i + p = n + 1
          <6>1. n > since /\ n - since \in 1..n /\ n - since \in i .. i + p
            BY <3>7, <4>1, <5>2
          <6>2. new[n - since].CapConID.reset
            BY <3>1, <3>4, <6>1
          <6> QED  BY <6>1, <6>2
        <5>3. i + p \in 1..n \/ i + p = n + 1
          BY <3>7, <4>2
        <5> QED  BY <5>1, <5>2, <5>3
      <4>3. ASSUME n + 1 > since + 1 PROVE new[(n + 1) - (since + 1)].CapConID.reset
        <5>1. n > since /\ n - since \in 1..n /\ (n + 1) - (since + 1) = n - since
          BY <3>7, <4>3
        <5> QED  BY <3>1, <3>4, <5>1
      <4>4. SinceReset'
        BY <3>1, <4>1, <4>3 DEF SinceReset, p, new
      <4>5. ResetsRecur'
        BY <3>1, <3>2, <4>1, <4>2 DEF ResetsRecur, p, new
      <4> QED  BY <4>4, <4>5
    <3> QED  BY <3>8, <3>9
  <2>2. CASE WriteFiles \/ UNCHANGED vars
    BY <2>2 DEF WriteFiles, vars, SinceReset, ResetsRecur, This
  <2> QED  BY <2>1, <2>2 DEF Next
<1> QED  BY <1>1, <1>2, GeneratorTypes, PTL DEF GeneratorSpec

-----------------------------------------------------------------------------
(* Names *)

(* A script counts on with every capture, so no name comes twice. *)
Numbered ==
    /\ \A i \in DOMAIN capture_configurations :
          capture_configurations[i].CapConID.number < id_count
    /\ \A i, j \in DOMAIN capture_configurations :
          i # j => capture_configurations[i].CapConID # capture_configurations[j].CapConID

LEMMA NumberedStep == GeneratorTypeOK /\ Numbered /\ NextCapCon => Numbered'
<1> SUFFICES ASSUME GeneratorTypeOK, Numbered, NextCapCon PROVE Numbered'
  OBVIOUS
<1> DEFINE n == Len(capture_configurations)
           old == capture_configurations
           new == capture_configurations'
<1>1. /\ n \in Nat /\ new \in Seq(CapCon)
      /\ \A i \in 1..n : new[i] = old[i]
      /\ new[n + 1] = Capture
      /\ \/ Len(new) = n + 2 /\ new[n + 2] = ConfigReset
         \/ Len(new) = n + 1
      /\ id_count' = id_count + 1
  BY Round
<1>2. id_count \in Nat /\ old \in Seq(CapCon) /\ DOMAIN old = 1..n /\ DOMAIN new = 1 .. Len(new)
  BY <1>1 DEF GeneratorTypeOK
<1>3. /\ Capture.CapConID = [number |-> id_count, reset |-> FALSE]
      /\ ConfigReset.CapConID = [number |-> id_count, reset |-> TRUE]
  BY DEF Capture, ConfigReset
<1>4. /\ \A i \in 1..n : old[i].CapConID.number < id_count
      /\ \A i, j \in 1..n : i # j => old[i].CapConID # old[j].CapConID
  BY <1>2 DEF Numbered
<1>5. \A i \in 1..n : old[i].CapConID.number \in Nat
  <2>1. \A i \in 1..n : old[i] \in CapCon
    BY <1>2
  <2> QED  BY <2>1 DEF CapCon, CapConID
<1> HIDE DEF n, old, new
<1> DEFINE Old(i) == i \in 1..n /\ new[i].CapConID = old[i].CapConID
           First(i) == i = n + 1 /\ new[i].CapConID = [number |-> id_count, reset |-> FALSE]
           Second(i) == i = n + 2 /\ new[i].CapConID = [number |-> id_count, reset |-> TRUE]
<1>6. ASSUME NEW i \in DOMAIN new PROVE Old(i) \/ First(i) \/ Second(i)
  <2>1. i \in 1..n \/ i = n + 1 \/ (i = n + 2 /\ Len(new) = n + 2)
    BY <1>1, <1>2
  <2>2. i = n + 2 /\ Len(new) = n + 2 => new[i] = ConfigReset
    BY <1>1
  <2> QED  BY <1>1, <1>3, <2>1, <2>2
<1>7. ASSUME NEW i \in DOMAIN new
      PROVE  new[i].CapConID.number < id_count + 1
  <2>1. CASE Old(i)
    BY <1>2, <1>4, <1>5, <2>1
  <2>2. CASE First(i) \/ Second(i)
    BY <1>2, <2>2
  <2> QED  BY <1>6, <2>1, <2>2
<1>8. ASSUME NEW i \in DOMAIN new, NEW j \in DOMAIN new, i # j
      PROVE  new[i].CapConID # new[j].CapConID
  <2>1. CASE Old(i) /\ Old(j)
    BY <1>4, <1>8, <2>1
  <2>2. CASE Old(i) /\ (First(j) \/ Second(j))
    BY <1>2, <1>4, <1>5, <2>2
  <2>3. CASE Old(j) /\ (First(i) \/ Second(i))
    BY <1>2, <1>4, <1>5, <2>3
  <2>4. CASE (First(i) \/ Second(i)) /\ (First(j) \/ Second(j))
    BY <1>8, <2>4
  <2> QED  BY <1>6, <2>1, <2>2, <2>3, <2>4
<1> QED  BY <1>1, <1>7, <1>8 DEF Numbered, new

(* Distinct CapConIDs are as many as there are CapCons. *)
LEMMA DistinctNames ==
    ASSUME GeneratorTypeOK, Numbered
    PROVE  Cardinality({capture_configurations[i].CapConID : i \in DOMAIN capture_configurations})
               = Len(capture_configurations)
<1> DEFINE cc == capture_configurations
           n == Len(cc)
           ids == {cc[i].CapConID : i \in DOMAIN cc}
           f == [i \in 1..n |-> cc[i].CapConID]
<1>1. n \in Nat /\ DOMAIN cc = 1..n
  BY DEF GeneratorTypeOK
<1>2. \A i, j \in 1..n : i # j => cc[i].CapConID # cc[j].CapConID
  BY <1>1 DEF Numbered
<1>3. f \in [1..n -> ids]
  BY <1>1
<1>4. \A i, j \in 1..n : f[i] = f[j] => i = j
  BY <1>2
<1>5. \A t \in ids : \E i \in 1..n : f[i] = t
  BY <1>1
<1>6. f \in Bijection(1..n, ids)
  BY <1>3, <1>4, <1>5, Fun_IsBij
<1>7. ExistsBijection(1..n, ids)
  BY <1>6, Fun_ExistsBij, Zenon
<1> HIDE DEF cc, n, ids, f
<1>8. IsFiniteSet(1..n) /\ Cardinality(1..n) = n
  BY <1>1, FS_Interval
<1>9. Cardinality(ids) = n
  BY <1>7, <1>8, FS_Bijection
<1> QED  BY <1>9 DEF ids, n, cc

(* No script gives a name to two of its CapCons, so writing all of them    *)
(* succeeds.                                                               *)
THEOREM NamesAreFree == GeneratorSpec => []NoNameTaken
<1>1. Init => Numbered /\ NoNameTaken
  BY DEF Init, Numbered, NoNameTaken
<1>2. GeneratorTypeOK /\ Numbered /\ NoNameTaken /\ [Next]_vars => (Numbered /\ NoNameTaken)'
  <2> SUFFICES ASSUME GeneratorTypeOK, Numbered, NoNameTaken, [Next]_vars
               PROVE  Numbered' /\ NoNameTaken'
    OBVIOUS
  <2>1. CASE NextCapCon
    <3>1. NoNameTaken'
      BY <2>1 DEF NextCapCon, NoNameTaken
    <3> QED  BY <2>1, <3>1, NumberedStep
  <2>2. CASE WriteFiles
    <3>1. outcome' = "written"
      BY <2>2, DistinctNames DEF WriteFiles
    <3> QED  BY <2>2, <3>1 DEF WriteFiles, NoNameTaken, Numbered
  <2>3. CASE UNCHANGED vars
    BY <2>3 DEF vars, Numbered, NoNameTaken
  <2> QED  BY <2>1, <2>2, <2>3 DEF Next
<1> QED  BY <1>1, <1>2, GeneratorTypes, PTL DEF GeneratorSpec
=============================================================================
