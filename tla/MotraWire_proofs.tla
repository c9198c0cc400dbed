-------------------------- MODULE MotraWire_proofs --------------------------
(* Facts about files, archives and messages that the proofs about the      *)
(* server and the client share.                                            *)
EXTENDS MotraWire, TLAPS

(* The constructors of files are injective and have disjoint ranges. *)
LEMMA FilesDiffer ==
    /\ \A s, t : CapconFile(s) = CapconFile(t) => s = t
    /\ \A s, t : IdFile(s) = IdFile(t) => s = t
    /\ \A p, q : JobFile(p) = JobFile(q) => p = q
    /\ \A s, t : CapconFile(s) # IdFile(t)
    /\ \A s, t : TornFile(s) # CapconFile(t) /\ TornFile(s) # IdFile(t)
    /\ \A s, p : TornFile(s) # JobFile(p) /\ TornFile(s) # LogFile(p) /\ TornFile(s) # OutFile(p)
    /\ \A s, p : CapconFile(s) # JobFile(p) /\ IdFile(s) # JobFile(p)
    /\ \A s, p : CapconFile(s) # LogFile(p) /\ CapconFile(s) # OutFile(p)
    /\ \A s, p : IdFile(s) # LogFile(p) /\ IdFile(s) # OutFile(p)
    /\ \A p, q : JobFile(p) # LogFile(q) /\ JobFile(p) # OutFile(q)
BY DEF CapconFile, TornFile, IdFile, JobFile, LogFile, OutFile

(* The constructors yield files. *)
LEMMA FilesType ==
    /\ \A t \in Tests : CapconFile(t) \in File /\ IdFile(t) \in File /\ TornFile(t) \in File
    /\ \A p \in Payloads : JobFile(p) \in File /\ LogFile(p) \in File /\ OutFile(p) \in File
BY DEF CapconFile, TornFile, IdFile, JobFile, LogFile, OutFile, File

(* What a CapCon and its payloads put on disk, and the logs, are files. *)
LEMMA StoreType ==
    ASSUME NEW live \in SUBSET File, NEW jobs \in SUBSET Payloads
    PROVE  /\ \A t \in Tests : StoreCapcon(live, t, jobs) \in SUBSET File
           /\ CollectLogs(live, jobs) \in SUBSET File
BY FilesType DEF StoreCapcon, CollectLogs, JobFiles, LogFiles

(* A zip holds what can be read, and everything but outputs can. *)
LEMMA ZippedHolds ==
    ASSUME NEW files
    PROVE  /\ Zipped(files).there = TRUE
           /\ Zipped(files).files = Archivable(files)
           /\ Archivable(files) \subseteq files
           /\ \A f \in files : (\A p : f # OutFile(p)) => f \in Archivable(files)
           /\ files \in SUBSET File => Zipped(files) \in Archive
BY DEF Zipped, Zip, Archivable, OutFiles, Archive

(* A send appends a message of the right kind; reading removes one. *)
LEMMA SendType ==
    ASSUME NEW T, NEW c \in Conns, NEW m \in Message(T),
           NEW queue \in [Conns -> Seq(Message(T))]
    PROVE  SendTo(queue, c, m) \in [Conns -> Seq(Message(T))]
<1>1. Append(queue[c], m) \in Seq(Message(T))
  <2> HIDE DEF Message
  <2> QED OBVIOUS
<1> QED
  BY <1>1 DEF SendTo, Post

LEMMA DropType ==
    ASSUME NEW T, NEW c \in Conns, NEW queue \in [Conns -> Seq(Message(T))],
           queue[c] # <<>>
    PROVE  /\ Drop(queue, c) \in [Conns -> Seq(Message(T))]
           /\ Head(queue[c]) \in Message(T)
<1>1. Tail(queue[c]) \in Seq(Message(T)) /\ Head(queue[c]) \in Message(T)
  OBVIOUS
<1> QED
  BY <1>1 DEF Drop
=============================================================================
