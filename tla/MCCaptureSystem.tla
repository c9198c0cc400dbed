-------------------------- MODULE MCCaptureSystem --------------------------
(* Up to three CapCons: t1 with a payload for each machine, t2 with one    *)
(* that both run, t3 with two for the client.  Two websockets, so that the *)
(* handler of a dead client can still be there when the next one connects. *)
EXTENDS CaptureSystem, TLC

CONSTANTS t1, t2, t3, p1, p2, p3, p4, p5, c1, c2

OnTests(f) == [t \in Tests |-> f[t]]

MCClientJobs == OnTests((t1 :> {p1}) @@ (t2 :> {p3}) @@ (t3 :> {p4, p5}))
MCServerJobs == OnTests((t1 :> {p2}) @@ (t2 :> {p3}) @@ (t3 :> {}))
MCNoJobs     == [t \in Tests |-> {}]

(* One payload on each machine in t1, none in t2 *)
MCFewClientJobs == (t1 :> {p1}) @@ (t2 :> {})
MCFewServerJobs == (t1 :> {p2}) @@ (t2 :> {})

(* p1 on both machines in t1, p2 on the server in t2 *)
MCSplitServerJobs == (t1 :> {p1}) @@ (t2 :> {p2})
MCPeerUploads == {}

(* What is in the server's archives enables no action, and only the type   *)
(* invariant of this run looks at it.                                      *)
FaultView == <<wire, server_up, config, server_live, server_unit, handler, clientVars, history>>

Symmetry == Permutations(Conns)
=============================================================================
