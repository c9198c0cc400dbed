--------------------------- MODULE MCMotraServer ---------------------------
(* Two CapCons one of them with a server payload, two connections and arbitrary *)
(* peers on them.                                                          *)
EXTENDS MotraServer, TLC

CONSTANTS t1, t2, p1, c1, c2

MCClientJobs == (t1 :> {p1}) @@ (t2 :> {})
MCServerJobs == (t1 :> {p1}) @@ (t2 :> {})
MCPeerUploads == {[name |-> t1, body |-> {CapconFile(t1)}]}

(* What was sent to the peers enables no action and no property looks at it *)
ServerView == <<link, to_server, serverVars>>

(* Explore until a second archive of the server's own exists *)
FewServerZips == Cardinality({t \in TestId : server_archive[ServerZip(t)].there}) <= 1

Symmetry == Permutations(Conns)
=============================================================================
