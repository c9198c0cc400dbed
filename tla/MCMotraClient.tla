--------------------------- MODULE MCMotraClient ---------------------------
(* Two CapCons, one with a client payload and one without a payload list,  *)
(* one socket and an arbitrary server at its other end.                    *)
EXTENDS MotraClient, TLC

CONSTANTS t1, t2, p1, c1

MCClientJobs == (t1 :> {p1}) @@ (t2 :> {})
MCServerJobs == (t1 :> {}) @@ (t2 :> {})

(* What the client has sent enables no action and no property looks at it *)
ClientView == <<link, to_client, clientVars>>

(* Explore until the second archive of a capture *)
FewArchives ==
    Cardinality({t \in Tests : staging[t].there}) + Cardinality({t \in Tests : archive[t].there}) <= 1
=============================================================================
