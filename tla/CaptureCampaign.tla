-------------------------- MODULE CaptureCampaign --------------------------
(***************************************************************************)
(* What a capture campaign promises to the one who runs it: every CapCon   *)
(* of the test workspace is executed once, one at a time, in any order;    *)
(* the next one starts only when the records of the last one are stored;   *)
(* and the campaign ends when all of them are.                             *)
(***************************************************************************)
CONSTANT CapCons

VARIABLES
    phase,   \* CapCon -> how far it got
    over     \* the client has been told that no test is left

Phase == {"waiting", "executing", "recorded"}

CampaignTypeOK == phase \in [CapCons -> Phase] /\ over \in BOOLEAN

CampaignInit ==
    /\ phase = [t \in CapCons |-> "waiting"]
    /\ over = FALSE

(* Nobody executes while another capture is being executed *)
Start(t) ==
    /\ phase[t] = "waiting"
    /\ \A s \in CapCons : phase[s] # "executing"
    /\ phase' = [phase EXCEPT ![t] = "executing"]
    /\ UNCHANGED over

Store(t) ==
    /\ phase[t] = "executing"
    /\ phase' = [phase EXCEPT ![t] = "recorded"]
    /\ UNCHANGED over

End ==
    /\ ~over
    /\ \A t \in CapCons : phase[t] = "recorded"
    /\ over' = TRUE
    /\ UNCHANGED phase

CampaignNext == End \/ \E t \in CapCons : Start(t) \/ Store(t)

CampaignSafety == CampaignInit /\ [][CampaignNext]_<<phase, over>>

CampaignSpec == CampaignSafety /\ WF_<<phase, over>>(CampaignNext)
=============================================================================
