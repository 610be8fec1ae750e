----------------------------- MODULE MCWebhooks -----------------------------
(***************************************************************************)
(* TLC instance of what the gateway tells others of its requests: Webhooks,*)
(* which delivers events, and Reports, which are computed from the log.    *)
(* They share no state: a behaviour follows one and leaves the other as it *)
(* began.                                                                  *)
(***************************************************************************)
EXTENDS Webhooks, Reports, TLC

CONSTANTS e1, k1, k2, ma, mb, o1, pr1, null, noorg

VARIABLE part

(* A key with a project, and one without.                                  *)
MCOrg == k1 :> [org |-> o1, project |-> pr1] @@ k2 :> [org |-> o1, project |-> null]
MCPrice == ma :> 1 @@ mb :> 2
MCStatusOf == "rate_limited" :> 429 @@ "no_route" :> 503
MCScopes == "day" :> 1 @@ "week" :> 2 @@ "month" :> 3

toldVars == <<part, vars, reportVars>>

ToldInit == part \in {"webhooks", "reports"} /\ Init /\ ReportsInit

InWebhooks(A) == part = "webhooks" /\ A /\ UNCHANGED <<part, reportVars>>
InReports(A) == part = "reports" /\ A /\ UNCHANGED <<part, vars>>

ToldNext == InWebhooks(Next) \/ InReports(ReportsNext)

(* FairSpec in its part; nothing makes the log grow.                       *)
ToldFairSpec ==
    /\ ToldInit /\ [][ToldNext]_toldVars
    /\ \A p \in Proc : WF_toldVars(InWebhooks(BusStep(p)))
    /\ \A j \in Slot : WF_toldVars(InWebhooks(Delivery(j)))
=============================================================================
