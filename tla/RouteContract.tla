---------------------------- MODULE RouteContract ----------------------------
(***************************************************************************)
(* What RouteExecutorService.execute promises for one request, without     *)
(* cooldowns, stores or the order of its awaits.  The request has a plan,  *)
(* the router's ranked candidates.  Candidates are called one at a time,   *)
(* in the plan's order and at most once each; another one is called only   *)
(* after a retriable failure; the request is answered once, with the last  *)
(* call's response exactly if that call succeeded.                         *)
(***************************************************************************)
EXTENDS Naturals, Sequences

CONSTANTS
    Request,      \* the requests in flight
    Plans,        \* the candidate lists the router may return
    MaxAttempts   \* candidates walked at most

VARIABLES
    phase,  \* phase[q]: "idle", "routing" or "answered"
    plan,   \* plan[q]: the ranked candidates
    tried,  \* tried[q]: the positions of plan[q] called upstream, in order
    fate,   \* fate[q]: how the last call stands
    answer  \* answer[q]: what the caller of execute got

contractVars == <<phase, plan, tried, fate, answer>>

Limit(p) == IF Len(p) < MaxAttempts THEN Len(p) ELSE MaxAttempts

Fate == {"none", "pending", "ok", "retriable", "fatal"}

Init ==
    /\ phase = [q \in Request |-> "idle"]
    /\ plan = [q \in Request |-> <<>>]
    /\ tried = [q \in Request |-> <<>>]
    /\ fate = [q \in Request |-> "none"]
    /\ answer = [q \in Request |-> "none"]

Accept(q) ==
    /\ phase[q] # "routing"
    /\ phase' = [phase EXCEPT ![q] = "routing"]
    /\ \E p \in Plans : plan' = [plan EXCEPT ![q] = p]
    /\ tried' = [tried EXCEPT ![q] = <<>>]
    /\ fate' = [fate EXCEPT ![q] = "none"]
    /\ answer' = [answer EXCEPT ![q] = "none"]

Try(q) ==
    /\ phase[q] = "routing"
    /\ fate[q] \in {"none", "retriable"}
    /\ \E j \in 1..Limit(plan[q]) :
          /\ \A k \in 1..Len(tried[q]) : tried[q][k] < j
          /\ tried' = [tried EXCEPT ![q] = Append(@, j)]
    /\ fate' = [fate EXCEPT ![q] = "pending"]
    /\ UNCHANGED <<phase, plan, answer>>

Settle(q) ==
    /\ fate[q] = "pending"
    /\ \E f \in {"ok", "retriable", "fatal"} : fate' = [fate EXCEPT ![q] = f]
    /\ UNCHANGED <<phase, plan, tried, answer>>

Reply(q) ==
    /\ phase[q] = "routing"
    /\ fate[q] # "pending"
    /\ phase' = [phase EXCEPT ![q] = "answered"]
    /\ \E a \in {"response", "no_route_available", "all_attempts_failed"} :
          /\ a = "response" <=> fate[q] = "ok"
          /\ a = "no_route_available" <=> plan[q] = <<>>
          /\ answer' = [answer EXCEPT ![q] = a]
    /\ UNCHANGED <<plan, tried, fate>>

Next == \E q \in Request : Accept(q) \/ Try(q) \/ Settle(q) \/ Reply(q)

Spec == Init /\ [][Next]_contractVars
=============================================================================
