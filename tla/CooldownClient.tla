--------------------------- MODULE CooldownClient ---------------------------
(***************************************************************************)
(* The cooldown engine used the way its interface asks for: a caller       *)
(* checks a key, calls the upstream if it was admitted, and reports the    *)
(* outcome with exactly one registerSuccess or registerFailure.  It is the *)
(* engine's own contract, without the executor's ways of breaking it       *)
(* (those are in RouteExecutor).                                           *)
(***************************************************************************)
EXTENDS CooldownEngine

VARIABLE phase   \* phase[c]: where caller c is in check / call / report

vars == <<rows, op, phase>>

Phase == {"idle", "checking", "calling", "reporting"}

TypeOK ==
    /\ EngineTypeOK
    /\ phase \in [Caller -> Phase]

Init ==
    /\ EngineInit
    /\ phase = [c \in Caller |-> "idle"]

Check(c, k) ==
    /\ phase[c] = "idle"
    /\ phase' = [phase EXCEPT ![c] = "checking"]
    /\ op' = [op EXCEPT ![c] = Call("check", k)]
    /\ UNCHANGED rows

Admitted(c) ==
    /\ phase[c] = "checking"
    /\ op[c].at = "done"
    /\ op[c].verdict \in {"allowed", "probe"}
    /\ phase' = [phase EXCEPT ![c] = "calling"]
    /\ UNCHANGED engineVars

Leave(c) ==
    /\ phase' = [phase EXCEPT ![c] = "idle"]
    /\ op' = [op EXCEPT ![c] = IdleOp]
    /\ UNCHANGED rows

Denied(c) ==
    /\ phase[c] = "checking"
    /\ op[c].at = "done"
    /\ op[c].verdict = "denied"
    /\ Leave(c)

Report(c, fn) ==
    /\ phase[c] = "calling"
    /\ phase' = [phase EXCEPT ![c] = "reporting"]
    /\ op' = [op EXCEPT ![c] = Call(fn, op[c].key)]
    /\ UNCHANGED rows

(* The report has run, or its create was refused and it threw.             *)
Reported(c) ==
    /\ phase[c] = "reporting"
    /\ op[c].at \in {"done", "threw"}
    /\ Leave(c)

Engine(c) == EngineStep(c) /\ UNCHANGED phase

Environment == (\E r \in RowId : Expire(r) \/ AdminReset(r)) /\ UNCHANGED phase

CallerStep(c) ==
    \/ \E k \in Key : Check(c, k)
    \/ Admitted(c)
    \/ Denied(c)
    \/ Report(c, "success")
    \/ Report(c, "failure")
    \/ Reported(c)
    \/ Engine(c)

Next == (\E c \in Caller : CallerStep(c)) \/ Environment

Spec == Init /\ [][Next]_vars

(***************************************************************************)
(* Fairness: the event loop resumes every await whose query or upstream    *)
(* call has ended, queries end, and a provider call ends because           *)
(* config.timeoutMs aborts it.  New requests and time are not fair.        *)
(***************************************************************************)
CallerProgress(c) ==
    \/ Admitted(c)
    \/ Denied(c)
    \/ Report(c, "success")
    \/ Report(c, "failure")
    \/ Reported(c)
    \/ Engine(c)

FairSpec == Spec /\ \A c \in Caller : WF_vars(CallerProgress(c))

-----------------------------------------------------------------------------

(* Caller c was admitted on k and its report has not yet reached the row.  *)
Owes(c, k) ==
    /\ op[c].key = k
    /\ \/ phase[c] = "checking" /\ op[c].at = "done" /\ op[c].verdict = "probe"
       \/ phase[c] = "calling"
       \/ phase[c] = "reporting" /\ op[c].at \notin {"done", "threw"}

Probing(c, k) == phase[c] = "calling" /\ op[c].key = k /\ op[c].verdict = "probe"

(* As long as no key has two rows, a half-open row always has an in-flight *)
(* caller whose report will clear it: check never leaves a row half-open   *)
(* for nobody, however the queries of the callers interleave.              *)
HalfOpenOwed ==
    UniqueRows => \A k \in Key : HalfOpen(k) => \E c \in Caller : Owes(c, k)

(* "let exactly one probe through" (cooldown.ts:73): of the callers in     *)
(* flight on a key at most one is a half-open probe.                       *)
(* The code does not keep it: both finds may precede both flips.           *)
SingleProbe ==
    \A k \in Key, c1, c2 \in Caller : Probing(c1, k) /\ Probing(c2, k) => c1 = c2

(* "Cooldowns transition to halfOpen after the timer expires; the next     *)
(* request is allowed through to probe" (ROUTING.md:96): with nothing in   *)
(* flight and the timer of a key expired, check admits.                    *)
ExpiredKeyAdmits ==
    (\A c \in Caller : phase[c] = "idle") =>
        \A k \in Key : TimerExpired(k) => Admits(k)

(* "success clears the cooldown" (ROUTING.md:97, cooldown.test.ts:58-66):  *)
(* when registerSuccess has run, the next check of the key finds no record *)
(* to probe and the next failure none to continue its back-off from.       *)
(* The Prisma store does not keep it: reset leaves the row, findActive     *)
(* does not look at resolvedAt.                                            *)
SuccessClears ==
    [][\A c \in Caller :
          op[c].at = "reset" /\ op'[c].at = "done"
             => FindActive(rows', op[c].key) = {}]_vars

(* A check never ends a cooldown that runs: only its timer, a success or   *)
(* an administrator does.  The code does not keep it: the flip writes back *)
(* what was read before a failure that is registered in between.           *)
RunningKept ==
    [][\A c \in Caller, r \in RowId :
          op[c].fn = "check" /\ op'[c] # op[c] /\ r \in RowsOf(rows, op[c].key)
             => (rows[r].expiry = "future" => rows'[r] = rows[r])]_vars

(* A half-open row does not stay half-open: its probe's report ends it.    *)
ProbeResolves == \A k \in Key : HalfOpen(k) ~> ~HalfOpen(k)
=============================================================================
