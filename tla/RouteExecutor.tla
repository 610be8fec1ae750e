---------------------------- MODULE RouteExecutor ----------------------------
(***************************************************************************)
(* RouteExecutorService.execute, one action per await.  Several requests   *)
(* execute at once and share the cooldown table; each is a caller of the   *)
(* cooldown engine, whose queries are CooldownEngine's actions.            *)
(*                                                                         *)
(* Upstream outcomes are reduced to what execute tells apart: whether      *)
(* evalRetriable retries them and whether classifyRoutingError marks them  *)
(* providerLevel.                                                          *)
(*   overload    408, 429, 5xx other than 503, network errors, timeouts    *)
(*   outage      503 and DNS failures                                      *)
(*   credential  401, 402, balance texts                                   *)
(*   rejected    400, 403, 404, 413, 422, 451                              *)
(* "thrown" is an exception caught by the loop's own catch.                *)
(***************************************************************************)
EXTENDS CooldownEngine, Sequences

CONSTANTS
    Model,        \* cooldown keys of scope "model"
    Provider,     \* cooldown keys of scope "provider"
    ProviderOf,   \* the provider of each model
    Registered,   \* providers the registry has an adapter for
    Plans,        \* candidate lists Router.decide may return, best first
    MaxAttempts,  \* retryPolicy.maxAttempts
    RetryOn,      \* outcomes evalRetriable says to retry
    MaxDbFaults   \* bound: queries that fail for reasons of the database

FailureClass == {"overload", "outage", "credential", "rejected"}
ProviderLevel == {"outage", "credential"}

ASSUME ExecutorAssumption ==
    /\ Model \cup Provider = Key
    /\ Model \cap Provider = {}
    /\ ProviderOf \in [Model -> Provider]
    /\ Registered \subseteq Provider
    /\ Plans \subseteq Seq(Model)
    /\ MaxAttempts \in Nat \ {0}
    /\ RetryOn \subseteq FailureClass \cup {"thrown"}
    /\ MaxDbFaults \in Nat

VARIABLES
    pc,        \* pc[q]: the await execute is at
    cands,     \* cands[q]: decision.candidates
    i,         \* i[q]: the loop index, counted from 1
    attempts,  \* attempts[q]: the AttemptReports pushed so far
    called,    \* called[q]: positions of cands[q] whose provider was called
    outcome,   \* outcome[q]: the current call's outcome
    answer,    \* answer[q]: what execute returned or threw
    logged,    \* logged[q]: what persistAttempts left in request_logs
    faults     \* database faults so far

execVars == <<pc, cands, i, attempts, called, outcome, answer, logged>>
vars == <<rows, op, execVars, faults>>

PC == {"idle", "loop", "gateModel", "gateProvider", "calling", "okModel",
       "okProvider", "failModel", "failProvider", "catchModel", "persist", "answered"}

Outcome == {"none", "pending", "ok", "thrown"} \cup FailureClass
Report == [ordinal : Nat \ {0},
           kind : {"ok", "cooldown_active", "unregistered", "thrown"} \cup FailureClass]
Answer == {"none", "response", "no_route_available", "all_attempts_failed", "error"}
Log == [attempts : Nat, status : {"none", "200", "502"}, reports : Seq(Report)]

NoLog == [attempts |-> 0, status |-> "none", reports |-> <<>>]

TypeOK ==
    /\ EngineTypeOK
    /\ pc \in [Caller -> PC]
    /\ cands \in [Caller -> Seq(Model)]
    /\ i \in [Caller -> Nat \ {0}]
    /\ attempts \in [Caller -> Seq(Report)]
    /\ called \in [Caller -> Seq(Nat \ {0})]
    /\ outcome \in [Caller -> Outcome]
    /\ answer \in [Caller -> Answer]
    /\ logged \in [Caller -> Log]
    /\ faults \in Nat

Init ==
    /\ EngineInit
    /\ pc = [q \in Caller |-> "idle"]
    /\ cands = [q \in Caller |-> <<>>]
    /\ i = [q \in Caller |-> 1]
    /\ attempts = [q \in Caller |-> <<>>]
    /\ called = [q \in Caller |-> <<>>]
    /\ outcome = [q \in Caller |-> "none"]
    /\ answer = [q \in Caller |-> "none"]
    /\ logged = [q \in Caller |-> NoLog]
    /\ faults = 0

-----------------------------------------------------------------------------

(* loopLimit                                                               *)
Limit(p) == IF Len(p) < MaxAttempts THEN Len(p) ELSE MaxAttempts

TheModel(q) == cands[q][i[q]]
TheProvider(q) == ProviderOf[TheModel(q)]

At(q, l) == pc[q] = l
Goto(q, l) == pc' = [pc EXCEPT ![q] = l]
Push(q, kind) ==
    attempts' = [attempts EXCEPT ![q] = Append(@, [ordinal |-> i[q], kind |-> kind])]
StartOp(q, fn, k) == op' = [op EXCEPT ![q] = Call(fn, k)]
EndOp(q) == op' = [op EXCEPT ![q] = IdleOp]
OpDone(q) == op[q].at = "done"
OpThrew(q) == op[q].at = "threw"
Admitted(q) == OpDone(q) /\ op[q].verdict \in {"allowed", "probe"}
Denied(q) == OpDone(q) /\ op[q].verdict = "denied"

(***************************************************************************)
(* A request arrives and Router.decide ranks its candidates; with none,    *)
(* execute returns before it touches the database.                         *)
(***************************************************************************)
Begin(q) ==
    /\ pc[q] \in {"idle", "answered"}
    /\ \E p \in Plans : cands' = [cands EXCEPT ![q] = p]
    /\ Goto(q, "loop")
    /\ answer' = [answer EXCEPT ![q] = "none"]
    /\ i' = [i EXCEPT ![q] = 1]
    /\ attempts' = [attempts EXCEPT ![q] = <<>>]
    /\ called' = [called EXCEPT ![q] = <<>>]
    /\ outcome' = [outcome EXCEPT ![q] = "none"]
    /\ logged' = [logged EXCEPT ![q] = NoLog]
    /\ UNCHANGED <<rows, op, faults>>

NoRoute(q) ==
    /\ At(q, "loop")
    /\ cands[q] = <<>>
    /\ answer' = [answer EXCEPT ![q] = "no_route_available"]
    /\ Goto(q, "answered")
    /\ UNCHANGED <<rows, op, cands, i, attempts, called, outcome, logged, faults>>

(* The head of the loop, up to the first await of an iteration.            *)
Exhausted(q) ==
    /\ At(q, "loop")
    /\ cands[q] # <<>>
    /\ i[q] > Limit(cands[q])
    /\ Goto(q, "persist")
    /\ UNCHANGED <<rows, op, cands, i, attempts, called, outcome, answer, logged, faults>>

(* Mutant: continue without a report.                                      *)
SkipSilently(q) ==
    /\ At(q, "loop")
    /\ i[q] <= Limit(cands[q])
    /\ TheProvider(q) \notin Registered
    /\ i' = [i EXCEPT ![q] = @ + 1]
    /\ UNCHANGED <<rows, op, pc, cands, attempts, called, outcome, answer, logged, faults>>

SkipUnregistered(q) ==
    /\ At(q, "loop")
    /\ i[q] <= Limit(cands[q])
    /\ TheProvider(q) \notin Registered
    /\ Push(q, "unregistered")
    /\ i' = [i EXCEPT ![q] = @ + 1]
    /\ UNCHANGED <<rows, op, pc, cands, called, outcome, answer, logged, faults>>

CheckModel(q) ==
    /\ At(q, "loop")
    /\ i[q] <= Limit(cands[q])
    /\ TheProvider(q) \in Registered
    /\ StartOp(q, "check", TheModel(q))
    /\ Goto(q, "gateModel")
    /\ UNCHANGED <<rows, cands, i, attempts, called, outcome, answer, logged, faults>>

(* Mutant: wait for the cooldown instead of skipping the candidate.        *)
SpinOnCooldown(q) ==
    /\ pc[q] \in {"gateModel", "gateProvider"}
    /\ Denied(q)
    /\ EndOp(q)
    /\ Goto(q, "loop")
    /\ UNCHANGED <<rows, cands, i, attempts, called, outcome, answer, logged, faults>>

(* One gate said no: the candidate is skipped.  What the other gate may    *)
(* already have flipped to half-open stays as it is.                       *)
SkipCooling(q) ==
    /\ pc[q] \in {"gateModel", "gateProvider"}
    /\ Denied(q)
    /\ Push(q, "cooldown_active")
    /\ i' = [i EXCEPT ![q] = @ + 1]
    /\ EndOp(q)
    /\ Goto(q, "loop")
    /\ UNCHANGED <<rows, cands, called, outcome, answer, logged, faults>>

CheckProvider(q) ==
    /\ At(q, "gateModel")
    /\ Admitted(q)
    /\ StartOp(q, "check", TheProvider(q))
    /\ Goto(q, "gateProvider")
    /\ UNCHANGED <<rows, cands, i, attempts, called, outcome, answer, logged, faults>>

CallUpstream(q) ==
    /\ At(q, "gateProvider")
    /\ Admitted(q)
    /\ EndOp(q)
    /\ called' = [called EXCEPT ![q] = Append(@, i[q])]
    /\ outcome' = [outcome EXCEPT ![q] = "pending"]
    /\ Goto(q, "calling")
    /\ UNCHANGED <<rows, cands, i, attempts, answer, logged, faults>>

(***************************************************************************)
(* provider.complete resolved ok, or runStream got a first chunk or an     *)
(* empty stream without an error.                                          *)
(***************************************************************************)
(* Mutants: the answer is fixed before the cooldown writes; only the       *)
(* provider's cooldown is cleared.                                         *)
AnswerBeforeWrites(q) ==
    /\ At(q, "calling")
    /\ Push(q, "ok")
    /\ outcome' = [outcome EXCEPT ![q] = "ok"]
    /\ answer' = [answer EXCEPT ![q] = "response"]
    /\ StartOp(q, "success", TheModel(q))
    /\ Goto(q, "okModel")
    /\ UNCHANGED <<rows, cands, i, called, logged, faults>>
SuccessOfProviderOnly(q) ==
    /\ At(q, "calling")
    /\ Push(q, "ok")
    /\ outcome' = [outcome EXCEPT ![q] = "ok"]
    /\ StartOp(q, "success", TheProvider(q))
    /\ Goto(q, "okModel")
    /\ UNCHANGED <<rows, cands, i, called, answer, logged, faults>>

UpstreamOk(q) ==
    /\ At(q, "calling")
    /\ Push(q, "ok")
    /\ outcome' = [outcome EXCEPT ![q] = "ok"]
    /\ StartOp(q, "success", TheModel(q))
    /\ Goto(q, "okModel")
    /\ UNCHANGED <<rows, cands, i, called, answer, logged, faults>>

SuccessModelDone(q) ==
    /\ At(q, "okModel")
    /\ OpDone(q)
    /\ StartOp(q, "success", TheProvider(q))
    /\ Goto(q, "okProvider")
    /\ UNCHANGED <<rows, cands, i, attempts, called, outcome, answer, logged, faults>>

SuccessProviderDone(q) ==
    /\ At(q, "okProvider")
    /\ OpDone(q)
    /\ EndOp(q)
    /\ answer' = [answer EXCEPT ![q] = "response"]
    /\ Goto(q, "persist")
    /\ UNCHANGED <<rows, cands, i, attempts, called, outcome, logged, faults>>

(* The outcome is not ok: handleFailure.                                   *)
UpstreamFail(q) ==
    /\ At(q, "calling")
    /\ \E class \in FailureClass :
          /\ Push(q, class)
          /\ outcome' = [outcome EXCEPT ![q] = class]
    /\ StartOp(q, "failure", TheModel(q))
    /\ Goto(q, "failModel")
    /\ UNCHANGED <<rows, cands, i, called, answer, logged, faults>>

FailureModelDone(q) ==
    /\ At(q, "failModel")
    /\ OpDone(q)
    /\ outcome[q] \in ProviderLevel
    /\ StartOp(q, "failure", TheProvider(q))
    /\ Goto(q, "failProvider")
    /\ UNCHANGED <<rows, cands, i, attempts, called, outcome, answer, logged, faults>>

(* Mutants: every failure is retried; the failed candidate is retried.     *)
RetryAlways(q) ==
    /\ EndOp(q)
    /\ Goto(q, "loop")
    /\ i' = [i EXCEPT ![q] = @ + 1]
    /\ UNCHANGED <<rows, cands, attempts, called, outcome, answer, logged, faults>>
RetrySame(q) ==
    /\ EndOp(q)
    /\ IF outcome[q] \in RetryOn THEN Goto(q, "loop") ELSE Goto(q, "persist")
    /\ UNCHANGED <<rows, cands, i, attempts, called, outcome, answer, logged, faults>>

(* evalRetriable, then the next iteration (after sleepBetweenAttempts) or  *)
(* the break out of the loop.                                              *)
NextOrBreak(q) ==
    /\ EndOp(q)
    /\ IF outcome[q] \in RetryOn
         THEN Goto(q, "loop") /\ i' = [i EXCEPT ![q] = @ + 1]
         ELSE Goto(q, "persist") /\ UNCHANGED i
    /\ UNCHANGED <<rows, cands, attempts, called, outcome, answer, logged, faults>>

FailureDone(q) ==
    /\ \/ At(q, "failModel") /\ outcome[q] \notin ProviderLevel
       \/ At(q, "failProvider")
    /\ OpDone(q)
    /\ NextOrBreak(q)

(***************************************************************************)
(* The loop's catch.  It is reached when the provider call throws, and     *)
(* also when a cooldown write after the call throws: the call's own        *)
(* outcome, success included, is then lost.                                *)
(***************************************************************************)
Catch(q) ==
    /\ \/ At(q, "calling") /\ op[q].at = "idle"
       \/ pc[q] \in {"okModel", "okProvider", "failModel", "failProvider"} /\ OpThrew(q)
    /\ Push(q, "thrown")
    /\ outcome' = [outcome EXCEPT ![q] = "thrown"]
    /\ StartOp(q, "failure", TheModel(q))
    /\ Goto(q, "catchModel")
    /\ UNCHANGED <<rows, cands, i, called, answer, logged, faults>>

CatchDone(q) ==
    /\ At(q, "catchModel")
    /\ OpDone(q)
    /\ NextOrBreak(q)

(* Outside the try, or inside the catch, an exception leaves execute.      *)
Rejected(q) ==
    /\ pc[q] \in {"gateModel", "gateProvider", "catchModel"}
    /\ OpThrew(q)
    /\ EndOp(q)
    /\ answer' = [answer EXCEPT ![q] = "error"]
    /\ Goto(q, "answered")
    /\ UNCHANGED <<rows, cands, i, attempts, called, outcome, logged, faults>>

(***************************************************************************)
(* persistAttempts: three writes in one try whose failure is swallowed, so *)
(* a database fault leaves the first n of them.                            *)
(***************************************************************************)
(* Mutant: the first report decides the status.                            *)
HeadOk(s) == s # <<>> /\ s[1].kind = "ok"

FirstOk(s) == \E n \in DOMAIN s : s[n].kind = "ok"

LogAfter(q, n) ==
    [attempts |-> IF n >= 1 THEN Len(attempts[q]) ELSE 0,
     status   |-> IF n < 2 THEN "none" ELSE IF FirstOk(attempts[q]) THEN "200" ELSE "502",
     reports  |-> IF n >= 3 THEN attempts[q] ELSE <<>>]

Persist(q) ==
    /\ At(q, "persist")
    /\ \E n \in 0..3 :
          /\ n < 3 => faults < MaxDbFaults
          /\ faults' = IF n < 3 THEN faults + 1 ELSE faults
          /\ logged' = [logged EXCEPT ![q] = LogAfter(q, n)]
    /\ answer' = [answer EXCEPT ![q] = IF @ = "none" THEN "all_attempts_failed" ELSE @]
    /\ Goto(q, "answered")
    /\ UNCHANGED <<rows, op, cands, i, attempts, called, outcome>>

-----------------------------------------------------------------------------

Engine(q) == EngineStep(q) /\ UNCHANGED <<execVars, faults>>

(* A query of a running engine operation fails (lock timeout, lost         *)
(* connection): the operation throws and writes nothing.                   *)
DbFault(q) ==
    /\ faults < MaxDbFaults
    /\ op[q].at \in {"find", "upsertFind", "upsertWrite", "reset"}
    /\ op' = [op EXCEPT ![q].at = "threw"]
    /\ faults' = faults + 1
    /\ UNCHANGED <<rows, execVars>>

Environment ==
    (\E r \in RowId : Expire(r) \/ AdminReset(r)) /\ UNCHANGED <<execVars, faults>>

ExecuteStep(q) ==
    \/ NoRoute(q)
    \/ Exhausted(q)
    \/ SkipUnregistered(q)
    \/ CheckModel(q)
    \/ SkipCooling(q)
    \/ CheckProvider(q)
    \/ CallUpstream(q)
    \/ UpstreamOk(q)
    \/ SuccessModelDone(q)
    \/ SuccessProviderDone(q)
    \/ UpstreamFail(q)
    \/ FailureModelDone(q)
    \/ FailureDone(q)
    \/ Catch(q)
    \/ CatchDone(q)
    \/ Rejected(q)
    \/ Persist(q)

Next ==
    \/ \E q \in Caller : Begin(q) \/ ExecuteStep(q) \/ Engine(q) \/ DbFault(q)
    \/ Environment

Spec == Init /\ [][Next]_vars

(***************************************************************************)
(* A provider call always ends, because timeoutMs aborts it; a query ends; *)
(* the event loop resumes whoever awaited it.                              *)
(***************************************************************************)
FairSpec == Spec /\ \A q \in Caller : WF_vars(ExecuteStep(q) \/ Engine(q))

-----------------------------------------------------------------------------
(***************************************************************************)
(* Properties that hold whatever the store, its faults and the others do.  *)
(***************************************************************************)

(* "each candidate appears once per request" (SECURITY.md:27): providers   *)
(* are called in the plan's order, none twice and none beyond loopLimit,   *)
(* although a failing cooldown write sends the loop through its catch.     *)
CallsFollowPlan ==
    \A q \in Caller :
        /\ \A n \in 1..Len(called[q]) : called[q][n] <= Limit(cands[q])
        /\ \A n \in 2..Len(called[q]) : called[q][n - 1] < called[q][n]

(* The attempt reports tell which upstreams were called: a candidate has a *)
(* gate report exactly if its provider was not called, a call's report is  *)
(* never missing, and only an exception adds a second one.                 *)
Reports(q, n) == {r \in 1..Len(attempts[q]) : attempts[q][r].ordinal = n}
Called(q) == {called[q][n] : n \in 1..Len(called[q])}

ReportsMatchCalls ==
    \A q \in Caller :
        /\ \A r \in 1..Len(attempts[q]) :
              attempts[q][r].ordinal \in Called(q)
                 <=> attempts[q][r].kind \notin {"cooldown_active", "unregistered"}
        /\ \A n \in 1..(i[q] - 1) : Reports(q, n) # {}
        /\ \A r1, r2 \in 1..Len(attempts[q]) :
              r1 < r2 => \/ attempts[q][r1].ordinal < attempts[q][r2].ordinal
                         \/ attempts[q][r2].kind = "thrown"

(* A response is the one of the last upstream call, whose report is "ok".  *)
ResponseIsLastCall ==
    \A q \in Caller :
        answer[q] = "response" =>
            /\ outcome[q] = "ok"
            /\ attempts[q][Len(attempts[q])] = [ordinal |-> i[q], kind |-> "ok"]
            /\ called[q][Len(called[q])] = i[q]

(* Every request is answered: no gate, retry or fault makes it loop.       *)
EveryRequestAnswered == \A q \in Caller : pc[q] = "loop" ~> pc[q] = "answered"

(***************************************************************************)
(* Properties of a store that accepts every write.                         *)
(***************************************************************************)

(* "if ok -> return response + attempts" (ARCHITECTURE.md:73): no upstream *)
(* is called for a request that an upstream has already served.            *)
(* The code does not keep it: the loop catches a failing registerSuccess.  *)
NoCallAfterSuccess ==
    [][\A q \in Caller :
          called'[q] # called[q] /\ called'[q] # <<>> => ~FirstOk(attempts[q])]_vars

(* "any retriable error -> next candidate" (ROUTING.md:75): a call whose   *)
(* own outcome is not retriable is the request's last.                     *)
(* The code does not keep it: the refused provider cooldown is caught.     *)
NonRetriableStops ==
    [][\A q \in Caller :
          called'[q] # called[q] /\ called'[q] # <<>> =>
             \A r \in 1..Len(attempts[q]) :
                attempts[q][r].kind \in FailureClass => attempts[q][r].kind \in RetryOn]_vars

(* What persistAttempts leaves agrees with what the caller got: status 200 *)
(* exactly for a response, and the reports of the whole request.           *)
LogTellsAnswer ==
    \A q \in Caller :
        pc[q] = "answered" /\ logged[q].status # "none" =>
            /\ logged[q].status = "200" <=> answer[q] = "response"
            /\ logged[q].attempts = Len(attempts[q])
            /\ logged[q].reports \in {<<>>, attempts[q]}

(* The contract of execute, with the gates and awaits as stutters.         *)
PhaseOf(q) == IF pc[q] \in {"idle", "answered"} THEN pc[q] ELSE "routing"
FateOf(q) ==
    CASE outcome[q] \in {"none", "pending", "ok"} -> outcome[q]
      [] outcome[q] \in RetryOn                  -> "retriable"
      [] OTHER                                   -> "fatal"
AnswerOf(q) == IF pc[q] = "answered" THEN answer[q] ELSE "none"

Contract == INSTANCE RouteContract WITH
    Request <- Caller,
    phase   <- [q \in Caller |-> PhaseOf(q)],
    plan    <- cands,
    tried   <- called,
    fate    <- [q \in Caller |-> FateOf(q)],
    answer  <- [q \in Caller |-> AnswerOf(q)]

Implements == Contract!Spec

(***************************************************************************)
(* Half-open probes.                                                       *)
(***************************************************************************)
Resting == \A q \in Caller : pc[q] \in {"idle", "answered"}

(* "Cooldowns transition to halfOpen after the timer expires; the next     *)
(* request is allowed through to probe" (ROUTING.md:96): with no request   *)
(* in flight, a key whose timer has expired admits the next one.           *)
ExpiredKeyAdmits ==
    Resting => \A k \in Key : TimerExpired(k) => Admits(k)

(* While no model has two rows, a half-open model always has a request in  *)
(* flight that will report on it.                                          *)
OwesModel(q, m) ==
    /\ ~Resting
    /\ pc[q] \notin {"idle", "answered"}
    /\ i[q] <= Limit(cands[q])
    /\ TheModel(q) = m
    /\ \/ pc[q] = "gateModel" /\ Admitted(q) /\ op[q].verdict = "probe"
       \/ pc[q] \in {"gateProvider", "calling"}
       \/ pc[q] \in {"okModel", "failModel", "catchModel"} /\ ~OpDone(q)

ModelProbeOwed ==
    UniqueRows => \A m \in Model : HalfOpen(m) => \E q \in Caller : OwesModel(q, m)
=============================================================================
