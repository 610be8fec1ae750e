------------------------------ MODULE ChatRoute -----------------------------
(***************************************************************************)
(* A request to /v1/chat/completions or /v1/embeddings from the onRequest  *)
(* hook of virtual-key-auth to its last log write, one action per await.   *)
(* What runs between two awaits is one step of the event loop.             *)
(*                                                                         *)
(* What execute does is RouteExecutor's; here it ends in one of the ways   *)
(* RouteContract allows.  Of a log row only what finish writes is kept:    *)
(* the status and the attempts that persistAttempts leaves are             *)
(* RouteExecutor's.                                                        *)
(***************************************************************************)
EXTENDS VirtualKeys, FiniteSets, FiniteSetsExt

CONSTANTS
    Request,      \* requests in progress at once
    ReqId,        \* request ids; a client may choose one that was used before
    NoReqId,
    OrgLimit,     \* organization.rpmLimit, 0 for none
    DemoOf,       \* the demo request counter of each key and date
    DemoRequests, \* DEMO_DAILY_REQUEST_LIMIT
    Answers,      \* token counts an answer may report
    MaxCalls      \* bound: requests that arrive

Date == 1..Today(MaxTime)

ASSUME RouteAssumption ==
    /\ Key # {}
    /\ NoReqId \notin ReqId
    /\ DemoOf \in [Key \X Date -> Counter]
    /\ OrgLimit \in Nat /\ DemoRequests \in Nat
    /\ Answers \subseteq Nat /\ Answers # {} /\ IsFiniteSet(Answers)
    /\ IsFiniteSet(Key) /\ IsFiniteSet(Request) /\ IsFiniteSet(ReqId)
    /\ MaxCalls \in Nat

VARIABLES
    req,        \* req[q]: a request and where it is
    log,        \* log[i]: the row of request_logs with request id i
    abandoned,  \* history: ids of requests cut off by a failing query or a restart
    calls       \* requests so far

chatVars == <<req, log, abandoned, calls>>
vars == <<rateVars, keyVars, faults, chatVars>>

Stage == {"idle", "resolved", "org", "demo", "handler", "execute", "touch", "finish", "embed"}
Seen == [usable : BOOLEAN, streaming : BOOLEAN, isDemo : BOOLEAN, limits : Quotas,
         org : Org \cup {NoOrg}]
NotSeen == [usable |-> FALSE, streaming |-> FALSE, isDemo |-> FALSE, limits |-> NoLimits,
            org |-> NoOrg]
Req == [at : Stage, id : ReqId \cup {NoReqId}, key : Key, row : Seen, ok : BOOLEAN, tokens : Nat]
LogRow == [exists : BOOLEAN, finished : BOOLEAN, tokens : Nat]
NoLog == [exists |-> FALSE, finished |-> FALSE, tokens |-> 0]

TypeOK ==
    /\ RateTypeOK /\ KeysTypeOK
    /\ req \in [Request -> Req]
    /\ log \in [ReqId -> LogRow]
    /\ abandoned \subseteq ReqId
    /\ calls \in Nat

AnyKey == CHOOSE k \in Key : TRUE
Idle == [at |-> "idle", id |-> NoReqId, key |-> AnyKey, row |-> NotSeen, ok |-> FALSE, tokens |-> 0]

Init ==
    /\ RateInit /\ KeysInit
    /\ req = [q \in Request |-> Idle]
    /\ log = [i \in ReqId |-> NoLog]
    /\ abandoned = {}
    /\ calls = 0

At(q, l) == req[q].at = l
Goto(q, l) == req' = [req EXCEPT ![q].at = l]
Answered(q) == req' = [req EXCEPT ![q] = Idle]

(* Past logger.start, where the request has a log row to finish.           *)
HasRow(q) == req[q].at \in {"execute", "touch", "finish"}
CutOff(S) == abandoned' = abandoned \cup {req[q].id : q \in {p \in S : HasRow(p)}}

-----------------------------------------------------------------------------
(* The onRequest hook.                                                     *)

(* resolveBySecretWithTenancy: the query reads the row of one secret.      *)
Read(k) == [usable |-> Usable(keys[k]), streaming |-> keys[k].streaming,
            isDemo |-> keys[k].isDemo, limits |-> keys[k].limits, org |-> keys[k].org]

Resolve(q) ==
    /\ At(q, "idle")
    /\ calls < MaxCalls
    /\ calls' = calls + 1
    /\ \E k \in Key :
          /\ keys[k].secret \in known
          /\ req' = [req EXCEPT ![q] = [Idle EXCEPT !.at = "resolved", !.key = k, !.row = Read(k)]]
    /\ UNCHANGED <<rateVars, keyVars, faults, log, abandoned>>

TheLimits(q) == req[q].row.limits
Minutes(q) == RpmAllows(rpmBuckets[req[q].key], now, TheLimits(q).rpm)
Requests(q) == DayAllows(dayBuckets[req[q].key], now, "requests", TheLimits(q).requests)
(* Mutant: the tokens spent so far are not looked at.                      *)
TokensUnchecked(q) == TRUE

Tokens(q) == DayAllows(dayBuckets[req[q].key], now, "tokens", TheLimits(q).tokens)

AfterOrg(row) == IF row.isDemo THEN "demo" ELSE "handler"
AfterAdmit(row) ==
    IF row.org # NoOrg /\ OrgLimit # 0 THEN "org" ELSE AfterOrg(row)

(* Everything up to the organisation's await works on the row as it was    *)
(* read.  The minute bucket is charged before the day bucket refuses.      *)
Admit(q) ==
    LET k == req[q].key
        usable == req[q].row.usable
        charge == usable /\ Minutes(q)
    IN
    /\ At(q, "resolved")
    /\ rpmBuckets' = IF usable THEN [rpmBuckets EXCEPT ![k] = RpmAfter(@, now, TheLimits(q).rpm)]
                     ELSE rpmBuckets
    /\ dayBuckets' =
           IF charge THEN [dayBuckets EXCEPT ![k] = DayAfter(@, now, "requests", TheLimits(q).requests)]
           ELSE dayBuckets
    /\ IF charge /\ Requests(q) /\ Tokens(q) THEN Goto(q, AfterAdmit(req[q].row)) ELSE Answered(q)
    /\ UNCHANGED <<now, kv, keyVars, faults, log, abandoned, calls>>

(* enforceOrgRpmAsync.                                                     *)
OrgRpm(q) ==
    LET c == req[q].row.org IN
    /\ At(q, "org")
    /\ kv' = [kv EXCEPT ![c] = Incr(@, now, Minute)]
    /\ IF kv'[c].value <= OrgLimit THEN Goto(q, AfterOrg(req[q].row)) ELSE Answered(q)
    /\ UNCHANGED <<now, rpmBuckets, dayBuckets, keyVars, faults, log, abandoned, calls>>

(* enforceDemoDailyRequests, then peekDemoDailyTokens: nothing ever adds   *)
(* to the counter it reads, so the full allowance remains.                 *)
DemoQuota(q) ==
    LET c == DemoOf[<<req[q].key, Today(now)>>] IN
    /\ At(q, "demo")
    /\ kv' = [kv EXCEPT ![c] = Incr(@, now, Day)]
    /\ IF kv'[c].value <= DemoRequests THEN Goto(q, "handler") ELSE Answered(q)
    /\ UNCHANGED <<now, rpmBuckets, dayBuckets, keyVars, faults, log, abandoned, calls>>

-----------------------------------------------------------------------------
(* POST /v1/chat/completions.                                              *)

(* The streaming permission, reads that change nothing, then logger.start: *)
(* an upsert with nothing to update.  The id is the client's x-request-id  *)
(* or a fresh one; it is not used before.                                  *)
StartLog(q) ==
    /\ At(q, "handler")
    /\ \E i \in ReqId :
          /\ log' = [log EXCEPT ![i].exists = TRUE]
          /\ req' = [req EXCEPT ![q].at = "execute", ![q].id = i]
    /\ UNCHANGED <<rateVars, keyVars, faults, abandoned, calls>>

StreamRefused(q) ==
    /\ At(q, "handler") /\ ~req[q].row.streaming
    /\ Answered(q)
    /\ UNCHANGED <<rateVars, keyVars, faults, log, abandoned, calls>>

Charge(k, n) == dayBuckets' = [dayBuckets EXCEPT ![k] = RecordTokens(@, now, n)]

(* Mutant: the key's total is not touched.                                 *)
ExecuteOkUntouched(q) ==
    /\ At(q, "execute")
    /\ \E n \in Answers :
          /\ req' = [req EXCEPT ![q].at = "finish", ![q].tokens = n, ![q].ok = TRUE]
          /\ Charge(req[q].key, n)
    /\ UNCHANGED <<now, rpmBuckets, kv, keyVars, faults, log, abandoned, calls>>

(* execute returns an answer.  recordTokenUsage runs in the same step.     *)
ExecuteOk(q) ==
    /\ At(q, "execute")
    /\ \E n \in Answers :
          /\ req' = [req EXCEPT ![q].at = "touch", ![q].tokens = n, ![q].ok = TRUE]
          /\ Charge(req[q].key, n)
    /\ UNCHANGED <<now, rpmBuckets, kv, keyVars, faults, log, abandoned, calls>>

(* execute returns a stream, which streamResponse has now read to its end, *)
(* with [DONE] or with an error event: both are a success of no tokens.    *)
ExecuteStream(q) ==
    /\ At(q, "execute") /\ req[q].row.streaming
    /\ req' = [req EXCEPT ![q].at = "touch", ![q].ok = TRUE]
    /\ Charge(req[q].key, 0)
    /\ UNCHANGED <<now, rpmBuckets, kv, keyVars, faults, log, abandoned, calls>>

(* Mutant: an error result is thrown before the log row is finished.       *)
ExecuteFailedUnlogged(q) ==
    /\ At(q, "execute")
    /\ Answered(q)
    /\ UNCHANGED <<rateVars, keyVars, faults, log, abandoned, calls>>

(* execute returns an error result.                                        *)
ExecuteFailed(q) ==
    /\ At(q, "execute")
    /\ Goto(q, "finish")
    /\ UNCHANGED <<rateVars, keyVars, faults, log, abandoned, calls>>

(* touchUsage increments in the database, not from what was read.          *)
TouchUsage(q) ==
    /\ At(q, "touch")
    /\ keys' = [keys EXCEPT ![req[q].key].totalTokens = @ + req[q].tokens]
    /\ Goto(q, "finish")
    /\ UNCHANGED <<rateVars, issued, known, marking, demoOut, dead, patches, faults,
                   log, abandoned, calls>>

(* Mutant: finish looks for a row that is not finished until it finds one. *)
FinishUnfinished(q) ==
    /\ At(q, "finish") /\ ~log[req[q].id].finished
    /\ log' = [log EXCEPT ![req[q].id].finished = TRUE,
                          ![req[q].id].tokens = IF req[q].ok THEN req[q].tokens ELSE @]
    /\ Answered(q)
    /\ UNCHANGED <<rateVars, keyVars, faults, abandoned, calls>>

(* logger.finish: the cost estimate never throws; the update is the last   *)
(* query, and the event's listeners cannot fail the request.               *)
FinishLog(q) ==
    /\ At(q, "finish")
    /\ log' = [log EXCEPT ![req[q].id].finished = TRUE,
                          ![req[q].id].tokens = IF req[q].ok THEN req[q].tokens ELSE @]
    /\ Answered(q)
    /\ UNCHANGED <<rateVars, keyVars, faults, abandoned, calls>>

-----------------------------------------------------------------------------
(* POST /v1/embeddings: no log row, no touchUsage.                         *)

(* enforceDailyEmbeddings, in the step that starts the handler.            *)
StartEmbedding(q) ==
    LET k == req[q].key IN
    /\ At(q, "handler")
    /\ dayBuckets' = [dayBuckets EXCEPT ![k] = DayAfter(@, now, "embeddings", TheLimits(q).embeddings)]
    /\ IF DayAllows(dayBuckets[k], now, "embeddings", TheLimits(q).embeddings)
       THEN Goto(q, "embed") ELSE Answered(q)
    /\ UNCHANGED <<now, rpmBuckets, kv, keyVars, faults, log, abandoned, calls>>

(* The first candidate that answers, or the mock, is charged; when all     *)
(* fail nothing is.                                                        *)
Embed(q) ==
    /\ At(q, "embed")
    /\ \/ \E n \in Answers : Charge(req[q].key, n)
       \/ UNCHANGED dayBuckets
    /\ Answered(q)
    /\ UNCHANGED <<now, rpmBuckets, kv, keyVars, faults, log, abandoned, calls>>

-----------------------------------------------------------------------------
(* A query of the request fails, or execute rejects: the error handler     *)
(* answers and nothing else is written.                                    *)
Throws(q) ==
    /\ req[q].at \notin {"idle", "resolved"}
    /\ Fault
    /\ CutOff({q})
    /\ Answered(q)
    /\ UNCHANGED <<rateVars, keyVars, log, calls>>

(* The process stops and starts: requests and in-process counters are      *)
(* gone, the tables stay.                                                  *)
Restart ==
    /\ Fault
    /\ rpmBuckets' = [k \in Key |-> NoBucket]
    /\ dayBuckets' = [k \in Key |-> NoDay]
    /\ kv' = [c \in Counter |-> NoEntry]
    /\ req' = [q \in Request |-> Idle]
    /\ CutOff(Request)
    /\ marking' = [k \in Key |-> 0]
    /\ UNCHANGED <<now, keys, issued, known, demoOut, dead, patches, log, calls>>

Progress(q) ==
    \/ Admit(q) \/ OrgRpm(q) \/ DemoQuota(q)
    \/ StartLog(q) \/ StreamRefused(q) \/ ExecuteOk(q) \/ ExecuteStream(q)
    \/ ExecuteFailed(q) \/ TouchUsage(q) \/ FinishLog(q)
    \/ StartEmbedding(q) \/ Embed(q)

(* Time passes while requests are in progress.                             *)
Tock ==
    /\ Tick
    /\ patches < MaxPatches /\ patches' = patches + 1
    /\ UNCHANGED <<keys, issued, known, marking, demoOut, dead, faults, chatVars>>

Next ==
    \/ \E q \in Request : Resolve(q) \/ Progress(q) \/ Throws(q)
    \/ KeyStep /\ UNCHANGED chatVars
    \/ Tock
    \/ Restart

Spec == Init /\ [][Next]_vars

(* The event loop resumes every await: queries end, execute ends because   *)
(* the adapters time out, and so does a stream.                            *)
FairSpec == Spec /\ \A q \in Request : WF_vars(Progress(q))

-----------------------------------------------------------------------------
(* The types, and what secrets open (VirtualKeys), with requests between   *)
(* any two queries.                                                        *)
RequestsInOrder == TypeOK /\ KeysInOrder

(* Tokens are checked before the call and charged after it: a day's tokens *)
(* exceed a limit that nobody lowers by at most what the requests in       *)
(* progress bring in.                                                      *)
OvershootBounded ==
    \A k \in Key :
        LET limit == keys[k].limits.tokens
            b == dayBuckets[k] IN
        limit # 0 => b.tokens <= limit - 1 + Max(Answers) * Cardinality(Request)

(* A log row that is not finished has a request that will finish it, or    *)
(* one that a failing query or a restart cut off.                          *)
PendingExplained ==
    \A i \in ReqId : log[i].exists /\ ~log[i].finished =>
        i \in abandoned \/ \E q \in Request : HasRow(q) /\ req[q].id = i

(* The log never accounts for more tokens than the keys were charged, with *)
(* request ids that are used again and requests cut off in the middle.     *)
LogTokens == [i \in ReqId |-> log[i].tokens]
KeyTokens == [k \in Key |-> keys[k].totalTokens]
LogWithinUsage ==
    MapThenSumSet(LAMBDA i : LogTokens[i], ReqId) <= MapThenSumSet(LAMBDA k : KeyTokens[k], Key)

(* Every request is answered.                                              *)
RequestsAnswered == \A q \in Request : []<>At(q, "idle")
=============================================================================
