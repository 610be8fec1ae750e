------------------------------ MODULE Reports ------------------------------
(***************************************************************************)
(* The request log and everything that is computed from it: the monthly    *)
(* report and the cost of a key, the spend leaderboard, the dashboard, its *)
(* time series, Prometheus, /v1/usage, the weekly report, budgets, the     *)
(* costs of organisations, the daily usage and the analysis of attempts.   *)
(* Each has its own idea of a window, of a failure and of what a request   *)
(* costs.  A request writes three times: when it begins, when the executor *)
(* has its attempts, and when the answer is known; either of the later     *)
(* writes may never come.  A client may choose the id of its request, and  *)
(* one that has the id of another writes on the row of that one, which     *)
(* keeps its key, its hour and whatever a later write leaves alone.        *)
(* A request has its attempts at most until the end of the hour after the  *)
(* one it began in.                                                        *)
(***************************************************************************)
EXTENDS Integers, SequencesExt

CONSTANTS
    LogKey,      \* virtual keys
    LogModel,    \* models, each of one provider
    Org,         \* Org[k]: the organisation and project of a key, or NoOrg
    NoOrg,
    Price,       \* Price[m]: what one token of m costs, or Null
    Null,        \* a column that is null
    Kinds,       \* what executors say of a failed call, with the status of ...
    StatusOf,    \* ... the error they, or a request without a route, end in
    DayTicks,    \* hours in a day
    MonthDays,   \* days in a calendar month
    Scopes,      \* days of the windows "day", "week" and "month"
    FirstHour,   \* bound: the hour in which the log is still empty ...
    MaxClock,    \* ... and the last one
    MaxRows,     \* bound: requests, and so rows of the log
    Top          \* length of the ranked lists

ASSUME ReportsAssumption ==
    /\ {DayTicks, MonthDays, Top} \subseteq Nat \ {0} /\ {FirstHour, MaxRows} \subseteq Nat
    /\ Scopes \in [{"day", "week", "month"} -> Nat \ {0}] /\ Scopes["day"] = 1
    /\ IsFiniteSet(LogKey) /\ Price \in [LogModel -> Nat \cup {Null}]
    /\ \A kd \in DOMAIN StatusOf : /\ StatusOf[kd] \in 400..599
                                   /\ StatusOf[kd] = 429 <=> kd = "rate_limited"
    /\ Null \notin Nat \cup LogKey \cup Kinds \cup DOMAIN StatusOf \cup {"rate_limited"}

VARIABLES
    clock,
    log,    \* request_logs with their route_attempts
    calls   \* the requests: the row each writes, and what it knows until it is answered

reportVars == <<clock, log, calls>>

Anon == Null  \* the key of a request that the administration sends
NewRow(k) == [key |-> k, at |-> clock, status |-> Null, kind |-> Null, model |-> Null,
              tokens |-> 0, cost |-> Null, tries |-> <<>>]
NewCall(k, i) == [row |-> i, key |-> k, at |-> clock, stage |-> "started",
                  model |-> Null, kind |-> Null]

ReportsInit == clock = FirstHour /\ log = <<>> /\ calls = <<>>

(* start: an upsert that leaves a row of that id as it is.                 *)
Begin(k) ==
    /\ Len(calls) < MaxRows
    /\ \/ /\ log' = Append(log, NewRow(k))
          /\ calls' = Append(calls, NewCall(k, Len(log) + 1))
       \/ \E i \in DOMAIN log : calls' = Append(calls, NewCall(k, i)) /\ UNCHANGED log
    /\ UNCHANGED clock

(* persistAttempts: the outcome of the attempt that succeeded, or of the   *)
(* last one.  A success leaves the kind alone.                             *)
Try(m, kd) == [model |-> m, kind |-> kd, at |-> clock]
Tries == {<<Try(m, kd)>> : m \in LogModel, kd \in Kinds \cup {Null}}
         \cup {<<Try(p[1], kd), Try(p[2], Null)>> :
                  p \in {q \in LogModel \X LogModel : q[1] # q[2]}, kd \in Kinds}
Routed(row, t) ==
    [row EXCEPT !.tries = @ \o t, !.model = Last(t).model,
                !.kind = IF Last(t).kind = Null THEN @ ELSE Last(t).kind,
                !.status = IF Last(t).kind = Null THEN 200 ELSE 502]
Knowing(call, t) ==
    [call EXCEPT !.stage = "routed", !.model = Last(t).model, !.kind = Last(t).kind]

Persist(c) ==
    /\ calls[c].stage = "started" /\ clock - calls[c].at <= 1
    /\ \E t \in Tries :
          /\ log' = [log EXCEPT ![calls[c].row] = Routed(@, t)]
          /\ calls' = [calls EXCEPT ![c] = Knowing(@, t)]
    /\ UNCHANGED clock

(* A test of the administration has a fresh id and only the executor's     *)
(* writes.                                                                 *)
TestRequest ==
    /\ Len(calls) < MaxRows
    /\ \E t \in Tries :
          /\ log' = Append(log, Routed(NewRow(Anon), t))
          /\ calls' = Append(calls, Knowing(NewCall(Anon, Len(log) + 1), t))
    /\ UNCHANGED clock

(* finish.  An answer that was not streamed says what it cost; one that was*)
(* failed keeps the last model that was tried, and its tokens.  It comes   *)
(* whether or not the executor's write has succeeded.                      *)
Finished(row, s, kd, m, n, c) ==
    [row EXCEPT !.status = s, !.kind = IF kd = Null THEN @ ELSE kd, !.model = IF m = Null THEN @ ELSE m,
                !.tokens = IF n = Null THEN @ ELSE n, !.cost = IF c = Null THEN @ ELSE c]
Estimate(m, n) == IF Price[m] = Null THEN Null ELSE n * Price[m]
Over(call) ==
    [row |-> call.row, key |-> call.key, at |-> 0, stage |-> "finished", model |-> Null, kind |-> Null]
Answer(c, row) ==
    /\ calls[c].key # Anon /\ calls[c].stage # "finished"
    /\ log' = [log EXCEPT ![calls[c].row] = row]
    /\ calls' = [calls EXCEPT ![c] = Over(@)]
    /\ UNCHANGED clock

FinishOk(c) ==
    /\ calls[c].kind = Null
    /\ \E m \in LogModel :
          /\ calls[c].stage = "routed" => m = calls[c].model
          /\ \/ Answer(c, Finished(log[calls[c].row], 200, Null, m, 1, Estimate(m, 1)))
             \/ Answer(c, Finished(log[calls[c].row], 200, Null, m, 0, Null))

FinishFailed(c) ==
    \E kd \in DOMAIN StatusOf :
       /\ calls[c].stage = "routed" => kd = calls[c].kind
       /\ Answer(c, Finished(log[calls[c].row], StatusOf[kd], kd, Null, Null, Null))

ClockTick == clock < MaxClock /\ clock' = clock + 1 /\ UNCHANGED <<log, calls>>

ReportsNext ==
    \/ \E k \in LogKey : Begin(k)
    \/ \E c \in DOMAIN calls : Persist(c) \/ FinishOk(c) \/ FinishFailed(c)
    \/ TestRequest \/ ClockTick

-----------------------------------------------------------------------------
(* Queries on the log: sets of rows, counted and summed.                   *)
Rows == DOMAIN log
Since(days) == {i \in Rows : log[i].at >= clock - days * DayTicks}
OfKey(k, S) == {i \in S : log[i].key = k}
Keyed(S) == {i \in S : log[i].key # Anon}
Below400(S) == {i \in S : log[i].status # Null /\ log[i].status < 400}
From400(S) == {i \in S : log[i].status # Null /\ log[i].status >= 400}
Billed(S) == {i \in S : log[i].cost # Null}
CostOf == [i \in Rows |-> IF log[i].cost = Null THEN 0 ELSE log[i].cost]
Cost(S) == SumFunctionOnSet(CostOf, S)
Tokens(S) == SumFunctionOnSet([i \in Rows |-> log[i].tokens], S)

(* Groups by a column, the costliest first.                                *)
Groups(column, S) ==
    {[name |-> n, rows |-> {i \in S : column[i] = n}] : n \in {column[i] : i \in S}}
ByCost(groups) ==
    CHOOSE q \in SetToSeqs(groups) :
        \A m, n \in DOMAIN q : m < n => Cost(q[m].rows) >= Cost(q[n].rows)
First(q, n) == SubSeq(q, 1, IF Len(q) < n THEN Len(q) ELSE n)
Spent(q) == SumFunction([n \in DOMAIN q |-> Cost(q[n].rows)])

KeyOfRow == [i \in Rows |-> log[i].key]
ModelOfRow == [i \in Rows |-> log[i].model]
KindOfRow == [i \in Rows |-> log[i].kind]
DayOf(t) == t \div DayTicks
LogDay(i) == DayOf(log[i].at)

(* Mutant: a month has the first instant of the next one.                  *)
InMonthOrNext(k, month) ==
    {i \in OfKey(k, Rows) : /\ log[i].at >= month * MonthDays * DayTicks
                            /\ log[i].at <= (month + 1) * MonthDays * DayTicks}

(* VirtualKeyReportService.buildMonthlyReport.                             *)
InMonth(k, month) ==
    {i \in OfKey(k, Rows) : /\ log[i].at >= month * MonthDays * DayTicks
                            /\ log[i].at < (month + 1) * MonthDays * DayTicks}
IsFail(i) == log[i].status = Null \/ log[i].status >= 400 \/ log[i].kind # Null
MonthlyReport(k, month) ==
    LET S == InMonth(k, month)
        fails == {i \in S : IsFail(i)}
    IN [requests |-> Cardinality(S), failed |-> Cardinality(fails),
        successful |-> Cardinality(S \ fails), tokens |-> Tokens(S), cost |-> Cost(S),
        daily |-> [d \in 0..MonthDays - 1 |->
                      {i \in S : LogDay(i) - month * MonthDays = d}],
        topModels |-> First(ByCost(Groups(ModelOfRow, S)), Top),
        errors |-> Groups(KindOfRow, fails)]

(* VirtualKeyCostService, VkSpendLeaderboardService.                       *)
KeyCost(k, days) ==
    LET S == OfKey(k, Since(days))
    IN [cost |-> Cost(Billed(S)), requests |-> Cardinality(S),
        successful |-> Cardinality(Below400(S)), billable |-> Cardinality(Billed(S)),
        topModels |-> First(ByCost(Groups(ModelOfRow, Billed(S))), Top)]
Leaderboard(days) ==
    LET all == ByCost(Groups(KeyOfRow, Keyed(Since(days))))
        shown == First(all, Top)
    IN [window |-> Spent(all), shown |-> Spent(shown), rows |-> shown,
        others |-> Len(all) - Len(shown), keys |-> Len(all)]

(* The dashboard, Prometheus and /v1/usage.                                *)
Dashboard ==
    LET S == Since(1)
    IN [requests |-> Cardinality(S), successes |-> Cardinality(Below400(S)),
        limited |-> Cardinality({i \in S : log[i].kind = "rate_limited"}),
        costToday |-> Cost(Billed(S)), costWeek |-> Cost(Billed(Since(Scopes["week"])))]
KeyUsage(k) ==
    LET S == OfKey(k, Since(1))
    IN [requests |-> Cardinality(S), failed |-> Cardinality(From400(S)), tokens |-> Tokens(S),
        byModel |-> Groups(ModelOfRow, S)]

(* The time series: the oldest rows of the window, at most max of them, in *)
(* buckets aligned to the clock; what is before the first is in none.      *)
FirstBucket(width, buckets) == (clock \div width - (buckets - 1)) * width
Oldest(S, max) == {i \in S : Cardinality({j \in S : j < i}) < max}
SeriesOf(width, buckets, max) ==
    LET taken == Oldest({i \in Rows : log[i].at >= clock - width * buckets}, max)
        start(b) == FirstBucket(width, buckets) + b * width
    IN [b \in 0..buckets - 1 |->
           {i \in taken : log[i].at >= start(b) /\ log[i].at < start(b) + width}]
Bucket(S) ==
    [requests |-> Cardinality(S), success |-> Cardinality(Below400(S)),
     failed |-> Cardinality(S \ Below400(S)), cost |-> Cost(S)]
StatusBucket(S) ==
    LET within(a, b) == {i \in S : log[i].status # Null /\ log[i].status >= a /\ log[i].status < b}
    IN [total |-> Cardinality(S), s2xx |-> Cardinality(within(200, 400)),
        s4xx |-> Cardinality(within(400, 500)), s5xx |-> Cardinality(within(500, 600)),
        none |-> Cardinality(S \ within(200, 600))]

(* The weekly report.                                                      *)
WeeklyReport ==
    LET S == Since(Scopes["week"])
    IN [requests |-> Cardinality(S), successful |-> Cardinality(Below400(S)),
        failed |-> Cardinality(S) - Cardinality(Below400(S)), cost |-> Cost(Billed(S)),
        topVks |-> First(ByCost(Groups(KeyOfRow, Keyed(S))), Top)]

(* BudgetService: a budget of a key or model that names none is of all.    *)
BudgetSpend(scope, target, days) ==
    Cost({i \in Billed(Since(days)) : /\ scope = "vk" /\ target # Null => log[i].key = target
                                      /\ scope = "model" /\ target # Null => log[i].model = target})

(* The costs of organisations, and below them of their projects.           *)
InOrg(S) == {i \in S : log[i].key # Anon /\ Org[log[i].key] # NoOrg}
OrgCosts(days) == Groups([i \in InOrg(Rows) |-> Org[log[i].key].org], InOrg(Since(days)))
ProjectCosts(days) ==
    Groups([i \in InOrg(Rows) |-> Org[log[i].key]],
           {i \in InOrg(Since(days)) : Org[log[i].key].project # Null})

(* The costs by model and by day.                                          *)
ModelCosts(days) == ByCost(Groups(ModelOfRow, Billed(Since(days))))
CostTrend(days) == Groups([i \in Rows |-> LogDay(i)], Billed(Since(days)))

(* aggregateDay, recentDaily and perVkDaily, of a day that was aggregated  *)
(* after its last request.                                                 *)
DayUsage(d, S) ==
    [requests |-> Cardinality({i \in S : LogDay(i) = d}),
     successes |-> Cardinality({i \in Below400(S) : LogDay(i) = d}),
     limits |-> Cardinality({i \in S : LogDay(i) = d /\ log[i].status = 429})]

(* route_attempts, by kind, by model and by request.                       *)
Attempts(days) ==
    {t \in UNION {{i} \X DOMAIN log[i].tries : i \in Rows} :
        log[t[1]].tries[t[2]].at >= clock - days * DayTicks}
AttemptOf(t) == log[t[1]].tries[t[2]]
FailedAttempts(days) == {t \in Attempts(days) : AttemptOf(t).kind # Null}

(* The metric of alert rules.                                              *)
ErrorRate(S) == IF S = {} THEN 0 ELSE (Cardinality(From400(S)) * 100) \div Cardinality(S)

-----------------------------------------------------------------------------
(* A row that two requests have written on, having the same id.            *)
Reused(i) == \E c, d \in DOMAIN calls : c # d /\ calls[c].row = i /\ calls[d].row = i

(* Such rows, where a success has kept the kind of a failure before it:    *)
(* the reports that look at the kind and those that look at the status     *)
(* differ about these, and about no others.                                *)
Misread(S) == {i \in Below400(S) : Reused(i) /\ log[i].kind # Null}

Sizes(sets) == SumFunction([d \in DOMAIN sets |-> Cardinality(sets[d])])

(* The reports of the months: the days, the outcomes and the models of a   *)
(* month make up its totals, and so does what usage_daily keeps of it, but *)
(* for the successes that the month counts as failed.                      *)
MonthsAddUp ==
    \A k \in LogKey : \A month \in 0..DayOf(clock) \div MonthDays :
        LET r == MonthlyReport(k, month)
            S == UNION {r.daily[d] : d \in DOMAIN r.daily}
            daily(f) == SumFunction([d \in 0..MonthDays - 1 |->
                                        DayUsage(month * MonthDays + d, OfKey(k, Rows))[f]])
        IN /\ r.requests = Sizes(r.daily)
           /\ r.requests = daily("requests")
           /\ r.successful + Cardinality(Misread(S)) = daily("successes")
           /\ r.failed = SumFunction([g \in r.errors |-> Cardinality(g.rows)])
           /\ r.cost = Cost(S) /\ Spent(r.topModels) <= r.cost
           /\ Len(r.topModels) < Top => Spent(r.topModels) = r.cost

(* ... and no row of a key is in two months, or in none.                   *)
EveryRequestReported ==
    \A i \in Keyed(Rows) :
        Cardinality({m \in 0..DayOf(clock) \div MonthDays : i \in InMonth(log[i].key, m)}) = 1

(* What a window has cost is the same by key, by model, by day, for a      *)
(* budget and for the dashboard, although tests are logged without a key:  *)
(* only where a request took the id of a test does its row cost anything,  *)
(* which is then no key's.                                                 *)
SpendAgrees ==
    \A s \in DOMAIN Scopes :
        LET days == Scopes[s]  total == Cost(Since(days))  board == Leaderboard(days) IN
        /\ total = board.window + Cost({i \in Since(days) \ Keyed(Rows) : Reused(i)})
        /\ total = Spent(ModelCosts(days))
        /\ total = SumFunction([g \in CostTrend(days) |-> Cost(g.rows)])
        /\ total = BudgetSpend("global", Null, days) /\ total = BudgetSpend("vk", Null, days)
        /\ s = "day" => total = Dashboard.costToday
        /\ s = "week" => total = Dashboard.costWeek /\ total = WeeklyReport.cost
        /\ \A k \in LogKey : KeyCost(k, days).cost = BudgetSpend("vk", k, days)
        /\ \A r \in ToSet(board.rows) :
              /\ KeyCost(r.name, days).requests = Cardinality(r.rows)
              /\ \A k \in LogKey : KeyCost(k, days).cost <= Cost(r.rows) \/ Len(board.rows) > 1
        /\ \A o \in OrgCosts(days) :
              Cost(UNION {p.rows : p \in {q \in ProjectCosts(days) : q.name.org = o.name}}) <= Cost(o.rows)

(* The reports differ about a request only while it is in progress, or if  *)
(* its id was used again: one that is not answered fails for the monthly   *)
(* and the weekly report and for both series, and does not for /v1/usage   *)
(* and the alert rules; and a row on which a failure was followed by a     *)
(* success, or a success by a failure, keeps the kind or the cost.         *)
FailuresAgree ==
    /\ \A i \in Rows :
          /\ IsFail(i) # (i \in Below400({i}) \ Misread({i}))
          /\ ~Reused(i) =>
                /\ log[i].status # Null => IsFail(i) = (i \in From400({i}))
                /\ log[i].tries # <<>> => IsFail(i) = (Last(log[i].tries).kind # Null)
                /\ (\E c \in DOMAIN calls : calls[c].row = i /\ calls[c].stage = "finished")
                      => (log[i].kind = "rate_limited") = (log[i].status = 429)
                /\ i \in Billed(Rows) => i \in Below400(Rows)
    /\ Dashboard.requests =
          SumFunction([k \in LogKey |-> KeyUsage(k).requests]) + Cardinality(Since(1) \ Keyed(Rows))
    /\ ErrorRate(Since(1)) <= 100
    /\ LET own(S) == Cardinality({t \in S : ~Reused(t[1])}) IN
       own(FailedAttempts(1)) + own({t \in Attempts(1) : t[2] = Len(log[t[1]].tries) /\ ~IsFail(t[1])})
          = own(Attempts(1))

(* Both series tell the same; together their buckets hold every request    *)
(* since the first one began, and when there are too many it is the newest *)
(* that are missing, which no field of the answer tells.                   *)
SeriesAgree ==
    \A max \in 1..MaxRows : \A width \in {1, DayTicks} :
        LET series == SeriesOf(width, 2, max)
            shown == UNION {series[b] : b \in DOMAIN series}
            missing == {i \in Rows : log[i].at >= FirstBucket(width, 2)} \ shown
        IN /\ \A b \in DOMAIN series :
                 LET B == Bucket(series[b])  T == StatusBucket(series[b]) IN
                 /\ B.requests = T.total /\ B.success = T.s2xx
                 /\ B.failed = T.s4xx + T.s5xx + T.none
           /\ Cardinality(shown) = Sizes(series)
           /\ \A i \in shown, j \in missing : i < j
           /\ missing # {} => Cardinality({i \in Rows : log[i].at >= clock - 2 * width}) > max

(* What the reports say of one log fits together, and where the id of a    *)
(* request was used again it is off by those rows and no others.           *)
ReportsAgree ==
    log # <<>> =>
        MonthsAddUp /\ EveryRequestReported /\ SpendAgrees /\ FailuresAgree /\ SeriesAgree
=============================================================================
