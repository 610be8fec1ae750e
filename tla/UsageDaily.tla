----------------------------- MODULE UsageDaily -----------------------------
(***************************************************************************)
(* The usage-aggregate job: every hour, and once at boot, it counts the    *)
(* request logs of today and of yesterday and replaces the rows of         *)
(* usage_daily.  The logs are read before the transaction that replaces    *)
(* the rows, and nothing keeps two runs apart: setInterval does not wait   *)
(* for the last one.                                                       *)
(*                                                                         *)
(* One virtual key; of a log row its outcome.  A request lasts at most     *)
(* until the end of the hour after the one it started in.                  *)
(***************************************************************************)
EXTENDS Integers, FiniteSetsExt

CONSTANTS
    Runner,       \* runs in progress at once
    HoursPerDay,  \* 24; with one a request of yesterday could end after the last run that
                  \* looks at it
    MaxHours,     \* bound: hours
    MaxLogs,      \* bound: requests logged
    MaxUpsets     \* bound: failing queries and restarts

ASSUME UsageAssumption ==
    /\ HoursPerDay \in Nat \ {0, 1} /\ MaxHours \in Nat
    /\ MaxLogs \in Nat /\ MaxUpsets \in Nat

VARIABLES
    hour,
    logs,     \* logs[h]: request_logs with startedAt in hour h
    daily,    \* daily[d]: the row of usage_daily for day d
    run,      \* run[r]: a run of aggregateRecent and what it read
    fired,    \* the timer has fired this hour
    up,       \* the process runs
    upsets,
    smooth   \* history: no query failed, no restart, and no two runs at once

usageVars == <<hour, logs, daily, run, fired, up, upsets, smooth>>

Hour == 0..MaxHours
DayOf(h) == h \div HoursPerDay
UsageDay == 0..DayOf(MaxHours)
HoursOf(d) == {h \in Hour : DayOf(h) = d}
NoUsage == [requests |-> 0, successes |-> 0]
NoRun == [at |-> "idle", today |-> 0, back |-> 0, read |-> NoUsage]

UsageInit ==
    /\ hour = 0 /\ fired = FALSE /\ up = TRUE /\ upsets = MaxUpsets /\ smooth = TRUE
    /\ logs = [h \in Hour |-> [open |-> 0, ok |-> 0, failed |-> 0]]
    /\ daily = [d \in UsageDay |-> NoUsage]
    /\ run = [r \in Runner |-> NoRun]

AnyRun == \E r \in Runner : run[r].at # "idle"
Upset == upsets > 0 /\ upsets' = upsets - 1 /\ smooth' = FALSE

(* A log that is not finished counts as a request and not as a success.    *)
Requests == [h \in Hour |-> logs[h].open + logs[h].ok + logs[h].failed]
Successes == [h \in Hour |-> logs[h].ok]

LogStart ==
    /\ up /\ MapThenSumSet(LAMBDA h : Requests[h], Hour) < MaxLogs
    /\ logs' = [logs EXCEPT ![hour].open = @ + 1]
    /\ UNCHANGED <<hour, daily, run, fired, up, upsets, smooth>>

LogFinish(h) ==
    /\ up /\ logs[h].open > 0
    /\ \/ logs' = [logs EXCEPT ![h].open = @ - 1, ![h].ok = @ + 1]
       \/ logs' = [logs EXCEPT ![h].open = @ - 1, ![h].failed = @ + 1]
    /\ UNCHANGED <<hour, daily, run, fired, up, upsets, smooth>>

(* The timer's callback, which runs beside one that has not ended.         *)
Fire(r) ==
    /\ up /\ ~fired /\ run[r].at = "idle"
    /\ fired' = TRUE
    /\ smooth' = (smooth /\ ~AnyRun)
    /\ run' = [run EXCEPT ![r] = [NoRun EXCEPT !.at = "read", !.today = DayOf(hour)]]
    /\ UNCHANGED <<hour, logs, daily, up, upsets>>

Counted(d) ==
    [requests |-> MapThenSumSet(LAMBDA h : Requests[h], HoursOf(d)),
     successes |-> MapThenSumSet(LAMBDA h : Successes[h], HoursOf(d))]

TheDay(r) == run[r].today - run[r].back

AggregateRead(r) ==
    /\ run[r].at = "read"
    /\ run' = [run EXCEPT ![r].at = "write",
                          ![r].read = IF TheDay(r) \in UsageDay THEN Counted(TheDay(r)) ELSE NoUsage]
    /\ UNCHANGED <<hour, logs, daily, fired, up, upsets, smooth>>

Replaced(d, read) == read

(* Mutant: only today.                                                     *)
AfterDayOnly(back) == "idle"

AfterDay(back) == IF back = 0 THEN "read" ELSE "idle"

(* deleteMany and createMany in one transaction, then the day before.      *)
AggregateWrite(r) ==
    /\ run[r].at = "write"
    /\ daily' = [d \in UsageDay |-> IF d = TheDay(r) THEN Replaced(d, run[r].read)
                                ELSE daily[d]]
    /\ run' = [run EXCEPT ![r] = IF AfterDay(@.back) = "idle" THEN NoRun
                                 ELSE [@ EXCEPT !.at = "read", !.back = 1, !.read = NoUsage]]
    /\ UNCHANGED <<hour, logs, fired, up, upsets, smooth>>

(* A query fails: the run is over, and the timer goes on.                  *)
AggregateFails(r) ==
    /\ run[r].at # "idle" /\ Upset
    /\ run' = [run EXCEPT ![r] = NoRun]
    /\ UNCHANGED <<hour, logs, daily, fired, up>>

(* Requests in progress never finish, and count as failures.               *)
Stop ==
    /\ up /\ Upset
    /\ up' = FALSE /\ run' = [r \in Runner |-> NoRun]
    /\ logs' = [h \in Hour |-> [open |-> 0, ok |-> logs[h].ok,
                                failed |-> logs[h].failed + logs[h].open]]
    /\ UNCHANGED <<hour, daily, fired>>

(* The boot's own run; the next timer is an hour away.                     *)
Boot(r) ==
    /\ ~up /\ up' = TRUE /\ fired' = TRUE
    /\ run' = [run EXCEPT ![r] = [NoRun EXCEPT !.at = "read", !.today = DayOf(hour)]]
    /\ UNCHANGED <<hour, logs, daily, upsets, smooth>>

NextHour ==
    /\ hour < MaxHours
    /\ up => fired /\ \A h \in Hour : h < hour => logs[h].open = 0
    /\ hour' = hour + 1 /\ fired' = FALSE
    /\ UNCHANGED <<logs, daily, run, up, upsets, smooth>>

UsageNext ==
    \/ LogStart \/ Stop \/ NextHour
    \/ \E h \in Hour : LogFinish(h)
    \/ \E r \in Runner : Fire(r) \/ AggregateRead(r) \/ AggregateWrite(r)
                         \/ AggregateFails(r) \/ Boot(r)

UsageSpec == UsageInit /\ [][UsageNext]_usageVars

-----------------------------------------------------------------------------
(* What usage_daily says of a day was true of its logs at some time: runs  *)
(* that overlap, fail or are cut off never count a request twice.          *)
UsageWithinLogs ==
    \A d \in UsageDay : /\ daily[d].requests <= Counted(d).requests
                        /\ daily[d].successes <= Counted(d).successes

(* A day that no run will look at again is complete, the requests that     *)
(* ran past its midnight included, as long as the jobs ran one after the   *)
(* other and nothing failed (aggregateRecent takes two days).              *)
ClosedDaysComplete ==
    smooth /\ ~AnyRun => \A d \in UsageDay : d + 1 < DayOf(hour) => daily[d] = Counted(d)
(* Both: usage_daily never says too much, and in the end not too little.   *)
UsageIsTrue == UsageWithinLogs /\ ClosedDaysComplete
=============================================================================
