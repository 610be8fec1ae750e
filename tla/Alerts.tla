------------------------------- MODULE Alerts -------------------------------
(***************************************************************************)
(* The usage alerts of virtual keys, the balance alerts of providers, and  *)
(* what becomes of their error_events: resolved by an administrator, then  *)
(* purged.  A job is started by its timer or by an administrator, also     *)
(* while an earlier run of it is in progress.                              *)
(*                                                                         *)
(* One key with one daily limit and one provider.  Time is in hours; the   *)
(* usage of a key is what the log holds of the last AlertDay hours.        *)
(***************************************************************************)
EXTENDS Integers, FiniteSets, FiniteSetsExt

CONSTANTS
    Checker,     \* runs of jobs in progress at once
    AlertDay,    \* alertCooldownMs and the window of the usage, in hours
    Limit,       \* maxRequestsPerDay of the key
    Retention,   \* values of errorEventRetentionDays, in hours; 0 keeps for ever
    MaxClock,    \* bound: hours
    MaxUse,      \* bound: requests of the key in an hour
    MaxEvents,   \* bound: rows of error_events
    MaxFailures  \* bound: failing queries and restarts

ASSUME AlertAssumption ==
    /\ AlertDay \in Nat \ {0} /\ Limit \in Nat \ {0}
    /\ Retention \subseteq Nat
    /\ MaxClock \in Nat \ {0} /\ MaxUse \in Nat /\ MaxEvents \in Nat /\ MaxFailures \in Nat

VARIABLES
    clock,
    used,       \* used[t]: requests of the key logged in hour t
    cache,      \* alertCache: when the last usage alert was raised, or NeverAlerted
    job,        \* job[c]: a run of a job
    events,     \* error_events
    retention,  \* the setting
    left,       \* what is left of MaxFailures
    alerts      \* history: alerts[k][t]: alerts of kind k raised in hour t since boot

alertVars == <<clock, used, cache, job, events, retention, left, alerts>>

Clock == 1..MaxClock
NeverAlerted == -AlertDay
AlertKind == {"usage", "balance"}
NoJob == [at |-> "idle", sum |-> 0, days |-> 0]

AlertInit ==
    /\ clock = 1 /\ used = [t \in Clock |-> 0] /\ cache = NeverAlerted
    /\ job = [c \in Checker |-> NoJob]
    /\ events = {} /\ left = MaxFailures
    /\ retention \in Retention
    /\ alerts = [k \in AlertKind |-> [t \in Clock |-> 0]]

Doing(c, l) == job[c].at = l
JobAt(c, l) == job' = [job EXCEPT ![c].at = l]
JobEnds(c) == job' = [job EXCEPT ![c] = NoJob]
(* The history tells none, one and more.                                   *)
Raise(k) == alerts' = [alerts EXCEPT ![k][clock] = Min({@ + 1, 2})]

(* A row that is not resolved yet has resolvedAt 0.                        *)
Written == /\ Cardinality(events) < MaxEvents
           /\ \E n \in 1..MaxEvents :
                 /\ \A e \in events : e.n # n
                 /\ events' = events \cup {[n |-> n, resolvedAt |-> 0]}

-----------------------------------------------------------------------------
(* VkUsageAlertService.checkAll.                                           *)

KeyUsed ==
    /\ used[clock] < MaxUse
    /\ used' = [used EXCEPT ![clock] = @ + 1]
    /\ UNCHANGED <<clock, cache, job, events, retention, left, alerts>>

UsageSum(c) ==
    /\ Doing(c, "idle")
    /\ job' = [job EXCEPT ![c] = [NoJob EXCEPT !.at = "decide",
                  !.sum = MapThenSumSet(LAMBDA t : used[t], {t \in Clock : t > clock - AlertDay})]]
    /\ UNCHANGED <<clock, used, cache, events, retention, left, alerts>>

OverThreshold(c) == 5 * job[c].sum >= 4 * Limit

(* Mutant: the cache is looked at and never written.                       *)
UsageDecideUnmarked(c) ==
    /\ Doing(c, "decide")
    /\ IF OverThreshold(c) /\ clock - cache >= AlertDay
       THEN Raise("usage") /\ JobAt(c, "usageEvent")
       ELSE JobEnds(c) /\ UNCHANGED alerts
    /\ UNCHANGED <<clock, used, cache, events, retention, left>>

(* maybeEmit up to its first await: looking at the cache and marking it is *)
(* one step.                                                               *)
UsageDecide(c) ==
    /\ Doing(c, "decide")
    /\ IF OverThreshold(c) /\ clock - cache >= AlertDay
       THEN cache' = clock /\ Raise("usage") /\ JobAt(c, "usageEvent")
       ELSE JobEnds(c) /\ UNCHANGED <<cache, alerts>>
    /\ UNCHANGED <<clock, used, events, retention, left>>

(* ProviderBalanceCheckService.checkAll finds a balance low: its tracker,  *)
(* and so the tracker's alertCache, is new in every run.  The forecast     *)
(* route has a tracker of its own too, and writes no row.                  *)
BalanceCheck(c) ==
    /\ Doing(c, "idle")
    /\ Raise("balance")
    /\ JobAt(c, "balanceEvent") \/ UNCHANGED job
    /\ UNCHANGED <<clock, used, cache, events, retention, left>>

(* The row; an error is only logged, and the alert stays marked.           *)
AlertEvent(c) ==
    /\ job[c].at \in {"usageEvent", "balanceEvent"}
    /\ \/ Written /\ UNCHANGED left
       \/ left > 0 /\ left' = left - 1 /\ UNCHANGED events
    /\ JobEnds(c)
    /\ UNCHANGED <<clock, used, cache, retention, alerts>>

-----------------------------------------------------------------------------
(* AlertsCenterService.resolve and RetentionPolicyService.                 *)

ResolveAlert(e) ==
    /\ e.resolvedAt = 0
    /\ events' = (events \ {e}) \cup {[e EXCEPT !.resolvedAt = clock]}
    /\ UNCHANGED <<clock, used, cache, job, retention, left, alerts>>

SetRetention ==
    /\ retention' \in Retention \ {retention}
    /\ UNCHANGED <<clock, used, cache, job, events, left, alerts>>

(* runPurge reads the policy and goes on to the other domains first.       *)
PurgeRead(c) ==
    /\ Doing(c, "idle") /\ retention > 0
    /\ job' = [job EXCEPT ![c] = [NoJob EXCEPT !.at = "purge", !.days = retention]]
    /\ UNCHANGED <<clock, used, cache, events, retention, left, alerts>>

Expired(e, days) == e.resolvedAt # 0 /\ e.resolvedAt < clock - days

PurgeDelete(c) ==
    /\ Doing(c, "purge")
    /\ events' = {e \in events : ~Expired(e, job[c].days)}
    /\ JobEnds(c)
    /\ UNCHANGED <<clock, used, cache, retention, left, alerts>>

-----------------------------------------------------------------------------
(* A query of a job fails: cron logs it, and the next run starts afresh.   *)
JobFails(c) ==
    /\ job[c].at \in {"decide", "purge"}
    /\ left > 0 /\ left' = left - 1
    /\ JobEnds(c)
    /\ UNCHANGED <<clock, used, cache, events, retention, alerts>>

(* The cache is the process's.                                             *)
AlertRestart ==
    /\ left > 0 /\ left' = left - 1
    /\ cache' = NeverAlerted /\ job' = [c \in Checker |-> NoJob]
    /\ alerts' = [k \in AlertKind |-> [t \in Clock |-> 0]]
    /\ UNCHANGED <<clock, used, events, retention>>

AlertTick ==
    /\ clock < MaxClock /\ clock' = clock + 1
    /\ UNCHANGED <<used, cache, job, events, retention, left, alerts>>

AlertNext ==
    \/ KeyUsed \/ SetRetention \/ AlertRestart \/ AlertTick
    \/ \E c \in Checker :
          \/ UsageSum(c) \/ UsageDecide(c) \/ BalanceCheck(c) \/ AlertEvent(c) \/ JobFails(c)
          \/ PurgeRead(c) \/ PurgeDelete(c)
    \/ \E e \in events : ResolveAlert(e)

AlertSpec == AlertInit /\ [][AlertNext]_alertVars

-----------------------------------------------------------------------------
OncePerDay(k) ==
    \A t \in Clock :
        MapThenSumSet(LAMBDA s : alerts[k][s], {s \in Clock : s \in t..(t + AlertDay - 1)}) <= 1

(* However its runs overlap, a process raises one usage alert a day for a  *)
(* limit of a key (maybeEmit's alertCache).                                *)
UsageAlertOnce == OncePerDay("usage")

(* The same of balance alerts, which the comment at the balance job says   *)
(* its alertCache prevents for 24 hours.                                   *)
(* The code does not keep it: each check makes a tracker of its own.       *)
BalanceAlertOnce == OncePerDay("balance")

(* An alert that nobody has resolved is never purged, whatever retention   *)
(* was set or read before (runPurge), and a step never raises the usage    *)
(* alert a second time within a day.                                       *)
AlertsKept ==
    [][/\ UsageAlertOnce'
       /\ \A e \in events : e.resolvedAt = 0 => \E f \in events' : f.n = e.n]_alertVars
=============================================================================
