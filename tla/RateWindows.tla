----------------------------- MODULE RateWindows ----------------------------
(***************************************************************************)
(* The three kinds of quota under a clock: minute buckets, day buckets and *)
(* key-value counters, with a history of what was let through and what was *)
(* refused at each tick.  They share no state, so a behaviour follows one  *)
(* kind.                                                                   *)
(***************************************************************************)
EXTENDS RateLimits, FiniteSetsExt

CONSTANTS
    Limit,      \* requests per window, the same for all kinds
    MaxRefused  \* bound: refusals of a counter in one window

ASSUME WindowAssumption == Limit \in Nat \ {0} /\ MaxRefused \in Nat

VARIABLES
    kind,      \* the kind of quota this behaviour follows
    passed,    \* passed[x][t]: requests of x let through at tick t
    refused    \* refused[x]: the ticks at which a request of x was refused

windowVars == <<rateVars, kind, passed, refused>>

(* The fields of a day bucket that are charged before the call; each key   *)
(* has a count of its own for either.                                      *)
Field == {"requests", "embeddings"}
Subject == Key \cup Counter \cup (Key \X Field)

WindowTypeOK ==
    /\ RateTypeOK
    /\ kind \in {"minute", "day", "counter", "none"}
    /\ passed \in [Subject -> [0..MaxTime -> Nat]]
    /\ refused \in [Subject -> SUBSET (0..MaxTime)]

WindowInit ==
    /\ RateInit
    /\ kind \in {"minute", "day", "counter"}
    /\ passed = [x \in Subject |-> [t \in 0..MaxTime |-> 0]]
    /\ refused = [x \in Subject |-> {}]

Note(x, ok) ==
    /\ passed' = IF ok THEN [passed EXCEPT ![x][now] = @ + 1] ELSE passed
    /\ refused' = IF ok THEN refused ELSE [refused EXCEPT ![x] = @ \cup {now}]
    /\ UNCHANGED kind

(* One request against the minute bucket of key k.                         *)
KeyRequest(k) ==
    /\ kind = "minute"
    /\ Note(k, RpmAllows(rpmBuckets[k], now, Limit))
    /\ rpmBuckets' = [rpmBuckets EXCEPT ![k] = RpmAfter(@, now, Limit)]
    /\ UNCHANGED <<now, dayBuckets, kv>>

(* One chat or embedding request against the day bucket of key k.          *)
DayRequest(k, field) ==
    /\ kind = "day"
    /\ Note(<<k, field>>, DayAllows(dayBuckets[k], now, field, Limit))
    /\ dayBuckets' = [dayBuckets EXCEPT ![k] = DayAfter(@, now, field, Limit)]
    /\ UNCHANGED <<now, rpmBuckets, kv>>

(* An answer's tokens, recorded in the same bucket.                        *)
DayTokens(k) ==
    /\ kind = "day"
    /\ dayBuckets[k].tokens = 0 \/ dayBuckets[k].day # Today(now)
    /\ dayBuckets' = [dayBuckets EXCEPT ![k] = RecordTokens(@, now, 1)]
    /\ UNCHANGED <<now, rpmBuckets, kv, kind, passed, refused>>

(* One request against the counter c, as enforceOrgRpmAsync makes it.      *)
CounterRequest(c) ==
    /\ kind = "counter"
    /\ Gone(kv[c], now) \/ kv[c].value < Limit + MaxRefused
    /\ kv' = [kv EXCEPT ![c] = Incr(@, now, Minute)]
    /\ Note(c, kv'[c].value <= Limit)
    /\ UNCHANGED <<now, rpmBuckets, dayBuckets>>

WindowNext ==
    \/ Tick /\ UNCHANGED <<kind, passed, refused>>
    \/ \E k \in Key : KeyRequest(k) \/ DayTokens(k)
    \/ \E k \in Key, field \in Field : DayRequest(k, field)
    \/ \E c \in Counter : CounterRequest(c)

WindowSpec == WindowInit /\ [][WindowNext]_windowVars

-----------------------------------------------------------------------------
Between(f, from, to) == MapThenSumSet(LAMBDA t : f[t], {t \in 0..MaxTime : from <= t /\ t <= to})

(* Fixed windows let at most twice the limit through in any stretch of one *)
(* window, wherever it starts (enforceRpm, incrAndExpire).                 *)
AtMostTwice(f, span) == \A t \in 0..MaxTime : Between(f, t, t + span) <= 2 * Limit

(* Whoever is refused has had its limit in the window that ends then: an   *)
(* expired window never refuses, and refusals do not prolong one.          *)
RefusedForCause(f, ticks, span) == \A t \in ticks : Between(f, t - span, t) >= Limit

(* The day's requests and embeddings share a bucket with its tokens and    *)
(* keep their own counts: each is let through exactly up to its limit on   *)
(* each day, whoever opens the day's bucket (enforceDailyRequests,         *)
(* enforceDailyEmbeddings, recordTokenUsage).                              *)
OnDayOf(f, t) == Between(f, (t \div Day) * Day, (t \div Day) * Day + Day - 1)
DailyLimitExact(f, ticks) ==
    \A t \in 0..MaxTime : OnDayOf(f, t) <= Limit /\ (t \in ticks => OnDayOf(f, t) = Limit)

(* A key's bucket covers its start and the Minute after it.                *)
KeySpan == Minute
CounterSpan == Minute - 1

(* What the fixed windows and the daily buckets make of a limit, once there*)
(* is traffic of some kind.                                                *)
QuotasKept ==
    /\ kind # "none" => WindowTypeOK
    /\ kind = "minute" => \A k \in Key :
           AtMostTwice(passed[k], KeySpan) /\ RefusedForCause(passed[k], refused[k], KeySpan)
    /\ kind = "counter" => \A c \in Counter :
           AtMostTwice(passed[c], CounterSpan) /\ RefusedForCause(passed[c], refused[c], CounterSpan)
    /\ kind = "day" => \A x \in Key \X Field : DailyLimitExact(passed[x], refused[x])
=============================================================================
