----------------------------- MODULE RateLimits -----------------------------
(***************************************************************************)
(* The counters behind every quota: the per-key minute bucket and day      *)
(* bucket of virtual-key-auth.ts, and the key-value store's incrAndExpire  *)
(* behind the organisation, demo and address limits.  A limit of 0 stands  *)
(* for null: no limit.                                                     *)
(*                                                                         *)
(* An absent bucket is one with count 0, day 0 or expiresAt 0: the code    *)
(* never stores such a bucket.                                             *)
(***************************************************************************)
EXTENDS Integers

CONSTANTS
    Key,        \* virtual keys that have an in-process bucket
    Counter,    \* keys of the key-value store
    Minute,     \* length of a window, in ticks of the clock
    Day,        \* length of a day, in ticks
    MaxTime     \* bound: ticks of the clock

ASSUME RateAssumption ==
    /\ Minute \in Nat \ {0}
    /\ Day \in Nat \ {0}
    /\ MaxTime \in Nat

VARIABLES
    now,         \* Date.now()
    rpmBuckets,  \* rpmBuckets[k]: the minute bucket of key k
    dayBuckets,  \* dayBuckets[k]: the day bucket of key k
    kv           \* kv[c]: the counter and when it expires

rateVars == <<now, rpmBuckets, dayBuckets, kv>>

NoBucket == [windowStart |-> 0, count |-> 0]
NoDay == [day |-> 0, requests |-> 0, tokens |-> 0, embeddings |-> 0]
NoEntry == [value |-> 0, expiresAt |-> 0]

RateTypeOK ==
    /\ now \in Nat
    /\ rpmBuckets \in [Key -> [windowStart : Nat, count : Nat]]
    /\ dayBuckets \in [Key -> [day : Nat, requests : Nat, tokens : Nat, embeddings : Nat]]
    /\ kv \in [Counter -> [value : Nat, expiresAt : Nat]]

(* A process starts with empty maps; so does MemoryKvStore.                *)
NoBuckets ==
    /\ rpmBuckets = [k \in Key |-> NoBucket]
    /\ dayBuckets = [k \in Key |-> NoDay]
    /\ kv = [c \in Counter |-> NoEntry]

RateInit == now = 0 /\ NoBuckets

(***************************************************************************)
(* enforceRpm.  The bucket is replaced once more than Minute has passed.   *)
(***************************************************************************)
Fresh(b, t) == b.count = 0 \/ t - b.windowStart > Minute

RpmAllows(b, t, limit) == limit = 0 \/ Fresh(b, t) \/ b.count < limit

RpmAfter(b, t, limit) ==
    IF limit = 0 \/ ~RpmAllows(b, t, limit) THEN b
    ELSE IF Fresh(b, t) THEN [windowStart |-> t, count |-> 1]
    ELSE [b EXCEPT !.count = @ + 1]

(***************************************************************************)
(* enforceDailyRequests, enforceDailyEmbeddings, enforceDailyTokens and    *)
(* recordTokenUsage share one bucket per key and day; whoever comes first  *)
(* on a new day replaces it.                                               *)
(***************************************************************************)
Today(t) == 1 + t \div Day

DayAllows(b, t, field, limit) == limit = 0 \/ b.day # Today(t) \/ b[field] < limit

Of(b, t) == IF b.day = Today(t) THEN b ELSE [NoDay EXCEPT !.day = Today(t)]

DayAfter(b, t, field, limit) ==
    IF limit = 0 \/ ~DayAllows(b, t, field, limit) THEN b
    ELSE [Of(b, t) EXCEPT ![field] = @ + 1]

RecordTokens(b, t, n) == [Of(b, t) EXCEPT !.tokens = @ + n]

(***************************************************************************)
(* incrAndExpire of both stores: the time to live is set with a new entry  *)
(* and never moved.  The caller compares the value after the increment, so *)
(* a refused call counts as well.                                          *)
(***************************************************************************)
Gone(e, t) == e.expiresAt <= t

(* Mutant: every increment moves the expiry, as a plain EXPIRE would.      *)
SlidingIncr(e, t, ttl) ==
    [value |-> IF Gone(e, t) THEN 1 ELSE e.value + 1, expiresAt |-> t + ttl]

Incr(e, t, ttl) ==
    IF Gone(e, t) THEN [value |-> 1, expiresAt |-> t + ttl]
    ELSE [e EXCEPT !.value = @ + 1]

Tick ==
    /\ now < MaxTime
    /\ now' = now + 1
    /\ UNCHANGED <<rpmBuckets, dayBuckets, kv>>
=============================================================================
