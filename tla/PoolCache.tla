------------------------------ MODULE PoolCache ------------------------------
(***************************************************************************)
(* getCachedPool and invalidatePoolCache, and the same algorithm behind    *)
(* createTtlCache: a process-wide value with a time to live, refreshed in  *)
(* the background once it is stale, loaded once for all waiting callers    *)
(* when there is none.                                                     *)
(*                                                                         *)
(* What is cached is a version of the database, counted by its writes.  A  *)
(* load reads it at one moment (the query of buildPool) and delivers it at *)
(* a later one (the then of its promise); anything may happen in between.  *)
(***************************************************************************)
EXTENDS Naturals, FiniteSets

CONSTANTS
    Reader,      \* requests that call getCachedPool
    Load,        \* loads that can be running at once
    NoLoad,      \* "no promise"
    NoValue,     \* "null", and "has not read yet"
    MaxVersion,  \* bound: writes to the source
    MaxFaults    \* bound: loads that fail

ASSUME CacheAssumption ==
    /\ NoLoad \notin Load
    /\ NoValue \notin Nat
    /\ MaxVersion \in Nat /\ MaxFaults \in Nat

VARIABLES
    source,      \* the database's version
    owed,        \* writers that have committed and will invalidate
    value,       \* state.value
    unexpired,   \* now < state.expiresAt
    inFlight,    \* state.inFlight
    refreshing,  \* state.refreshing
    load,        \* load[b]: what load b is for and what it has read
    reader,      \* reader[r]: what r waits for, and the pool it last got
    faults       \* loads failed so far

cacheVars == <<value, unexpired, inFlight, refreshing>>
poolVars == <<source, owed, cacheVars, load, reader, faults>>

Version == 0..MaxVersion
Idle == [for |-> "none", read |-> NoValue]
Running(b) == load[b].for # "none"

CacheTypeOK ==
    /\ source \in Version
    /\ owed \in Nat
    /\ value \in Version \cup {NoValue}
    /\ unexpired \in BOOLEAN
    /\ inFlight \in Load \cup {NoLoad}
    /\ refreshing \in BOOLEAN
    /\ load \in [Load -> [for : {"none", "caller", "refresh"}, read : Version \cup {NoValue}]]
    /\ reader \in [Reader -> [waits : Load \cup {NoLoad}, got : Version \cup {NoValue}]]
    /\ faults \in 0..MaxFaults

CacheInit ==
    /\ source = 0
    /\ owed = 0
    /\ value = NoValue
    /\ unexpired = FALSE
    /\ inFlight = NoLoad
    /\ refreshing = FALSE
    /\ load = [b \in Load |-> Idle]
    /\ reader = [r \in Reader |-> [waits |-> NoLoad, got |-> NoValue]]
    /\ faults = 0

-----------------------------------------------------------------------------
(* Writers.  An administrator's change and a discovery run invalidate when *)
(* they are through; the score updater and the auto-blacklist job do not.  *)
Write ==
    /\ source < MaxVersion
    /\ source' = source + 1
    /\ owed' \in {owed, owed + 1}
    /\ UNCHANGED <<cacheVars, load, reader, faults>>

Invalidate ==
    /\ owed > 0
    /\ owed' = owed - 1
    /\ value' = NoValue
    /\ unexpired' = FALSE
    /\ refreshing' = FALSE
    /\ UNCHANGED <<source, inFlight, load, reader, faults>>

Expire ==
    /\ unexpired
    /\ unexpired' = FALSE
    /\ UNCHANGED <<source, owed, value, inFlight, refreshing, load, reader, faults>>

-----------------------------------------------------------------------------
(* getCachedPool, up to its return or its await.                           *)
Free(r) == reader[r].waits = NoLoad
Return(r, v) == reader' = [reader EXCEPT ![r].got = v]
Await(r, b) == reader' = [reader EXCEPT ![r] = [waits |-> b, got |-> NoValue]]
Start(b, for) == ~Running(b) /\ load' = [load EXCEPT ![b] = [for |-> for, read |-> NoValue]]

Hit(r) ==
    /\ Free(r)
    /\ value # NoValue
    /\ unexpired \/ refreshing
    /\ Return(r, value)
    /\ UNCHANGED <<source, owed, cacheVars, load, faults>>

(* The first caller after the expiry gets the stale value and starts the   *)
(* refresh.                                                                *)
StaleHit(r) ==
    /\ Free(r)
    /\ value # NoValue
    /\ ~unexpired
    /\ ~refreshing
    /\ refreshing' = TRUE
    /\ \E b \in Load : Start(b, "refresh")
    /\ Return(r, value)
    /\ UNCHANGED <<source, owed, value, unexpired, inFlight, faults>>

Join(r) ==
    /\ Free(r)
    /\ value = NoValue
    /\ inFlight # NoLoad
    /\ Await(r, inFlight)
    /\ UNCHANGED <<source, owed, cacheVars, load, faults>>

Miss(r) ==
    /\ Free(r)
    /\ value = NoValue
    /\ inFlight = NoLoad
    /\ \E b \in Load : Start(b, "caller") /\ inFlight' = b /\ Await(r, b)
    /\ UNCHANGED <<source, owed, value, unexpired, refreshing, faults>>

-----------------------------------------------------------------------------
(* A load: its query reads, its promise resolves or rejects.               *)
Query(b) ==
    /\ Running(b)
    /\ load[b].read = NoValue
    /\ load' = [load EXCEPT ![b].read = source]
    /\ UNCHANGED <<source, owed, cacheVars, reader, faults>>

(* Mutant: the rejected promise is not cleared.                            *)
SettledOnlyByValue(b, v) ==
    /\ inFlight' = IF load[b].for = "caller" /\ v # NoValue THEN NoLoad ELSE inFlight
    /\ refreshing' = IF load[b].for = "refresh" THEN FALSE ELSE refreshing
    /\ reader' = [r \in Reader |->
                    IF reader[r].waits = b THEN [reader[r] EXCEPT !.waits = NoLoad, !.got = v]
                                           ELSE reader[r]]
    /\ load' = [load EXCEPT ![b] = Idle]

(* Mutant: refreshing is reset in the then and not in the finally.         *)
RefreshedOnlyByValue(b, v) ==
    /\ inFlight' = IF load[b].for = "caller" THEN NoLoad ELSE inFlight
    /\ refreshing' = IF load[b].for = "refresh" /\ v # NoValue THEN FALSE ELSE refreshing
    /\ reader' = [r \in Reader |->
                    IF reader[r].waits = b THEN [reader[r] EXCEPT !.waits = NoLoad, !.got = v]
                                           ELSE reader[r]]
    /\ load' = [load EXCEPT ![b] = Idle]

(* The load is over; whoever awaited it resumes with v, or throws.         *)
Settle(b, v) ==
    /\ inFlight' = IF load[b].for = "caller" THEN NoLoad ELSE inFlight
    /\ refreshing' = IF load[b].for = "refresh" THEN FALSE ELSE refreshing
    /\ reader' = [r \in Reader |->
                    IF reader[r].waits = b THEN [reader[r] EXCEPT !.waits = NoLoad, !.got = v]
                                           ELSE reader[r]]
    /\ load' = [load EXCEPT ![b] = Idle]

Resolve(b) ==
    /\ Running(b)
    /\ load[b].read # NoValue
    /\ value' = load[b].read
    /\ unexpired' = TRUE
    /\ Settle(b, load[b].read)
    /\ UNCHANGED <<source, owed, faults>>

Reject(b) ==
    /\ Running(b)
    /\ faults < MaxFaults
    /\ faults' = faults + 1
    /\ Settle(b, NoValue)
    /\ UNCHANGED <<source, owed, value, unexpired>>

-----------------------------------------------------------------------------

Get(r) == Hit(r) \/ StaleHit(r) \/ Join(r) \/ Miss(r)
LoadStep(b) == Query(b) \/ Resolve(b) \/ Reject(b)

CacheNext ==
    \/ Write \/ Invalidate \/ Expire
    \/ \E r \in Reader : Get(r)
    \/ \E b \in Load : LoadStep(b)

CacheSpec == CacheInit /\ [][CacheNext]_poolVars

(* Queries end, time passes, a writer's continuation runs, and requests    *)
(* keep coming.                                                            *)
CacheFairSpec ==
    /\ CacheSpec
    /\ WF_poolVars(Expire) /\ WF_poolVars(Invalidate)
    /\ WF_poolVars(\E r \in Reader : Get(r))
    /\ \A b \in Load : WF_poolVars(LoadStep(b))

-----------------------------------------------------------------------------

(* A refresh that is marked as running is running, although invalidations  *)
(* and other refreshes reset the mark: a mark nobody resets would leave    *)
(* the stale value served for ever.                                        *)
RefreshingIsReal == refreshing => \E b \in Load : load[b].for = "refresh"

(* "concurrent first calls run only one real query" (pool-cache.ts:15),    *)
(* and the promise kept for later callers is that of the query: none is    *)
(* joined after it has settled, none is lost while it runs.                *)
OneSharedLoad ==
    /\ {b \in Load : load[b].for = "caller"} = {inFlight} \ {NoLoad}
    /\ \A r \in Reader : reader[r].waits \in {inFlight, NoLoad}

(* Callers never wait for nothing: neither for a refresh nor for a load    *)
(* that is over (getCachedPool, rebuild, invalidatePoolCache).             *)
CacheInOrder == RefreshingIsReal /\ OneSharedLoad

(* Once the writes are over, the cache comes to hold the last version and  *)
(* keeps it, whatever loads of earlier versions were still on their way.   *)
EventuallyCurrent == <>[](value = source)
=============================================================================
