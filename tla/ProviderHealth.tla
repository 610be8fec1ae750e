--------------------------- MODULE ProviderHealth ---------------------------
(***************************************************************************)
(* ProviderHealthService.checkOne: its timer and the administrator's       *)
(* routes run it, also for one provider at once.  A check calls the        *)
(* provider, reads its row, writes it back with a counter computed from    *)
(* what was read, and then looks for a cooldown before it creates one.     *)
(*                                                                         *)
(* One provider.  A cooldown is the time it expires; lifting one, after a  *)
(* routed call succeeded or by hand, sets its resolvedAt.                  *)
(***************************************************************************)
EXTENDS Naturals

CONSTANTS
    HealthCheck,     \* checks in progress at once
    FailureCooldown, \* failureCooldownMs, in ticks
    MaxTicks,        \* bound: time
    MaxChecks        \* bound: checks

ASSUME HealthAssumption ==
    FailureCooldown \in Nat \ {0} /\ MaxTicks \in Nat /\ MaxChecks \in Nat

VARIABLES
    ticks,
    errorCount,  \* the provider's errorCount24h
    benches,     \* its rows of cooldowns: [expiresAt, resolved]
    check,       \* check[h]: a check and what it has read
    checks,      \* checks so far
    failures,    \* history: failing checks that wrote the provider's row
    lastFailure  \* history: takenAt of the last failing check that looked for a
                 \* cooldown since one was lifted or could not be written, or 0

healthVars == <<ticks, errorCount, benches, check, checks, failures, lastFailure>>

NoCheck == [at |-> "idle", ok |-> FALSE, takenAt |-> 0, count |-> 0]

HealthInit ==
    /\ ticks = 1 /\ errorCount = 0 /\ benches = {} /\ checks = 0
    /\ check = [h \in HealthCheck |-> NoCheck] /\ failures = 0 /\ lastFailure = 0

(* checkHealth answers or times out, and the provider's row is read.       *)
HealthRead(h) ==
    /\ check[h].at = "idle" /\ checks < MaxChecks
    /\ checks' = checks + 1
    /\ \E b \in BOOLEAN :
          check' = [check EXCEPT ![h] = [at |-> "write", ok |-> b, takenAt |-> ticks,
                                         count |-> errorCount]]
    /\ UNCHANGED <<ticks, errorCount, benches, failures, lastFailure>>

Count(h) == IF check[h].ok THEN 0 ELSE check[h].count + 1

HealthWrite(h) ==
    /\ check[h].at = "write"
    /\ errorCount' = Count(h)
    /\ failures' = IF check[h].ok THEN failures ELSE failures + 1
    /\ check' = [check EXCEPT ![h] = IF @.ok THEN NoCheck ELSE [@ EXCEPT !.at = "look"]]
    /\ UNCHANGED <<ticks, benches, checks, lastFailure>>

(* Mutant: a cooldown that was lifted counts.                              *)
ExistingOrLifted(t) == {b \in benches : b.expiresAt >= t}

Existing(t) == {b \in benches : b.expiresAt >= t /\ ~b.resolved}

HealthLook(h) ==
    /\ check[h].at = "look"
    /\ check' = [check EXCEPT ![h] = IF Existing(@.takenAt) # {} THEN NoCheck
                                     ELSE [@ EXCEPT !.at = "create"]]
    /\ lastFailure' = IF check[h].takenAt > lastFailure THEN check[h].takenAt ELSE lastFailure
    /\ UNCHANGED <<ticks, errorCount, benches, checks, failures>>

(* Two checks that both found none create two.                             *)
HealthBench(h) ==
    /\ check[h].at = "create"
    /\ benches' = benches \cup {[expiresAt |-> check[h].takenAt + FailureCooldown, resolved |-> FALSE]}
    /\ check' = [check EXCEPT ![h] = NoCheck]
    /\ UNCHANGED <<ticks, errorCount, checks, failures, lastFailure>>

(* A query fails; checkAll settles the others.                             *)
HealthFails(h) ==
    /\ check[h].at \in {"write", "look", "create"}
    /\ check' = [check EXCEPT ![h] = NoCheck]
    /\ lastFailure' = IF check[h].at = "create" THEN 0 ELSE lastFailure
    /\ UNCHANGED <<ticks, errorCount, benches, checks, failures>>

Lift ==
    /\ \E b \in benches : ~b.resolved
    /\ benches' = {[b EXCEPT !.resolved = TRUE] : b \in benches}
    /\ lastFailure' = 0
    /\ UNCHANGED <<ticks, errorCount, check, checks, failures>>

HealthTick ==
    /\ ticks < MaxTicks /\ ticks' = ticks + 1
    /\ UNCHANGED <<errorCount, benches, check, checks, failures, lastFailure>>

HealthNext ==
    \/ \E h \in HealthCheck : HealthRead(h) \/ HealthWrite(h) \/ HealthLook(h)
                              \/ HealthBench(h) \/ HealthFails(h)
    \/ Lift \/ HealthTick

HealthSpec == HealthInit /\ [][HealthNext]_healthVars

-----------------------------------------------------------------------------
(* After a failing check the provider is on cooldown at the time of the    *)
(* check, unless that was lifted or could not be written since, or the     *)
(* check is about to put it there (checkOne, with checks that overlap and  *)
(* cooldowns that end).                                                    *)
FailureBenches ==
    lastFailure # 0 =>
        \/ \E b \in benches : b.expiresAt >= lastFailure /\ ~b.resolved
        \/ \E h \in HealthCheck : check[h].at = "create"

(* The counter of errors never exceeds the failing checks there were,      *)
(* however its updates overwrite each other (checkOne).                    *)
ErrorsWithinFailures == errorCount <= failures
(* Both: what failing checks leave in the provider's rows.                 *)
HealthInOrder == FailureBenches /\ ErrorsWithinFailures
=============================================================================
