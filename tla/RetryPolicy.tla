----------------------------- MODULE RetryPolicy ----------------------------
(***************************************************************************)
(* The retry policy: its bounds, what a patch makes of it, which failures  *)
(* it retries and how long it waits.  Times are milliseconds, the jitter   *)
(* ratio is in tenths.  The two lists are sets.  What mergeWithDefaults     *)
(* drops from them, the route's schema has refused before.                 *)
(***************************************************************************)
EXTENDS Failures

CONSTANTS
    AttemptsLimit,  \* MAX_ATTEMPTS_LIMIT
    BackoffLimit,   \* MAX_BACKOFF_LIMIT
    DefaultAttempts, DefaultInitial, DefaultMax, DefaultJitter

ASSUME RetryAssumption ==
    /\ AttemptsLimit \in Nat \ {0} /\ BackoffLimit \in Nat
    /\ DefaultAttempts \in 1..AttemptsLimit
    /\ DefaultInitial \in 0..BackoffLimit /\ DefaultMax \in 0..BackoffLimit
    /\ DefaultJitter \in 0..10

Policy == [maxAttempts : 1..AttemptsLimit, initial : 0..BackoffLimit, max : 0..BackoffLimit,
           jitter : 0..10, statuses : SUBSET Nat, kinds : SUBSET STRING]
PolicyField == {"maxAttempts", "initial", "max", "jitter", "statuses", "kinds"}

DefaultPolicy == [maxAttempts |-> DefaultAttempts, initial |-> DefaultInitial, max |-> DefaultMax,
                  jitter |-> DefaultJitter, statuses |-> {}, kinds |-> {}]

Bounded(n, low, high) == IF n < low THEN low ELSE IF n > high THEN high ELSE n

(* mergeWithDefaults, of a policy with all its fields.                     *)
Merged(p) ==
    [maxAttempts |-> Bounded(p.maxAttempts, 1, AttemptsLimit),
     initial |-> Bounded(p.initial, 0, BackoffLimit), max |-> Bounded(p.max, 0, BackoffLimit),
     jitter |-> Bounded(p.jitter, 0, 10), statuses |-> p.statuses, kinds |-> p.kinds]

(* validatePatch: a patch is a function on the fields it sets.             *)
ValidPatch(patch) ==
    LET Sets(f) == f \in DOMAIN patch IN
    /\ DOMAIN patch \subseteq PolicyField
    /\ Sets("maxAttempts") => patch["maxAttempts"] \in 1..AttemptsLimit
    /\ Sets("initial") => patch["initial"] \in 0..BackoffLimit
    /\ Sets("max") => patch["max"] \in 0..BackoffLimit
    /\ Sets("initial") /\ Sets("max") => patch["initial"] <= patch["max"]
    /\ Sets("jitter") => patch["jitter"] \in 0..10

Patched(p, patch) ==
    Merged([f \in PolicyField |-> IF f \in DOMAIN patch THEN patch[f] ELSE p[f]])

-----------------------------------------------------------------------------
(* shouldRetry: with both lists empty the kind's default decides.          *)
ShouldRetry(p, status, kind) ==
    IF p.statuses = {} /\ p.kinds = {} THEN kind \in Retriable
    ELSE status \in p.statuses \/ kind \in p.kinds

(* Mutant: no cap.                                                         *)
BaseBackoffUncapped(attempt, p) == p.initial * 2^(attempt - 1)

(* computeBaseBackoff.                                                     *)
BaseBackoff(attempt, p) ==
    LET grow == p.initial * 2^(attempt - 1) IN IF grow < p.max THEN grow ELSE p.max

(* computeBackoff: every delay the jitter can give, rounded.               *)
Rounded(tenths) == (tenths + 5) \div 10
Backoffs(attempt, p) ==
    LET base == BaseBackoff(attempt, p) IN
    Rounded(base * (10 - p.jitter)) .. Rounded(base * (10 + p.jitter))
=============================================================================
