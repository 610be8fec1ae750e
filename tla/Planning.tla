------------------------------ MODULE Planning ------------------------------
(***************************************************************************)
(* One request from its name to its last attempt: the router's list, and   *)
(* the walk over it under a retry policy.  The upstreams' answers are      *)
(* given as HTTP answers, so that the adapter's and the router's           *)
(* classifiers, the policy's filters and the back-off all take part.  The  *)
(* cooldowns met on the way are those of the moment: cooled.  What the     *)
(* executor writes meanwhile is RouteExecutor's matter.                    *)
(***************************************************************************)
EXTENDS Routing, RetryPolicy

CONSTANTS
    Asks,      \* requests: pool, name, stream, tools, perm, mode, slug, weights, max
    Executed,  \* those of them whose walk is followed
    Policies,  \* retry policies in force
    Answers    \* upstream answers

(* A model is once in its pool.                                            *)
ASSUME PlanningAssumption ==
    /\ Executed \subseteq Asks /\ Answers \subseteq Answer /\ Policies \subseteq Policy
    /\ \A a \in Asks :
          /\ a.pool \in Seq(PoolModel) /\ a.max \in Nat /\ a.weights \in [Dimension -> Int]
          /\ \A n, k \in DOMAIN a.pool : n # k => a.pool[n].id # a.pool[k].id

VARIABLES
    ask,      \* the request
    at,       \* where it is
    plan,     \* decision.candidates
    policy,   \* the retry policy read before execute
    cooled,   \* models whose gate denies
    i,        \* the loop index, from 1
    calls,    \* the upstream answers received
    waits     \* the delays slept

planVars == <<ask, at, plan, policy, cooled, i, calls, waits>>

PlanInit ==
    /\ ask \in Asks
    /\ at = "asked" /\ plan = <<>> /\ policy = DefaultPolicy /\ cooled = {}
    /\ i = 1 /\ calls = <<>> /\ waits = <<>>

(* The chat route's context for the router.                                *)
Context(a) ==
    [alias |-> Resolved(a.name).alias, explicit |-> Resolved(a.name).explicit,
     required |-> Required(a.name, a.stream, a.tools), perm |-> a.perm,
     mode |-> a.mode, slug |-> a.slug, weights |-> a.weights, max |-> a.max]

Decide ==
    /\ at = "asked"
    /\ plan' \in CandidateLists(ask.pool, Context(ask))
    /\ at' = IF ask \in Executed THEN "walking" ELSE "planned"
    /\ IF ask \in Executed
       THEN policy' \in Policies /\ cooled' \in SUBSET {m.id : m \in Range(ask.pool)}
       ELSE UNCHANGED <<policy, cooled>>
    /\ UNCHANGED <<ask, i, calls, waits>>

LoopLimit == IF policy.maxAttempts < Len(plan) THEN policy.maxAttempts ELSE Len(plan)
Walking == at = "walking" /\ i <= LoopLimit

(* A gate denies: the candidate uses up an attempt and nothing is slept.   *)
Gated ==
    /\ Walking /\ plan[i].id \in cooled
    /\ i' = i + 1
    /\ UNCHANGED <<ask, at, plan, policy, cooled, calls, waits>>

OutcomeOf(a) == IF ask.stream THEN Stream(a) ELSE Complete(a)

Called(a) == Walking /\ plan[i].id \notin cooled /\ calls' = Append(calls, a)

Answered(a) ==
    /\ Called(a) /\ OutcomeOf(a).ok
    /\ at' = "answered"
    /\ UNCHANGED <<ask, plan, policy, cooled, i, waits>>

(* evalRetriable, then sleepBetweenAttempts, whether or not a next         *)
(* candidate is left.                                                      *)
Retried(a) ==
    /\ Called(a) /\ ~OutcomeOf(a).ok
    /\ ShouldRetry(policy, OutcomeOf(a).status, OutcomeOf(a).kind)
    /\ \E w \in Backoffs(i, policy) : waits' = Append(waits, w)
    /\ i' = i + 1
    /\ UNCHANGED <<ask, at, plan, policy, cooled>>

Stopped(a) ==
    /\ Called(a) /\ ~OutcomeOf(a).ok
    /\ ~ShouldRetry(policy, OutcomeOf(a).status, OutcomeOf(a).kind)
    /\ at' = "stopped"
    /\ UNCHANGED <<ask, plan, policy, cooled, i, waits>>

Exhausted ==
    /\ at = "walking" /\ i > LoopLimit
    /\ at' = "exhausted"
    /\ UNCHANGED <<ask, plan, policy, cooled, i, calls, waits>>

PlanNext ==
    \/ Decide \/ Gated \/ Exhausted
    \/ \E a \in Answers : Answered(a) \/ Retried(a) \/ Stopped(a)

PlanSpec == PlanInit /\ [][PlanNext]_planVars

-----------------------------------------------------------------------------
Decided == at \notin {"asked", "none"}
Ids(s) == {s[n].id : n \in DOMAIN s}

(* Whatever the mode, alias and permissions, a model that a request of the *)
(* key can reach, by chat or by embeddings, is one the key's GET           *)
(* /v1/models shows: three filters written three times.                    *)
RoutableIsListed ==
    Decided =>
        \A m \in Range(plan) \cup Range(EmbeddingCandidates(ask.pool, ask.name, ask.perm)) :
            Listed(m, ask.perm)

(* decide loses nobody and repeats nobody: a list shorter than maxAttempts *)
(* has every model that no filter gave a reason against, in every mode     *)
(* that orders and does not select.                                        *)
EveryModelAccounted ==
    Decided =>
        LET c == Context(ask)
            fit == Survivors(ask.pool, c) IN
        /\ Cardinality(Ids(plan)) = Len(plan)
        /\ Ids(plan) \subseteq Ids(fit)
        /\ c.mode \in {"auto-best-free", "round-robin-free", "paid-allowed", "prefer-model-fallback"}
              => Len(plan) = IF Len(fit) < c.max THEN Len(fit) ELSE c.max

(* In the modes that rank, nobody is tried before or instead of a better   *)
(* one, the model asked for by name excepted.                              *)
BestAreTried ==
    Decided /\ ask.mode \in {"auto-best-free", "paid-allowed", "prefer-model-fallback"} =>
        LET c == Context(ask)
            Score(m) == Composite(m, c.weights)
            named(m) == m.upstream = c.explicit /\ c.mode = "prefer-model-fallback" IN
        \A n \in DOMAIN plan, m \in Range(Survivors(ask.pool, c)) :
            Score(m) > Score(plan[n]) /\ ~named(plan[n]) => \E k \in 1..(n - 1) : plan[k] = m

(* A plan has everybody it should have, in the order it should have them.  *)
PlanInOrder == EveryModelAccounted /\ BestAreTried

(* docs/ROUTING.md, fallback contract: with no filter of the operator's, a *)
(* time-out, a rate limit, a failing server, a failed connection or an     *)
(* unreadable body never stops the walk while a candidate is left; and     *)
(* nothing else goes on to the next.                                       *)
Transient(a) ==
    \/ a.status \in {NoStatus, 408, 429} \/ ServerError(a)
    \/ Good(a) /\ a.says \in {"unreadable", "abort"}

FallbackContract ==
    policy.statuses = {} /\ policy.kinds = {} /\ calls # <<>> =>
        /\ at = "stopped" => ~Transient(calls[Len(calls)])
        /\ at \in {"walking", "exhausted"} => Transient(calls[Len(calls)])

(* No delay exceeds the policy's maximum and its jitter, whatever the      *)
(* attempt, and delays do not shrink but for the jitter (computeBackoff).  *)
WaitsBounded ==
    /\ \A n \in DOMAIN waits : 10 * waits[n] <= policy.max * (10 + policy.jitter) + 5
    /\ policy.jitter = 0 => \A n \in 1..(Len(waits) - 1) : waits[n] <= waits[n + 1]

(* The walk goes on when it should, and waits no longer than it may.       *)
WalkInOrder == FallbackContract /\ WaitsBounded

(* docs/ROUTING.md drops the cooled models before it takes the first       *)
(* FREELLM_MAX_ROUTE_ATTEMPTS, so that a request with a model left that is *)
(* not cooled calls somebody.                                              *)
(* The code does not keep it: execute skips a cooled candidate inside the  *)
(* loop that the limit bounds.                                             *)
CooledCostNothing ==
    at = "exhausted" /\ Ids(Survivors(ask.pool, Context(ask))) \ cooled # {} => calls # <<>>
=============================================================================
