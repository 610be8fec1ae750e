------------------------------- MODULE Routing ------------------------------
(***************************************************************************)
(* The decisions a request meets before anything is sent: which alias or   *)
(* model its name stands for, which models of the pool may serve it and in *)
(* which order, and how the scorer rates them.  All of it is a function of *)
(* the request, the key's permissions, the policy and the pool, except for *)
(* the draw of weighted-free: CandidateLists is the set of lists the draw  *)
(* can give.                                                               *)
(*                                                                         *)
(* Scores are in hundredths.  A context of at least 100 000 tokens is the  *)
(* capability large.                                                       *)
(***************************************************************************)
EXTENDS Integers, Sequences, FiniteSets, FiniteSetsExt, SequencesExt

CONSTANTS
    Upstream,   \* upstream model ids
    Slug,       \* provider slugs
    OpenRouter, \* the slug "openrouter"
    FreeRouter, \* the upstream id "openrouter/free"
    HashRank    \* the order of hash(upstreamId)

ASSUME RoutingAssumption == HashRank \in [Upstream -> Nat]

Mode == {"auto-best-free", "round-robin-free", "weighted-free", "openrouter-free-router",
         "prefer-model-fallback", "provider-specific", "paid-allowed"}
KnownAlias == {"free/auto", "free/best", "free/fast", "free/large-context", "openrouter/free"}
RouterAlias == KnownAlias \cup {"free/with-tools", "free/with-vision", "free/json-mode"}

None == "none"

-----------------------------------------------------------------------------
(* resolveModel: an alias it knows, or an upstream id.                     *)
Resolved(name) ==
    IF name \in KnownAlias THEN [alias |-> name, explicit |-> None]
    ELSE [alias |-> None, explicit |-> name]

(* requireCapabilities of the chat route.                                  *)
Required(name, wantsStream, hasTools) ==
    (IF wantsStream THEN {"stream"} ELSE {}) \cup (IF hasTools THEN {"tools"} ELSE {})
        \cup (IF Resolved(name).alias = "free/large-context" THEN {"large"} ELSE {})

-----------------------------------------------------------------------------
(* The scorer.                                                             *)

Dimension == {"availability", "latency", "rateLimit", "quality", "context",
              "freshness", "cost", "stability", "firstToken"}
DefaultWeights ==
    [d \in Dimension |-> CASE d = "availability" -> 30 [] d = "latency" -> 15
                           [] d = "rateLimit" -> 20    [] d = "quality" -> 15
                           [] d = "context" -> 10      [] d = "freshness" -> 5
                           [] d = "cost" -> 0          [] d = "stability" -> 5
                           [] d = "firstToken" -> 5]

PoolModel ==
    [id : STRING, upstream : Upstream, slug : Slug, isFree : BOOLEAN, caps : SUBSET STRING,
     status : STRING, blacklisted : BOOLEAN, whitelisted : BOOLEAN, weightAdj : Int,
     scores : [Dimension -> Int]]

Clamp(n, low, high) == IF n < low THEN low ELSE IF n > high THEN high ELSE n

(* scoreModel.composite: weighted sum, operator's nudge, bonus of a free   *)
(* model while cost has no weight, bonus of a whitelisted one, clamp, and  *)
(* the blacklist's veto.                                                   *)
Composite(x, w) ==
    LET part == [d \in Dimension |-> (w[d] * Clamp(x.scores[d], 0, 100)) \div 100]
        parts == MapThenSumSet(LAMBDA d : part[d], Dimension)
        nudge == 10 * Clamp(x.weightAdj, -1, 1)
        free == IF x.isFree /\ w["cost"] = 0 THEN 2 ELSE 0
        white == IF x.whitelisted THEN 5 ELSE 0
    IN IF x.blacklisted THEN 0 ELSE Clamp(parts + nudge + free + white, 0, 100)

(* ewmaUpdate with alpha in tenths, and applyScoreSample's use of it.      *)
Ewma(prev, sample, alpha) == (prev * (10 - alpha) + sample * alpha) \div 10

(* Mutant: a rate-limited answer counts as a success of the limiter.       *)
AfterSampleUp(x, sample) ==
    LET ok == x.ok + (IF sample.ok THEN 1 ELSE 0)
        bad == x.bad + (IF sample.ok THEN 0 ELSE 1)
        total == IF ok + bad = 0 THEN 1 ELSE ok + bad
    IN [ok |-> ok, bad |-> bad,
        availability |-> Ewma(x.availability, IF sample.ok THEN 100 ELSE 0, 1),
        stability |-> Ewma(x.stability, (100 * ok) \div total, 2),
        latency |-> Ewma(x.latency, Clamp(100 - sample.seconds, 0, 100), 2),
        rateLimit |-> Ewma(x.rateLimit, 100, 2)]

AfterSample(x, sample) ==
    LET ok == x.ok + (IF sample.ok THEN 1 ELSE 0)
        bad == x.bad + (IF sample.ok THEN 0 ELSE 1)
        total == IF ok + bad = 0 THEN 1 ELSE ok + bad
    IN [ok |-> ok, bad |-> bad,
        availability |-> Ewma(x.availability, IF sample.ok THEN 100 ELSE 0, 1),
        stability |-> Ewma(x.stability, (100 * ok) \div total, 2),
        latency |-> Ewma(x.latency, Clamp(100 - (100 * sample.seconds) \div 60, 0, 100), 2),
        rateLimit |-> IF sample.kind = "rate_limited" THEN Ewma(x.rateLimit, 0, 2)
                      ELSE IF sample.ok THEN Ewma(x.rateLimit, 100, 2)
                      ELSE x.rateLimit]

-----------------------------------------------------------------------------
(* The router's filters.                                                   *)

PassesAlias(m, alias) ==
    CASE alias \in {"free/auto", "free/best"} -> m.isFree
      [] alias = "free/fast" -> m.isFree /\ m.scores["latency"] >= 40
      [] alias = "free/large-context" -> m.isFree /\ "large" \in m.caps
      [] alias = "openrouter/free" -> m.slug = OpenRouter /\ m.upstream = FreeRouter
      [] alias = "free/with-tools" -> m.isFree /\ "tools" \in m.caps
      [] alias = "free/with-vision" -> m.isFree /\ "vision" \in m.caps
      [] alias = "free/json-mode" -> m.isFree /\ "json" \in m.caps
      [] OTHER -> TRUE

PassesStatus(m, mode, allowPaid) ==
    /\ m.status \notin {"disabled", "removed"}
    /\ m.status = "paid_now" => allowPaid \/ mode = "paid-allowed"

PassesCapabilities(m, required) == required \subseteq m.caps

(* Mutant: the denied models are forgotten.                                *)
PassesKeyUndenied(m, perm) ==
    /\ perm.allowedModels = {} \/ m.upstream \in perm.allowedModels
    /\ perm.allowedProviders = {} \/ m.slug \in perm.allowedProviders
    /\ perm.allowPaid \/ m.isFree

PassesKey(m, perm) ==
    /\ perm.allowedModels = {} \/ m.upstream \in perm.allowedModels
    /\ m.upstream \notin perm.deniedModels
    /\ perm.allowedProviders = {} \/ m.slug \in perm.allowedProviders
    /\ perm.allowPaid \/ m.isFree

(* Why decide drops m, None when it survives.                              *)
Reason(m, c) ==
    IF ~PassesAlias(m, c.alias) THEN "alias"
    ELSE IF ~PassesStatus(m, c.mode, c.perm.allowPaid \/ c.mode = "paid-allowed") THEN "status"
    ELSE IF ~PassesCapabilities(m, c.required) THEN "capability"
    ELSE IF ~PassesKey(m, c.perm) THEN "permissions"
    ELSE IF m.blacklisted THEN "blacklisted"
    ELSE None

(* The n-th of the numbers D, by rank; equal ranks as the numbers are.     *)
Before(rank, i, j) == rank[i] < rank[j] \/ (rank[i] = rank[j] /\ i < j)
Place(D, rank, i) == Cardinality({j \in D : Before(rank, j, i)}) + 1
Nth(D, rank, n) == CHOOSE i \in D : Place(D, rank, i) = n

(* Array.filter: of s, what is at the places D.                            *)
Chosen(s, D) ==
    LET asTheyAre == [i \in D |-> 0]
    IN [n \in 1..Cardinality(D) |-> s[Nth(D, asTheyAre, n)]]

(* Array.sort, which is stable: s by the ranks of its places.              *)
Sorted(s, rank) == [n \in DOMAIN s |-> s[Nth(DOMAIN s, rank, n)]]

Survivors(pool, c) == Chosen(pool, {i \in DOMAIN pool : Reason(pool[i], c) = None})

-----------------------------------------------------------------------------
(* The router's order.                                                     *)

(* Mutant: worst first.                                                    *)
WorstFirst(s, w) == Sorted(s, [i \in DOMAIN s |-> Composite(s[i], w)])

BestFirst(s, w) == Sorted(s, [i \in DOMAIN s |-> -Composite(s[i], w)])
ByHash(s) == Sorted(s, [i \in DOMAIN s |-> HashRank[s[i].upstream]])

(* The weighted draw takes any model next, and with it every other that    *)
(* has its upstream id out of the bag.                                     *)
Draws(s) ==
    LET ids == {s[i].upstream : i \in DOMAIN s} IN
    {t \in UNION {[1..n -> Range(s)] : n \in {Cardinality(ids)}} :
        {t[i].upstream : i \in DOMAIN t} = ids}

OfProvider(s, slug) == Chosen(s, {i \in DOMAIN s : slug # None => s[i].slug = slug})
OfFreeRouter(s) ==
    Chosen(s, {i \in DOMAIN s : s[i].slug = OpenRouter /\ s[i].upstream = FreeRouter})

Orders(s, c) ==
    CASE c.mode = "round-robin-free" -> {ByHash(s)}
      [] c.mode = "weighted-free" -> Draws(s)
      [] c.mode = "openrouter-free-router" -> {OfFreeRouter(BestFirst(s, c.weights))}
      [] c.mode = "provider-specific" -> {OfProvider(BestFirst(s, c.weights), c.slug)}
      [] OTHER -> {BestFirst(s, c.weights)}

Named(s, c) == Chosen(s, {i \in DOMAIN s : s[i].upstream = c.explicit})
PinsNobody(s, c) == c.mode # "prefer-model-fallback" \/ Named(s, c) = <<>>

(* Mutant: the pinned model is not taken out of the rest.                  *)
PinnedTwice(o, s, c) == IF PinsNobody(s, c) THEN o ELSE <<Head(Named(s, c))>> \o o

(* The model asked for by name comes first, in the mode that prefers it.   *)
Without(o, m) == Chosen(o, {i \in DOMAIN o : o[i] # m})
Pinned(o, s, c) ==
    IF PinsNobody(s, c) THEN o
    ELSE LET first == Head(Named(s, c)) IN <<first>> \o Without(o, first)

Trim(o, max) == SubSeq(o, 1, IF Len(o) < max THEN Len(o) ELSE max)

(* Router.decide.                                                          *)
CandidateLists(pool, c) ==
    LET s == Survivors(pool, c) IN
    {Trim(Pinned(o, s, c), c.max) : o \in Orders(s, c)}

-----------------------------------------------------------------------------
(* What other routes make of the same pool and permissions.                *)

(* GET /v1/models.                                                         *)
Listed(m, perm) ==
    /\ m.status \notin {"removed", "disabled"}
    /\ perm.allowedModels = {} \/ m.upstream \in perm.allowedModels
    /\ m.upstream \notin perm.deniedModels
    /\ perm.allowedProviders = {} \/ m.slug \in perm.allowedProviders
    /\ perm.allowPaid \/ m.isFree

(* POST /v1/embeddings: in the pool's order.                               *)
EmbeddingCandidates(pool, name, perm) ==
    LET explicit == Resolved(name).explicit
        Serves(m) == /\ m.status \notin {"disabled", "removed"} /\ ~m.blacklisted
                     /\ m.upstream \notin perm.deniedModels
                     /\ perm.allowedModels = {} \/ m.upstream \in perm.allowedModels
                     /\ perm.allowedProviders = {} \/ m.slug \in perm.allowedProviders
                     /\ perm.allowPaid \/ m.isFree
                     /\ IF explicit # None THEN m.upstream = explicit
                        ELSE m.isFree /\ "json" \in m.caps
    IN Trim(Chosen(pool, {i \in DOMAIN pool : Serves(pool[i])}), 4)
=============================================================================
