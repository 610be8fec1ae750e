---------------------------- MODULE MCDecisions -----------------------------
(***************************************************************************)
(* What is decided about a request before and between its upstream calls:  *)
(* whether a quota lets it in, which models it may try in which order and  *)
(* whether it goes on after a failure, what its attempts make of a model's *)
(* scores and of the rows it is blacklisted by, and what a streamed answer *)
(* says to its client.  And what the console shows of what it has written: *)
(* its query cache, and the conversations of its playground.  The parts    *)
(* share no state: a behaviour follows one.                                *)
(***************************************************************************)
EXTENDS RateWindows, Planning, AutoBlacklist, MCStreamReader, Playground

(* Models.                                                                 *)
Even(n) == [d \in Dimension |-> n]
M(id, up, slug, free, caps, status, score) ==
    [id |-> id, upstream |-> up, slug |-> slug, isFree |-> free, caps |-> caps, status |-> status,
     blacklisted |-> FALSE, whitelisted |-> FALSE, weightAdj |-> 0, scores |-> Even(score)]
All == {"stream", "tools", "large", "json"}

Protos ==
    <<M("m1", "a", "openrouter", TRUE, All, "active", 50),
      M("m2", "b", "openrouter", FALSE, {"stream"}, "paid_now", 90),
      [M("m3", "a", "other", TRUE, {"stream", "json"}, "degraded", 60) EXCEPT !.weightAdj = -1],
      [M("m4", "openrouter/free", "openrouter", TRUE, {"stream"}, "active", 30)
          EXCEPT !.whitelisted = TRUE],
      [M("m5", "c", "other", TRUE, All, "active", 80) EXCEPT !.blacklisted = TRUE],
      M("m6", "d", "other", FALSE, All, "active", 70),
      M("m7", "d", "openrouter", TRUE, {"tools", "large"}, "rate_limited", 20)>>

Pools == {<<Protos[x], Protos[y], Protos[z]>> :
             <<x, y, z>> \in {t \in (1..7) \X (1..7) \X (1..7) : t[1] < t[2] /\ t[2] < t[3]}}
         \cup {<<Protos[4], Protos[3], Protos[1]>>, <<Protos[6], Protos[7], Protos[2]>>}

Perms == [allowedModels : {{}, {"a", "d"}}, deniedModels : {{}, {"a"}},
          allowedProviders : {{}, {"openrouter"}}, allowPaid : BOOLEAN]

A(pool, name, tools, perm, mode, max) ==
    [pool |-> pool, name |-> name, stream |-> FALSE, tools |-> tools, perm |-> perm, mode |-> mode,
     slug |-> "other", weights |-> DefaultWeights, max |-> max]

AnyPerm == [allowedModels |-> {}, deniedModels |-> {}, allowedProviders |-> {}, allowPaid |-> TRUE]

MCExecuted ==
    {[A(<<Protos[1], Protos[4], Protos[7]>>, "free/auto", FALSE, AnyPerm, "auto-best-free", 2)
         EXCEPT !.stream = b] : b \in BOOLEAN}
MCAsks ==
    {A(pool, name, FALSE, perm, mode, max) :
        pool \in Pools, name \in {"a", "free/auto"}, perm \in Perms, mode \in Mode, max \in {2, 3}}
    \cup {A(pool, name, TRUE, AnyPerm, mode, 3) :
        pool \in Pools, name \in {"d", "free/fast", "free/large-context", "openrouter/free"},
        mode \in Mode}
    \cup MCExecuted

(* Policies that two patches, each valid, make of the default one.         *)
MCPatches ==
    {q \in {"maxAttempts" :> 3 @@ "jitter" :> 0, "initial" :> 4 @@ "max" :> 4 @@ "jitter" :> 10,
            "initial" :> 3 @@ "max" :> 2, "max" :> 1, "statuses" :> {500},
            "kinds" :> {"timeout", "auth_failure"}} : ValidPatch(q)}
MCPolicies == {Patched(Patched(DefaultPolicy, q), r) : q \in MCPatches, r \in MCPatches}

Say(s, t) == [status |-> s, says |-> t]
MCAnswers == {Say(s, "plain") : s \in {200, 400, 401, 408, 422, 425, 429, 500, 503}}
             \cup {Say(0, t) : t \in {"plain", "abort", "dns"}}
             \cup {Say(200, t) : t \in {"unreadable", "abort"}} \cup {Say(400, "context")}

MCHashRank == [u \in Upstream |-> CASE u = "a" -> 2 [] u = "b" -> 1 [] u = "c" -> 4
                                    [] u = "d" -> 0 [] OTHER -> 3]

-----------------------------------------------------------------------------
VARIABLE followed

vars == <<followed, windowVars, planVars, scoreVars, blacklistVars, streamVars, cacheVars,
          playVars>>

NoWindow == /\ RateInit /\ kind = "none"
            /\ passed = [x \in Subject |-> [t \in 0..MaxTime |-> 0]]
            /\ refused = [x \in Subject |-> {}]
NoAsk == [(CHOOSE a \in MCExecuted : ~a.stream) EXCEPT !.pool = <<>>]
NoPlan == /\ ask = NoAsk /\ at = "none" /\ plan = <<>> /\ policy = DefaultPolicy /\ cooled = {}
          /\ i = 1 /\ calls = <<>> /\ waits = <<>>
NoScore == row = Seed /\ rec = [r \in Recorder |-> Unused] /\ samples = MaxSamples /\ had = {}
NoStream == /\ decoder = <<>> /\ text = [s \in StreamId |-> <<>>] /\ bytes = text /\ buf = text
            /\ phase = [s \in StreamId |-> "ended"] /\ error = [s \in StreamId |-> FALSE]
            /\ verdict = [s \in StreamId |-> "none"] /\ frames = text
NoPage == page = BudgetsPage /\ view = "useBudgets" /\ Empty

Init ==
    /\ followed \in {"window", "plan", "score", "blacklist", "stream", "cache", "playground"}
    /\ IF followed = "window" THEN WindowInit ELSE NoWindow
    /\ IF followed = "plan" THEN PlanInit ELSE NoPlan
    /\ IF followed = "score" THEN ScoreInit ELSE NoScore
    /\ IF followed = "stream" THEN StreamInit ELSE NoStream
    /\ IF followed = "cache" THEN CacheInit ELSE NoPage
    /\ BlacklistInit /\ PlaygroundInit

NextWindow ==
    /\ followed = "window" /\ WindowNext
    /\ UNCHANGED <<followed, planVars, scoreVars, blacklistVars, streamVars, cacheVars, playVars>>
NextPlan ==
    /\ followed = "plan" /\ PlanNext
    /\ UNCHANGED <<followed, windowVars, scoreVars, blacklistVars, streamVars, cacheVars, playVars>>
NextScore ==
    /\ followed = "score" /\ ScoreNext
    /\ UNCHANGED <<followed, windowVars, planVars, blacklistVars, streamVars, cacheVars, playVars>>
NextBlacklist ==
    /\ followed = "blacklist" /\ BlacklistNext
    /\ UNCHANGED <<followed, windowVars, planVars, scoreVars, streamVars, cacheVars, playVars>>
NextStream ==
    /\ followed = "stream" /\ StreamNext
    /\ UNCHANGED <<followed, windowVars, planVars, scoreVars, blacklistVars, cacheVars, playVars>>
NextCache ==
    /\ followed = "cache" /\ CacheNext
    /\ UNCHANGED <<followed, windowVars, planVars, scoreVars, blacklistVars, streamVars, playVars>>
NextPlayground ==
    /\ followed = "playground" /\ PlaygroundNext
    /\ UNCHANGED <<followed, windowVars, planVars, scoreVars, blacklistVars, streamVars, cacheVars>>

Next == \/ NextWindow \/ NextPlan \/ NextScore \/ NextBlacklist
        \/ NextStream \/ NextCache \/ NextPlayground

Spec == Init /\ [][Next]_vars

ConversationsAlike == Permutations(Conversation)
=============================================================================
