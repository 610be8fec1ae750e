---------------------------- MODULE AutoBlacklist ----------------------------
(***************************************************************************)
(* What ModelAutoBlacklistService holds against a model: evaluateModelLogs *)
(* over the rows of request_logs that name it, and how these rows come to  *)
(* name a model.  A request has one row; execute's persistAttempts names   *)
(* in it the attempt that succeeded or else the last one, skipped ones     *)
(* included, and the route's finish has the last word on its status.       *)
(* Either write may fail, and a restart cuts requests off.  Rows are in    *)
(* the order of their startedAt; those of a window are a suffix.           *)
(* With the scores of Scores these rows are what a model is judged by.     *)
(***************************************************************************)
EXTENDS Scores

CONSTANTS
    Candidate,   \* models
    Client,      \* requests at once
    Streak,      \* consecutiveFailureWindow
    Samples,     \* minSampleSize
    MaxRows,     \* bound: requests
    MaxUnwritten \* bound: failing queries and restarts

Nobody == "nobody"

ASSUME BlacklistAssumption ==
    /\ Nobody \notin Candidate
    /\ Streak \in Nat \ {0} /\ Samples \in Nat \ {0} /\ MaxRows \in Nat /\ MaxUnwritten \in Nat

VARIABLES
    logRows,    \* of each request: the model, whether status is below 400, errorKind is set
    answeredBy, \* history: of each request, the model whose answer execute returned
    client,     \* of each client: how far its request is, its row, the attempts
    unwritten

blacklistVars == <<logRows, answeredBy, client, unwritten>>

NoRequest == [at |-> "idle", row |-> 0, attempts |-> <<>>]

BlacklistInit ==
    /\ logRows = <<>> /\ answeredBy = <<>> /\ unwritten = 0
    /\ client = [q \in Client |-> NoRequest]

Unwritten == unwritten < MaxUnwritten /\ unwritten' = unwritten + 1

-----------------------------------------------------------------------------
(* The route's logger.start: no model yet, and no status.                  *)
LogStart(q) ==
    /\ client[q].at = "idle" /\ Len(logRows) < MaxRows
    /\ logRows' = Append(logRows, [model |-> Nobody, ok |-> FALSE, kind |-> FALSE])
    /\ answeredBy' = Append(answeredBy, Nobody)
    /\ client' = [client EXCEPT ![q] = [NoRequest EXCEPT !.at = "executes", !.row = Len(logRows')]]
    /\ UNCHANGED unwritten

(* What execute's loop reports: candidates in the order of the plan, each  *)
(* once.  A success ends it, and a failure may; an answer is lost when the *)
(* write of the cooldown after it fails, which reports a success and then  *)
(* a failure of the same candidate.                                        *)
Attempts ==
    {s \in SeqOf([model : Candidate, did : {"succeeded", "lost", "failed", "skipped"}], 2) :
        /\ \A i, j \in DOMAIN s : i # j => s[i].model # s[j].model
        /\ \A i \in 1..Len(s) - 1 : s[i].did # "succeeded"}
Reported(a) == a.did \in {"succeeded", "lost"}
Lost(s) == {i \in DOMAIN s : s[i].did = "lost"}

Executes(q) ==
    /\ client[q].at = "executes"
    /\ \E s \in Attempts :
          /\ unwritten' = unwritten + Cardinality(Lost(s)) /\ unwritten' <= MaxUnwritten
          /\ client' = [client EXCEPT ![q].at = "persists", ![q].attempts = s]
          /\ answeredBy' =
                IF s # <<>> /\ Last(s).did = "succeeded"
                THEN [answeredBy EXCEPT ![client[q].row] = Last(s).model] ELSE answeredBy
    /\ UNCHANGED logRows

(* Mutant: the errorKind of any failed attempt, not of the one named.      *)
PersistedAny(s) ==
    LET ok == {i \in DOMAIN s : Reported(s[i])}
    IN [model |-> IF ok # {} THEN s[Min(ok)].model ELSE Last(s).model,
        ok |-> ok # {}, kind |-> \E i \in DOMAIN s : ~Reported(s[i])]

Persisted(s) ==
    LET ok == {i \in DOMAIN s : Reported(s[i])}
    IN [model |-> IF ok # {} THEN s[Min(ok)].model ELSE Last(s).model,
        ok |-> ok # {}, kind |-> ok = {}]

Persists(q) ==
    LET c == client[q] IN
    /\ c.at = "persists"
    /\ client' = [client EXCEPT ![q].at = "finishes", ![q].attempts = <<>>]
    /\ \/ /\ logRows' = IF c.attempts = <<>> THEN logRows
                        ELSE [logRows EXCEPT ![c.row] = Persisted(c.attempts)]
          /\ UNCHANGED unwritten
       \/ Unwritten /\ UNCHANGED logRows
    /\ UNCHANGED answeredBy

(* errorKind is written when there is one, and never taken away.           *)
Finished(r, by) == IF by # Nobody THEN [r EXCEPT !.model = by, !.ok = TRUE]
                                  ELSE [r EXCEPT !.ok = FALSE, !.kind = TRUE]

Finishes(q) ==
    LET n == client[q].row IN
    /\ client[q].at = "finishes"
    /\ client' = [client EXCEPT ![q] = NoRequest]
    /\ \/ logRows' = [logRows EXCEPT ![n] = Finished(@, answeredBy[n])] /\ UNCHANGED unwritten
       \/ Unwritten /\ UNCHANGED logRows
    /\ UNCHANGED answeredBy

CutOff ==
    /\ \E q \in Client : client[q].at # "idle"
    /\ Unwritten
    /\ client' = [q \in Client |-> NoRequest]
    /\ UNCHANGED <<logRows, answeredBy>>

BlacklistNext ==
    CutOff \/ \E q \in Client : LogStart(q) \/ Executes(q) \/ Persists(q) \/ Finishes(q)

BlacklistSpec == BlacklistInit /\ [][BlacklistNext]_blacklistVars

-----------------------------------------------------------------------------
(* evaluateAll's query: the rows of a window that name m, by their numbers;*)
(* and evaluateModelLogs, which goes through them from the newest.         *)
LogsOf(m, since) == {n \in since..Len(logRows) : logRows[n].model = m}
IsFailure(r) == ~r.ok \/ r.kind

ShouldBlacklist(logs) ==
    LET good == {n \in logs : ~IsFailure(logRows[n])}
        streak == {n \in logs : \A k \in good : k < n}
    IN \/ Cardinality(streak) >= Streak
       \/ Cardinality(logs) >= Samples /\ 2 * Cardinality(good) < Cardinality(logs)

-----------------------------------------------------------------------------
(* A model is blacklisted only for requests that were left without any     *)
(* answer, and not over those it answered: either as many as the streak of *)
(* them are newer than all that it has answered, or it has left more than  *)
(* it answered of a whole sample.  Whatever writes are lost, and wherever  *)
(* the window begins.                                                      *)
BlacklistEarned ==
    \A m \in Candidate, since \in 1..Len(logRows) :
        ShouldBlacklist(LogsOf(m, since)) =>
            LET named == LogsOf(m, since)
                left == {n \in named : answeredBy[n] = Nobody}
                answered == {n \in named : answeredBy[n] = m}
            IN \/ Cardinality({n \in left : \A k \in answered : k < n}) >= Streak
               \/ Cardinality(named) >= Samples /\ Cardinality(left) > Cardinality(answered)

(* A model is judged by its deeds: its scores move only as far as its      *)
(* samples carry them, whatever concurrent attempts do to the row, and it  *)
(* is blacklisted only for requests that it left without an answer.        *)
JudgedByDeeds == ScoreIsEarned /\ BlacklistEarned

(* "the most recent five calls all failed"                                 *)
(* (model-auto-blacklist.service.ts:10): that the rows held against a      *)
(* model are calls of it.                                                  *)
(* The code does not keep it: a candidate that is skipped for its cooldown *)
(* or its provider's is named when nobody answers, so a model may be       *)
(* disabled for requests that never called it.                             *)
BlacklistedWasCalled ==
    \A m \in Candidate, q \in Client :
        LET s == client[q].attempts IN
        s # <<>> /\ Persisted(s).model = m /\ ~Persisted(s).ok =>
            \E i \in DOMAIN s : s[i].model = m /\ s[i].did = "failed"
=============================================================================
