----------------------------- MODULE QueryCache -----------------------------
(***************************************************************************)
(* The query cache of the console (TanStack Query), for one view of one    *)
(* page.  The page is opened and left; its deeds write at the server and,  *)
(* when the answer is a success, their hook invalidates keys, also when the*)
(* page was left in between.  A view that is shown is then queried again:  *)
(* a query in flight is given up for it, unless it is the first.  A deed   *)
(* may fail, before it wrote or after (the console waits 30 seconds), and  *)
(* a query may fail, twice in a row; others write at any time.             *)
(***************************************************************************)
EXTENDS ConsoleHooks, Integers

CONSTANTS
    Call,           \* deeds in progress at once
    MaxVersion,     \* bound: writes
    MaxErrors       \* bound: queries that fail

VARIABLES
    page, view,
    version,   \* of what the view reads, at the server
    data,      \* the version in the cache, or NotCached
    invalid,   \* isInvalidated
    fresh,     \* staleTime has not passed since the data came
    shown,     \* the view is mounted
    query,     \* NoQuery, Asked, or the version that was read
    tried,     \* the query is the second attempt
    call,      \* of each call: NoQuery, the deed that was asked for, or with the version it wrote
    owed,      \* the newest version of a deed whose success had the view asked for again
    errors

cacheVars == <<page, view, version, data, invalid, fresh, shown, query, tried, call, owed, errors>>

NotCached == -3
NoQuery == -2
Asked == -1
NoCall == [deed |-> "none", wrote |-> NoQuery]

DeedsOf(p, v) == {d \in p.deeds : Changes(d, v)}

Empty ==
    /\ version = 0 /\ data = NotCached /\ invalid = FALSE /\ fresh = FALSE
    /\ shown = FALSE /\ query = NoQuery /\ tried = FALSE /\ call = [c \in Call |-> NoCall]
    /\ owed = 0 /\ errors = 0

(* A view has a deed on its page that it should show.                      *)
CacheInit ==
    /\ page \in Pages /\ view \in page.views /\ Empty
    /\ DeedsOf(page, view) # {} /\ ViewOf[view].route \notin ServedFromMemory

-----------------------------------------------------------------------------
Ask == query' = Asked /\ tried' = FALSE
KeepQuery == UNCHANGED <<query, tried>>

Open ==
    /\ ~shown /\ shown' = TRUE
    /\ IF query = NoQuery /\ (data = NotCached \/ invalid \/ ~fresh) THEN Ask ELSE KeepQuery
    /\ UNCHANGED <<page, view, version, data, invalid, fresh, call, owed, errors>>

(* The query goes on, and its result is kept.                              *)
Leave ==
    /\ shown /\ shown' = FALSE
    /\ KeepQuery /\ UNCHANGED <<page, view, version, data, invalid, fresh, call, owed, errors>>

(* After five minutes without a page that shows it.                        *)
Collect ==
    /\ ~shown /\ query = NoQuery /\ data # NotCached
    /\ data' = NotCached /\ invalid' = FALSE /\ fresh' = FALSE
    /\ KeepQuery /\ UNCHANGED <<page, view, version, shown, call, owed, errors>>

Age ==
    /\ fresh /\ fresh' = FALSE
    /\ KeepQuery /\ UNCHANGED <<page, view, version, data, invalid, shown, call, owed, errors>>

Poll ==
    /\ ViewOf[view].polls /\ shown /\ query = NoQuery /\ Ask
    /\ UNCHANGED <<page, view, version, data, invalid, fresh, shown, call, owed, errors>>

QueryReads ==
    /\ query = Asked /\ query' = version
    /\ UNCHANGED <<page, view, version, data, invalid, fresh, shown, tried, call, owed, errors>>

DataArrives ==
    /\ query >= 0
    /\ data' = query /\ invalid' = FALSE /\ fresh' = TRUE /\ query' = NoQuery /\ tried' = FALSE
    /\ UNCHANGED <<page, view, version, shown, call, owed, errors>>

(* retry: 1.                                                               *)
ViewQueryFails ==
    /\ query # NoQuery /\ errors < MaxErrors /\ errors' = errors + 1
    /\ IF tried THEN query' = NoQuery /\ tried' = FALSE ELSE query' = Asked /\ tried' = TRUE
    /\ UNCHANGED <<page, view, version, data, invalid, fresh, shown, call, owed>>

-----------------------------------------------------------------------------
BeginDeed(c) ==
    /\ shown /\ call[c] = NoCall
    /\ \E d \in DeedsOf(page, view) : call' = [call EXCEPT ![c] = [deed |-> d, wrote |-> Asked]]
    /\ KeepQuery
    /\ UNCHANGED <<page, view, version, data, invalid, fresh, shown, owed, errors>>

Write(c) ==
    /\ call[c].wrote = Asked /\ version < MaxVersion
    /\ version' = version + 1 /\ call' = [call EXCEPT ![c].wrote = version']
    /\ KeepQuery /\ UNCHANGED <<page, view, data, invalid, fresh, shown, owed, errors>>

(* Refused, or the answer is lost, or the deed failed after it had written.*)
Fail(c) ==
    /\ call[c].wrote # NoQuery /\ call' = [call EXCEPT ![c] = NoCall]
    /\ KeepQuery
    /\ UNCHANGED <<page, view, version, data, invalid, fresh, shown, owed, errors>>

Others ==
    /\ version < MaxVersion /\ version' = version + 1
    /\ KeepQuery /\ UNCHANGED <<page, view, data, invalid, fresh, shown, call, owed, errors>>

Matches(key, v) ==
    /\ Len(key) <= Len(ViewOf[v].key)
    /\ \A i \in DOMAIN key : key[i] = ViewOf[v].key[i] \/ "*" \in {key[i], ViewOf[v].key[i]}
Invalidates(d, v) == \E key \in DeedOf[d].keys : Matches(key, v)

(* A first query, and one that no page waits for, are not given up, and    *)
(* what they read takes the mark away.                                     *)
Underway == query # NoQuery /\ (data = NotCached \/ ~shown)

(* Mutant: a query in flight is awaited, not given up.                     *)
AskUnlessAsked == IF query = NoQuery THEN Ask ELSE KeepQuery
AskAgain == IF Underway THEN KeepQuery ELSE Ask

(* The deeds that change a view of their own page and invalidate no key of *)
(* it.                                                                     *)
Overlooked ==
    {<<"useSettings", "useUpdateRetentionPolicy">>, <<"useSettings", "useUpdateRetryPolicy">>,
     <<"useWebhooks", "useRetryDelivery">>, <<"useWebhookDeliveries", "useDeleteWebhook">>,
     <<"useAlertsStats", "useRefreshModels">>, <<"useAdminProviders", "useRefreshModels">>,
     <<"useProvidersHealth", "useRefreshModels">>,
     <<"useVkWeeklyReportPreview", "useTriggerVkUsageCheck">>,
     <<"useAuthStatus", "usePatchAdminUser">>, <<"useAuthStatus", "useRevokeAdminSession">>}

(* Of the others, every one invalidates.  TLC evaluates this, and as it is *)
(* about the tables and no constant, once and for all.                     *)
ASSUME TablesAssumption ==
    \A p \in Pages : \A v \in p.views :
        ViewOf[v].route \notin ServedFromMemory =>
            \A d \in DeedsOf(p, v) : Invalidates(d, v) \/ <<v, d>> \in Overlooked

Succeed(c) ==
    /\ call[c].wrote >= 0 /\ call' = [call EXCEPT ![c] = NoCall]
    /\ IF Invalidates(call[c].deed, view)
       THEN /\ invalid' = TRUE
            /\ IF shown THEN AskAgain ELSE KeepQuery
       ELSE UNCHANGED invalid /\ KeepQuery
    /\ owed' = IF Underway \/ <<view, call[c].deed>> \in Overlooked \/ call[c].wrote < owed
               THEN owed ELSE call[c].wrote
    /\ UNCHANGED <<page, view, version, data, fresh, shown, errors>>

CacheNext ==
    \/ Open \/ Leave \/ Collect \/ Age \/ Poll \/ QueryReads \/ DataArrives \/ ViewQueryFails \/ Others
    \/ \E c \in Call : BeginDeed(c) \/ Write(c) \/ Fail(c) \/ Succeed(c)
CacheSpec == CacheInit /\ [][CacheNext]_cacheVars

-----------------------------------------------------------------------------
(* Once the success of a deed has had the view asked for again, or marked  *)
(* while nothing shows it, no later query, failure, return to the page or  *)
(* success of another deed has the page show, unmarked, what is older than *)
(* the deed.  Nothing is promised of a deed in Overlooked, of a view that  *)
(* the server answers from its memory (ServedFromMemory), nor of a success *)
(* that comes while a query is Underway that is not given up for it: what  *)
(* that has read is then shown, unmarked, until the view is asked for      *)
(* again.                                                                  *)
ShownIsCurrent == shown /\ query = NoQuery /\ ~invalid => data = NotCached \/ data >= owed
=============================================================================
