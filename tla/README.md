# FreeLLM Gateway: TLA+ models, checks and proofs

FreeLLM Gateway is an OpenAI-compatible HTTP gateway.  A client calls
`POST /v1/chat/completions` with a virtual key; the gateway ranks the models of
its pool, walks the ranking, calls an upstream provider for each candidate
until one answers, and remembers in a cooldown table which models and providers
to leave alone for a while.  Background jobs keep the pool up to date, watch the
providers' health, aggregate usage and send alerts and webhooks; a web console
administers it all.

The modules here model the gateway's own logic.  Wherever the code awaits, an
action ends, so that the interleavings of concurrent requests, jobs and
administrators are all there, and so are the queries that fail in the middle
and the restarts.

## The system

| Part | State it keeps | What is hard | What makes it correct |
|---|---|---|---|
| Cooldown engine, `packages/routing-core/src/cooldown.ts`, and its two stores | table `cooldowns`: key, backoff level, `expiresAt`, `halfOpen` | every operation is several queries and nothing is locked; the probe mark outlives the probe | a cooled key comes back after its timer; a half-open key is owed a report; a success clears |
| Route executor, `route-executor.service.ts` | the loop's locals; `request_logs`, `request_attempts` | any query may fail inside the loop's own `try` | candidates in order, once, at most `maxAttempts`; one answer, that of the last call; reports and log agree |
| Error classifiers, `error-classifier.ts`, `errors.ts` | none | three tables name kinds by status, text and exception | what is retried is what the policy says |
| Router and scorer, `router.ts`, `scorer.ts`; retry policy | round-robin counter; one `settings` row | seven modes, aliases, filters written three times; bounds of a patch | nobody lost or repeated, best first; routable models are listed; delays within bounds |
| Scores and auto-blacklist, `score-updater`, `model-auto-blacklist` | `model_scores`; `request_logs` | read-modify-write without a lock; a row names one attempt, by two writes | a model is judged by what it did |
| Provider adapters, `packages/provider-core` | one `TextDecoder`, the registry | a stream is cut into reads at any byte, breaks, is shared | what the upstream sent is what the client gets |
| Pool builder and caches, `pool-cache.ts`, `ttl-cache.ts` | one value, `inFlight`, `refreshing` | an invalidation while a load is running | nobody waits for a load that is over; the last version wins in the end |
| Key authentication and quotas, `virtual-key-auth.ts`, `per-org-limit.ts`, `demo-limit.ts`, `kv-store.ts` | in-process buckets, KV windows | checked before the call, recorded after it | limits per window, bounded overshoot |
| Chat and embeddings routes, request log, virtual keys | `request_logs`, `virtual_keys` | a failure or restart between `start` and `finish`; a key changed under a request | dead secrets stay dead; log, usage and answer agree; every request is answered |
| Model life cycle, `model-discovery`, `snapshot-diff` | `models` | a run works on what it read before | an update finds its row unless the provider was deleted; the rows come to agree with the upstream |
| Event bus and webhooks | listeners, subscriptions, `webhook_deliveries` | a timeout racing the answer, lost messages, failing writes | no echo, duplicates only for a reason, a ledger that adds up |
| Reports | none: queries on the log | a dozen ideas of a window, a failure and a price | their numbers agree |
| Scheduled jobs: usage aggregation, alerts, rules, health, retention | `usage_daily`, caches, `error_events`, rows of `providers` and `cooldowns` | a tick while the last run still runs | nothing counted or alerted twice, nothing skipped |
| Accounts, provider administration, routing policies | `admin_users`, sessions, providers with keys and secrets, the registry, policies | two administrators at once; the table and the registry are two states | locks are earned, enabled keys readable, one default |
| Web console | the query cache of each page; the playground's conversations | deeds, refetches and others' writes in flight together; a save that replaces a whole conversation by what a screen showed | a page never goes back behind what its own deeds made; a conversation keeps its turns |

A chat request passes through them in this order: authentication (buckets),
pool cache, router, `execute` (cooldown table, upstream, cooldown table again),
usage and request log, client.  All requests of a process share the table, the
caches and the buckets, and meet the administrator's routes and the scheduled
jobs there.

## Modules

| Module | Models | Extends |
|---|---|---|
| `CooldownTable` | the rows, and what each query and each computed row is | |
| `CooldownEngine` | `check`, `registerFailure`, `registerSuccess` and both stores, one action per query; time and the administrator's reset | `CooldownTable` |
| `CooldownClient` | callers that check, call and report once, as the engine's interface asks | `CooldownEngine` |
| `RouteContract` | what `execute` promises for one request: the abstract specification | |
| `RouteExecutor` | `execute`, one action per await, each request a caller of the engine; implements `RouteContract` | `CooldownEngine` |
| `Failures` | an upstream's answer, the adapter's outcome and the two classifiers | |
| `RetryPolicy` | the policy, its patch, the retriable test and the back-off | `Failures` |
| `Routing` | aliases, filters, modes, the scorer and the three permission filters, as operators | |
| `Planning` | one request from its name to its last attempt: the router's list and the walk over it under a policy | `Routing`, `RetryPolicy` |
| `Scores` | `recordAttempt` as its read and its write | |
| `AutoBlacklist` | `evaluateModelLogs`, and how the rows it judges come to name a model | `Scores` |
| `StreamReader` | a stream from the upstream's bytes to the client's frames | |
| `RateLimits` | minute and day buckets, and `incrAndExpire` | |
| `RateWindows` | the three quotas under a clock, with a history of what was let through | `RateLimits` |
| `VirtualKeys` | the table `virtual_keys` and its writers, the demo route included | `RateLimits` |
| `ChatRoute` | a chat or embeddings request from the `onRequest` hook to its last log write; `execute` is its contract | `VirtualKeys` |
| `PoolCache` | `getCachedPool`, `invalidatePoolCache` and the same algorithm in `createTtlCache` | |
| `ModelCatalog` | the rows of one provider's models and their writers: discovery, the scan, the override routes, the deletion and creation of the provider | |
| `Webhooks` | the bus with its Redis adapter, the dispatcher with retries, the subscriptions | |
| `Reports` | the three writes of a log row, which a request whose id is used again shares with the first, and every query on the log | |
| `AdminUsers` | accounts, logins with their counter and lock, sessions | `RateLimits` |
| `Providers` | creation, update, rotation, deletion and refresh of a provider, also of one that cannot be installed, its keys, secrets and adapter | |
| `RoutingPolicies` | the routes that write `isDefault` | |
| `UsageDaily` | the `usage-aggregate` job | |
| `Alerts`, `AlertRules` | usage and balance alerts with their caches and the purge; the evaluation of rules | |
| `ProviderHealth` | `checkOne` | |
| `ConsoleData`, `ConsoleHooks` | the console's routes, hooks and pages: who shows what, who writes what, who invalidates what | |
| `QueryCache` | the console's query cache for one view of one page | `ConsoleHooks` |
| `Playground` | the conversations of the playground | `QueryCache` |
| `MCRouteExecutor`, `MCModelCatalog`, `MCChatRoute`, `MCWebhooks`, `MCDecisions`, `MCStreamReader`, `MCAdministration` | instances for TLC | |
| `CooldownEngineProofs`, `CooldownClientProofs`, `RouteExecutorProofs`, `ModelProofs`, `ChatRouteProofs`, `WebhooksProofs`, `AdministrationProofs` | the theorems | TLAPS |
| `FiniteLemmas` | what the proofs need of finite sets of numbers and of sums | TLAPS |

Parts that share no state are run together: `MCDecisions`, `MCAdministration`,
`MCWebhooks` and `MCModelCatalog` have a variable that says which part a
behaviour follows, and leave the others at rest.

### From the code to the model

* **Cooldowns.**  A row of `rows` is a cooldown record.  Its `expiresAt` is
  reduced to `future`, `past` and `epoch` (`new Date(0)`, which the Prisma reset
  writes); `Expire` moves it on.  How long a future lasts is left open, since
  the delay is jittered and may come from a hint.  `attempts` is kept up to
  `AttemptsCap`, the level from which the delay is at its maximum.  `op[c]` is
  the engine operation of caller `c`: function, key, the query it is at, the
  record it has read, the id `findFirst` has returned, the verdict.
  `ForeignKeyOK` is the set of keys the table can reference: in production not
  the providers, because `execute` passes the provider's slug and the column
  references `providers.id`.
* **Executor.**  `pc[q]` is the await `execute` is at, `i[q]` the loop index,
  `attempts[q]` the reports, `called[q]` the upstreams called, `logged[q]` what
  `persistAttempts` has written.  `Catch` is the loop's `catch`, which the
  cooldown writes after the call can reach too; `Rejected` is an exception
  outside the `try` or inside the `catch`.  Failures are reduced to four classes:
  retriable or not by default, provider-level or not.  `Failures` has the kinds.
* **Planning.**  The pool is a sequence of models, a request an `ask`.
  `CandidateLists` is the set of lists `decide` may return (the weighted mode
  draws).  The walk gets HTTP answers, so that both classifiers, the policy's
  filters and the back-off take part.  Scores are in hundredths, times in
  milliseconds, the jitter is a choice.
* **Quotas.**  A limit of 0 stands for none.  An absent bucket is one with count
  0, day 0 or `expiresAt` 0, since the code never stores such a bucket.
* **Chat route.**  `req[q].at` is the await; what runs between two awaits is one
  step.  A secret is a number, fresh with each create and rotate.  `Restart`
  forgets the buckets and the requests; a request id may be reused by a client.
  A demo counter belongs to a key and a date.
* **Log.**  In `Reports` the first request with an id makes a row of `log`, with its
  key and time; later ones with that id write on the same row.  `calls` has the
  requests with the row each writes on.
* **Streams.**  A byte is a record of the line it belongs to, a line is one
  symbol, a character beyond ASCII is two bytes; `decoder` is the one
  `TextDecoder` of the process.
* **Pool cache.**  The database is a counter of writes, and a pool is the value
  it had when the load's query ran.  `owed` counts writers that have committed
  and are yet to call `invalidatePoolCache`.
* **Catalogue.**  A row keeps `status`, `isFree`, the override and the list
  flags; `contextLength` and capabilities are one `facts`.  `run[r]` is a call of
  `refreshOne`: the list, the provider's id, the events of `diffSnapshots`, then
  one write at a time.  `scan[s]` is what `evaluateAll` has read and is still to
  judge.  `overtaken` has the runs and scans that hold ids of a provider deleted
  since: one that is created again has a new id, and so have its models.
* **Webhooks.**  An event stands for its topic.  A receiver may accept a POST
  whose answer never arrives.  A delivery loop is a slot: process, event,
  subscription as it was read, attempt, and the write it is at.
* **Administration.**  An operation is a record per caller with what it has
  read.  In `AdminUsers` a user is the id of a row, never used again.  In
  `Providers` the table and the registry are two states, a key is the number of
  its row, and `config` says what `installFromDatabase` can do with the row of the
  provider: install it, refuse what the schema refuses though the service has
  accepted it, or find no factory for its kind.  In `UsageDaily` a request lasts
  at most until the end of the hour after the one it started in.
* **Console.**  `ConsoleData` lists the routes with the tables they read and
  write; `ConsoleHooks` the hooks with their query keys and invalidations, and
  the pages that use them.  A deed may fail before or after it wrote, a query may
  fail twice in a row, others write at any time.  The pairs of a view and a deed
  for which the code invalidates nothing are listed in `QueryCache!Overlooked`;
  `owed` is the newest deed the view must not be shown without.
* **Playground.**  A turn is a question with its answer.  `home` says which
  conversations a turn was said in, `kept` what the page was told is saved.
  `hurried` counts the acts of a visitor on what is not settled, a conversation
  changed under a pending answer or a message sent before the screen shows the
  active one; `spoiled` has the conversations that were then saved from a screen
  with turns of another, or without some of their own.

## Runs

| Run | Instance | Shows |
|---|---|---|
| `cooldown_memory` | two callers, two keys, the memory store | a half-open key is owed a report, an expired key admits, and a probe resolves |
| `exec_contract` | one request, two models of one provider, a store that refuses nothing | `execute` implements `RouteContract`, and the log tells the answer |
| `exec_faults` | two providers, one unregistered, any two failing queries | order and limit of the calls, reports, response; every request is answered |
| `exec_pair` | two requests on one model, the production foreign key | a half-open model is owed a report |
| `model_catalog` | two overlapping discovery runs, a scan and three changes; or two readers, three loads, two writes and a failing load | updates find their rows unless the provider was deleted under the run, and the rows come to agree with the list; the cache's marks and loads are real and it ends up current |
| `chat_route` | two requests of one key, ordinary or demo, with a patch, a fault or restart and rotations | dead secrets stay dead, token quotas are overshot by the requests in progress only, unfinished log rows are accounted for, log within usage, every request answered |
| `webhooks` | two processes, an event, a subscription that changes, two attempts, a retry and a fault; or two requests of two keys over five hours | no echo, duplicates explained, the ledger, deliveries end; all reports agree, but for the rows of ids that were used again |
| `decisions` | the quota windows; the router in every mode on 37 pools and the walk for every answer and policy; scores; the blacklist; one stream cut anywhere; every page of the console; two conversations of a visitor who may hurry | quotas; the order of candidates and of the walk; judgements by deeds; whole streams; a page keeps what its deeds made; a conversation is replaced by a hurried visitor only |
| `administration` | two callers of accounts, providers and policies, two runs of every job, with faults | accounts, keys with the registry, policies, usage, rules, health and alerts: one property of each |
| `cooldown_prisma` | one caller, one key, the production store: *violated* | after a success the record is still found: the next check is a probe again, and the next failure continues the back-off |
| `providers_disabled` | *violated* | a disabled provider keeps its adapter and goes on being called |
| `stream_torn` | *violated* | two streams share a decoder, and a character cut between two reads of one goes to the other |

The statements that the three violated runs refute are quoted in
`PROJECT.json`.  A run that checks several parts has the sum of their states,
not the product.  `CHECK_DEADLOCK FALSE` stands where bounded counters of
requests, faults or ticks run out and nothing is left to do.

### Bounds

Two callers are enough for every race here, since each race is between two
operations on one row; two keys let a caller hold one while another moves; two
candidates are the least for which order, limit and fallback differ; three rows
let a duplicate row and another key's row coexist.  `AttemptsCap` is 2 where the
level matters and 1 where it does not.  `MaxDbFaults` of 2 lets a query fail in
the `try` and again in the `catch`.  `UpsertCreate` needs a free row id: with all
in use a create waits, and a third row of one key adds no new order.

For the catalogue, three changes are a model that is listed, dropped and listed
again, two of these and a cut-off run, or a provider deleted under a run, created
again and found by the next; models share nothing but the run that
writes them, so one is enough.  For the cache, two loads overlap only when an
invalidation resets the mark of the first, and a third then meets both.

A chat request is charged after its call, so two requests of one key with a
limit of one token reach the largest overshoot the code allows; one reused
request id makes their log rows the same row; a second secret is what a rotation
or a re-issued demo key leaves.  For quotas, days and minutes of two or three
ticks have boundaries inside and between windows; five ticks span more than one
day.  Webhooks need a second process for the echo, a second attempt for the
retry, and one fault for any write that can be lost.  Reports need two keys with
and without a project, a week of several days and a month that ends in between;
one id used again is enough to mix a row.  The demo counters of two dates are there
when the date changes once.
The pools of `decisions` are the triples out of seven models that differ in
every field a filter or a mode looks at.  For usage, four hours are two days:
each run reads two.  In the playground one trouble, `MaxTroubles`, is a call that
fails, a conversation dropped from the cache or a hurried act: each alone can lose
or mix turns.  Other bounds are on requests, ticks, restarts and failing
queries; each is named in the module that declares it.

### Fairness

The fair specifications say that a step that stays enabled is taken: the event
loop resumes every await, queries end, and an upstream call ends because the
adapter aborts it after `timeoutMs`.  New requests, the clock, administrators,
faults and restarts are not fair.  In `PoolCache` time passes, loads end, a writer
that owes an invalidation gets to it, and requests keep coming: without a next
request nobody would start a refresh.  In `ModelCatalog` the scheduler keeps
starting discovery.  In `Webhooks` the bus and the delivery loops go on; a message
lost between processes is a fault.

## Proofs

Each theorem holds for every value of the constants that its module's
assumptions allow: any number of requests, keys, models, callers, faults, ticks.
An extra hypothesis is in the theorem.  What each rests on:

**Cooldown engine** (`CooldownEngineProofs`, `CooldownClientProofs`).  Types and
`HalfOpenOwed` for both stores, `ExpiredKeyAdmits` for the memory store (on Prisma
a second row of the key breaks it).  `HalfOpenOwed` is not
inductive: the invariant adds that a caller about to write a flip has read a row
of its key, that the row it will write is of that key, and that on the memory
store a key has one row.

**Executor** (`RouteExecutorProofs`).  With any faults: types, order and limit of
the calls, reports, response.  `ReportsMatchCalls` and `CallsFollowPlan` need
each other and what each await says of the last call.  When the store refuses
nothing (`ForeignKeyOK = Key`, `MaxDbFaults = 0`): `execute` implements
`RouteContract`, step by step, and the log tells the answer, because an "ok" among
the reports is the outcome of the last call.  Both are false without the
hypothesis: a failing cooldown write after a success makes the loop go on.  With
the production foreign key (`ForeignKeyOK = Model`) and no failing query, a
half-open model is owed a report: the invariant says which operation runs on
which key at each await.  It is false with failing queries: the provider gate's
may fail after the model's has flipped, outside the `try`, and then nobody reports;
a restart in between does the same.

**Catalogue and pool cache** (`ModelProofs`).  The safety invariants of the cache
are inductive together, since `OneSharedLoad` says which promise a waiter holds.
Of the catalogue, types and `UpdatesHaveRows` need two more: a run has events only
while it applies them, a removal among them exactly where its list has no entry,
and the models of a scan have rows.  Only a deletion of the provider takes rows
away, and it overtakes every run with events and every scan; the properties are
about the others, for an update by an overtaken one does miss its row.

**Order of candidates** (`ModelProofs`).  `PlanInOrder` and `RoutableIsListed` hold
for any asks whose pools have distinct ids (they are primary keys), whatever the
modes, filters, weights and draws.  Array.sort and Array.filter both put places
in a row, so a lemma says what such a row is: it has each place once, and a place
of lower rank before one of higher rank.  Each mode and each pinning is then a row
or a row with some left out; what the weighted draw does is shown from the set it
draws from.  There is nothing to induct on: a place is one more than the number
of places before it.  `PlanSpec` has one state between its inputs and the plan,
so the invariant is that the plan is one `decide` may return.

**The walk** (`ModelProofs`).  `WalkInOrder` for any policy within the bounds that
`normalizeRetryPolicy` keeps, any pool, any answers.  The invariant says where
the index is with respect to the calls and the cooled models.  The doubled delay
is a power of two; that powers grow is shown by counting the subsets of 1..n.

**Scores and blacklist** (`ModelProofs`).  `JudgedByDeeds` for any samples and
recorders, clients and rows.  A column tells too little: the counters behind it
must have been moved by samples of their kind as well, and so must every copy
that a recorder has read and not yet written back, or a stale write would undo
it.  For the blacklist the invariant follows each request with its row: no two
share one, a row is open while its request is under way, and a row held against a
model belongs to a request that nobody answered.

**Chat route and quotas** (`ChatRouteProofs`).  Types, `RequestsInOrder` (a secret
has one owner, and a dead one none), `PendingExplained` (who will finish a row).
`LogWithinUsage` needs what is on its way: tokens a request has been charged for and
its row has not been given yet are owed by that request, and rows plus owed tokens
are within the keys' sums.  `OvershootBounded` is proved for any limits that
administrators set, of which those of existing keys are only raised or taken away
(`NeverLowered`); with a lowered one, what was spent legally before exceeds it by
any amount.  A request past the check was checked with at most the limit its key has
by now, and a key that does not exist yet has spent nothing.  Every date has demo
counters of its own, so types need that the clock is within its bound.  The
invariant reserves, for every request past the check, the most its answer can bring
in: what a bucket has spent plus what is reserved on it is at most the limit less
one plus the largest answer times the number of requests.  `QuotasKept` is a
statement about all windows of time at once; the invariant says, for every stretch
that begins before the current window, what may still pass in it, so a new tick adds
at most what the bucket leaves.

**Streams** (`ChatRouteProofs`).  `StreamsWhole` for any texts whose last line alone
may lack a newline, cut into reads anywhere and broken off anywhere.  The
hypothesis is that the process reads one stream at a time; with two it is false,
which is what `stream_torn` shows.  The invariant names the bytes taken since the
last line that was cut: together with the unread ones they are the rest of the
text from some line on, `buf` is what a decoder makes of them, the decoder holds
what is left over at their end, and the client has been told exactly what is due
for the lines before.  The main lemma is that decoding piece by piece, with the
held byte carried over, equals decoding at once; the next is that the only newline
of a line is its last byte, so that cutting the buffer finds the lines the
upstream sent.

**Webhooks** (`WebhooksProofs`).  `NoEcho`, `DuplicatesExplained`, `LedgerHolds`.  An
event has one sender, and a message goes only to processes that have not handled
it.  The accounts are kept for each subscription and event: an attempt that is
not posted yet may still be accepted once, and one that is being recorded has yet
to write its row.

**Reports** (`WebhooksProofs`).  `ReportsAgree` for any keys, models, prices, windows
and limits of series and lists, provided that the errors of executors have
statuses of 400 to 599 and 429 is that of `rate_limited` alone, as
`HTTP_STATUS_BY_KIND` has it (`ReportsAssumption`).  The invariant is about single
rows: a row without a status has neither kind nor attempts, one with a status has
a kind exactly from 400 on, only an answer of 200 to a key has a cost, and the
last attempt has failed exactly if the row has.  All this is of rows with one
request.  A row whose id was used again may have the status of one and the kind of
another; the statements say by how many of those rows (`Reused`, `Misread`) the
reports differ.  This makes the failures of one
report those of another.  All else is arithmetic on one log: the days of a month, the
groups of a column, the ranked list, the keys and the two buckets of a series each
split a set of rows, and a sum over rows is the sum over the parts.  A
quotient says which day and which month an hour is in.  Of the oldest rows,
one that is not taken has at least as many before it as may be taken, so it is
newer than each that is.

**Administration** (`AdministrationProofs`), one invariant per part:

* *Accounts.*  The counter of an account, in its row and in what any operation
  has read of it, is never above the number of wrong passwords there were.
* *Providers.*  What an operation holds was made by it; an enabled key whose
  secret cannot be read has an operation that will see to it; where the only
  request stands says what the registry has.  After it, an enabled provider that
  can be installed has an adapter with its newest key, one without a factory has
  none; nothing is said of one whose row is refused, which keeps what it had.
* *Policies.*  While requests come one after the other, the one being served is
  alone, so what it read outside its transaction is still true inside.
* *Usage.*  While the process is up and runs do not overlap: closed hours have no
  open request, the `today` of a run is the day of the last hour that fired, and
  the rows of a day that is due equal its logs.
* *Alerts.*  No usage alert is later than the cache, so whoever finds the cache a
  day old finds no alert in the day that ends now.
* *Rules.*  What an evaluation owes is part of what it has still to do, without
  the unknown metrics; a rule about to be marked was hit.
* *Health.*  The counter and every value read of it are within the failures; the
  last failure has a bench that expires no earlier, or is resolved, or belongs to
  a check that is about to bench the provider.
* *Console* (`ShownIsCurrent`).  A query that has read has read no less than what is
  owed, and what is cached is as new as what is owed unless it is marked invalid.
  A deed is owed once its success has had the view asked for again; one that
  succeeds while a query is under way which is not given up for it is not, and
  what that query has read is shown.  About the tables
  of hooks and pages the proof needs one fact, that every deed of a page
  invalidates every view of it but those in `Overlooked` and those served from
  the server's memory (`TablesAssumption`); it concerns constants, and TLC
  evaluates it on the actual tables.
* *Playground* (`ConversationsWhole`).  Of a conversation that is not spoiled,
  the server's turns and those of a pending save are in order, said in it, and
  include all the page was told are saved.  While nobody has hurried, the cache and
  the screen of the active one have such turns too, and nothing is spoiled.

`FiniteLemmas` proves what these need of `Min`, `Max` and of sums over finite sets
(a sum is updated, removed from, compared point by point, taken group by group) and
that a finite set can be put in a row by weight.  The sums are folds, and the
argument is by the smallest counterexample: an induction over the data is not
available to the provers, a least element of a set of finite sets is.

### Model-checked only

* Liveness (`ProbeResolves`, `EveryRequestAnswered`, `EventuallyInSync`,
  `EventuallyCurrent`, `RequestsAnswered`, `EventuallySettled`): under fairness,
  beyond the prover.

### Statements the code does not keep

These are stated in the modules, where a comment, doc or test suggests them, and
TLC refutes them; three have runs of their own (above).

| Statement | Module | Why it fails |
|---|---|---|
| `SingleProbe` | `CooldownClient` | two checks read before either writes (cooldown.ts:88) |
| `RunningKept` | `CooldownClient` | a flip writes back the row as it was before a failure was registered (cooldown.ts:89) |
| `ExpiredKeyAdmits`, on Prisma | `CooldownClient` | two failures create two rows; one is reset, the other stays half-open (prisma-cooldown-store.ts:34-66) |
| `ModelProbeOwed`, with failing queries | `RouteExecutor` | the provider gate's query fails after the model's flip (route-executor.service.ts:199) |
| `NonRetriableStops` | `RouteExecutor` | the provider cooldown of a 401 is refused by the foreign key, and the exception is retriable (route-executor.service.ts:393) |
| `NoCallAfterSuccess` | `RouteExecutor` | a cooldown write that fails after the answer (route-executor.service.ts:213) |
| `CooledCostNothing` | `Planning` | a cooled candidate uses up an attempt (docs/ROUTING.md steps 5 and 8, route-executor.service.ts:183-206) |
| `EnabledSurvivesScan` | `ModelCatalog` | a scan writes by flags it read before the administrator enabled the model (model-auto-blacklist.service.ts:121) |
| `PaidNowKept` | `ModelCatalog` | the run after the one that marked a paid model makes it active, on the same list (snapshot-diff.service.ts:185) |
| `FreeAgain` | `ModelCatalog` | no event sets `isFree` again once a model was paid (model-discovery.service.ts:178-329) |
| `BlacklistedWasCalled` | `AutoBlacklist` | a model that was only skipped is named in the row when nobody answers |
| `BalanceAlertOnce` | `Alerts` | the tracker with the cache is made anew by each check (cron.ts:144, provider-balance-check.service.ts:41) |
| `SingleActive` | `RoutingPolicies` | creations and activations that overlap leave two defaults |
| `PartialIsTold` | `StreamReader` | a stream that breaks after its first chunk ends with `[DONE]` (docs/ROUTING.md:110) |
| `NeverTorn`, `RegistryReflectsEnabled`, `SuccessClears` on Prisma | | runs `stream_torn`, `providers_disabled`, `cooldown_prisma` |

## Divergences

What the code does where a comment, a document or another part of the code
suggests something else.  The models follow the code.

* **Routing.**  A 425 is retriable for the router, and `unknown` for the adapter,
  which stops.  The loop sleeps after its last attempt too
  (route-executor.service.ts:158).  `retryPolicy.maxAttempts` above
  `FREELLM_MAX_ROUTE_ATTEMPTS` has no effect.  A failure is recorded with a
  duration of 0 and so improves the latency score
  (route-executor.service.ts:400).  `weighted-free` drops one of two models that
  share an upstream id; two modes drop candidates without a `filteredOut`
  reason.  README.zh.md:76 and CHANGELOG.md:872 name modes and aliases the code
  has not.
* **Auto-blacklist.**  A model that was only skipped, for a cooldown or because its
  provider is not registered, is named in the row when nobody answers, and is
  disabled after five such requests.  One that fails every time but has a
  working fallback is never counted.  Rows are matched by upstream id without the
  provider.  The bulk reset ("one-click restore", CHANGELOG.md:444) is undone by
  the next scan, which judges the same rows.
* **Request log.**  A request id may be chosen by the client and used again; the row
  then counts for the key that began it and keeps an old `errorKind` and cost: the
  monthly report calls it failed, the others a success.  Rows that are pending at a
  restart stay so. An empty stream counts as a success, and streams count no tokens.
  Pending rows are failures for the monthly, weekly, series and daily reports but
  not for `/v1/usage` and the rules.
* **Keys and quotas.**  A patch of `permissions` resets what it does not mention
  (virtual-keys.routes.ts:143).  `recordDemoTokenUsage` is never called
  (demo-limit.ts:44).  A failing `touchUsage` loses an answer already paid for.
  In the Redis store an `EXPIRE NX` that is refused is not noticed and the counter
  never expires.
* **Catalogue.**  A model that has become paid is marked `paid_now` with `isFree`
  false; the next run activates it although the upstream still asks for money, where
  model-status.ts:37 waits for its price to return to nothing and ROUTING.md:68
  drops it by that status.  One that is free again stays `isFree = false`.
  `EventuallyInSync` asks for neither.  A provider deleted under a discovery run
  makes the run's next write fail.  `:free` with a prompt price of 0 is free
  whatever the completion price.  Snapshots keep the upstream's raw entry, so a
  change of capabilities never shows in the timeline.
* **Jobs.**  A process that is down for more than a day leaves days unaggregated.
  Rules fire again on each tick; a rule deleted in the middle of an evaluation, or
  a failing metric, skips the rest.  A key's usage alert is marked before the
  event is written.  A burn below 50 tokens a day rounds to 0 and alerts nobody.
  The cooldown of a failing health check is as long as the interval of checks, and
  is written under the row id while routing looks up the slug.  `request_logs` is
  never purged.
* **Accounts and providers.**  The login counter is read and written apart
  (CHANGELOG.md:983 calls it atomic, admin-user.service.ts:62-67).  `deleteUser`
  counts enabled accounts of any role, `setEnabled` may disable the last
  administrator, a session outlives the disabling of its account.  A patch of a
  user may write some fields and then answer 400.  A rotation that fails after
  removing the old keys leaves none; refreshes that overlap may install an old
  credential.  The service accepts limits of 0 and slugs that the installer's schema
  refuses, and kinds that it does not list or that no factory makes; only two are
  registered.  Such an enabled provider is never installed, or keeps the adapter it
  had, with a key that may have been rotated away.
* **Caches and the console.**  `metricsCache` is said to be cleared by changes of
  keys (metrics.routes.ts:7), and is not; `ttl-cache.ts` stores a load that an
  invalidation has overtaken.  The console listens for `cooldown:triggered`, which
  nothing emits.  A deed that succeeds while the first query of a view is under way
  may be missing from it until it is asked for again.  `persistMessages`
  (Playground.tsx:158) replaces a conversation by the screen: a message sent from
  the screen of another one, or before all turns are there, drops turns.  Deeds that
  invalidate too little are `QueryCache!Overlooked`. The retry card resets its draft
  to the old data after a save; the retention card sends the whole policy and
  refetches before a purge has ended. metrics-timeseries.service.ts:45 promises a
  `truncated` flag and a dropped tail; there is no flag, and the newest rows are
  dropped.

## Not modelled

Organisations, projects and the other plain record services, the audit log,
notification channels; the rendering of the console, its forms, its event stream
and what two browser tabs do to each other; the intervals, status and `stopAll` of
the scheduler, whose jobs are started at any time instead; the sending of the
weekly report; prices in usage rows; the purge of tables other than error events;
Redis as a store of its own, which is taken to do what the memory store does;
shared types, configuration, the command line and deployment.  They keep no state
that another part depends on, or are input and output only.

## Plan

Every safety property of the runs is a theorem.  What comes next is on the side of
the model: the scheduler's own state (`stopAll`, the status of a job), the purge of
the other tables, and two browser tabs that share a server.
