------------------------------ MODULE Webhooks ------------------------------
(***************************************************************************)
(* The event bus with its Redis adapter, and the webhook dispatcher that   *)
(* listens on it in every process.  emit runs the local listeners and then *)
(* publishes once; a process that receives another's message runs its own  *)
(* listeners and publishes nothing.  The dispatcher looks up the matching  *)
(* subscriptions and delivers to each on its own, with retries.            *)
(*                                                                         *)
(* An event stands for its topic.  The receiver is external: it may accept *)
(* a POST whose answer never arrives.                                      *)
(***************************************************************************)
EXTENDS Integers, FiniteSets

CONSTANTS
    Proc,         \* processes on one Redis channel
    Event,        \* events emitted, each once
    Sub,          \* webhook subscriptions
    TopicLists,   \* values of eventTopicsJson; the empty list stands for all topics
    MaxAttempts,  \* WebhookDispatcherOptions.maxAttempts
    MaxUpdates,   \* bound: PATCHes of subscriptions
    MaxRetries,   \* bound: retries an administrator asks for
    MaxFaults     \* bound: failing queries, lost answers, lost messages and restarts

ASSUME WebhookAssumption ==
    /\ IsFiniteSet(Proc) /\ IsFiniteSet(Event) /\ IsFiniteSet(Sub)
    /\ TopicLists \subseteq SUBSET Event
    /\ MaxAttempts \in Nat \ {0}
    /\ MaxUpdates \in Nat /\ MaxRetries \in Nat /\ MaxFaults \in Nat

VARIABLES
    sub,        \* sub[s]: the row of webhook_subscriptions, with its deliveries counted
    emitted,    \* events emitted so far
    publishing, \* <<p, e>>: p has run its listeners for e and has yet to publish
    inbox,      \* inbox[p]: the envelopes on their way to p
    finding,    \* <<p, e>>: the dispatcher of p looks up the subscriptions of e
    job,        \* job[p, e, s, cause]: where deliverWithRetry is
    handled,    \* history: how often the listeners of p ran for e
    accepted,   \* history: how often the receiver of s accepted e
    started,    \* history: calls of deliverWithRetry for s and e
    excused,    \* history: acceptances that the dispatcher did not get to record
    settled,    \* history: <<s, e>> a delivery row was tried for
    budget      \* what is left of the bounds

histVars == <<handled, accepted, started, excused, settled>>
vars == <<sub, emitted, publishing, inbox, finding, job, histVars, budget>>

(* A process delivers an event to a subscription for the bus, and again    *)
(* for each retry; retries of one event are taken one at a time.           *)
Slot == Proc \X Event \X Sub \X {"bus", "retry"}
Row == [is : {"absent", "live", "deleted"}, enabled : BOOLEAN, topics : SUBSET Event,
        total : Nat, failures : Nat, okRows : Nat, failRows : Nat]
NoRow == [is |-> "absent", enabled |-> FALSE, topics |-> {},
          total |-> 0, failures |-> 0, okRows |-> 0, failRows |-> 0]
Stage == {"idle", "post", "record", "okRow", "recordFail", "failRow"}
Job == [at : Stage, attempt : 0..MaxAttempts]
NoJob == [at |-> "idle", attempt |-> 0]

TypeOK ==
    /\ sub \in [Sub -> Row]
    /\ emitted \subseteq Event
    /\ publishing \subseteq Proc \X Event
    /\ inbox \in [Proc -> SUBSET (Proc \X Event)]
    /\ finding \subseteq Proc \X Event
    /\ job \in [Slot -> Job]
    /\ handled \in [Proc \X Event -> Nat]
    /\ accepted \in [Sub \X Event -> Nat]
    /\ started \in [Sub \X Event -> Nat]
    /\ excused \in [Sub \X Event -> Nat]
    /\ settled \subseteq Sub \X Event
    /\ budget \in [updates : Nat, retries : Nat, faults : Nat]

Init ==
    /\ sub = [s \in Sub |-> NoRow]
    /\ emitted = {} /\ publishing = {} /\ finding = {} /\ settled = {}
    /\ inbox = [p \in Proc |-> {}]
    /\ job = [j \in Slot |-> NoJob]
    /\ handled = [pe \in Proc \X Event |-> 0]
    /\ accepted = [se \in Sub \X Event |-> 0]
    /\ started = [se \in Sub \X Event |-> 0]
    /\ excused = [se \in Sub \X Event |-> 0]
    /\ budget = [updates |-> MaxUpdates, retries |-> MaxRetries, faults |-> MaxFaults]

Spend(what) == budget[what] > 0 /\ budget' = [budget EXCEPT ![what] = @ - 1]
Live(s) == sub[s].is = "live"
Matches(s, e) == sub[s].topics = {} \/ e \in sub[s].topics
Wanted(s, e) == Live(s) /\ sub[s].enabled /\ Matches(s, e)

-----------------------------------------------------------------------------
(* The administrator's routes.                                             *)

Create(s) ==
    /\ sub[s].is = "absent"
    /\ \E topics \in TopicLists, b \in BOOLEAN :
          sub' = [sub EXCEPT ![s] = [NoRow EXCEPT !.is = "live", !.enabled = b, !.topics = topics]]
    /\ UNCHANGED <<emitted, publishing, inbox, finding, job, histVars, budget>>

Update(s) ==
    /\ Live(s) /\ Spend("updates")
    /\ \E topics \in TopicLists, b \in BOOLEAN :
          sub' = [sub EXCEPT ![s].enabled = b, ![s].topics = topics]
    /\ UNCHANGED <<emitted, publishing, inbox, finding, job, histVars>>

(* The delivery rows go with the subscription.                             *)
Delete(s) ==
    /\ Live(s)
    /\ sub' = [sub EXCEPT ![s] = [NoRow EXCEPT !.is = "deleted"]]
    /\ UNCHANGED <<emitted, publishing, inbox, finding, job, histVars, budget>>

-----------------------------------------------------------------------------
(* The bus.                                                                *)

(* The listeners of p run for e: the dispatcher's starts handleEvent.      *)
Dispatch(p, e) ==
    /\ finding' = finding \cup {<<p, e>>}
    /\ handled' = [handled EXCEPT ![<<p, e>>] = @ + 1]

Emit(p, e) ==
    /\ e \notin emitted
    /\ emitted' = emitted \cup {e}
    /\ Dispatch(p, e)
    /\ publishing' = publishing \cup {<<p, e>>}
    /\ UNCHANGED <<sub, inbox, job, accepted, started, excused, settled, budget>>

(* Every process subscribes, the sender too.                               *)
Publish(p, e) ==
    /\ <<p, e>> \in publishing
    /\ publishing' = publishing \ {<<p, e>>}
    /\ inbox' = [q \in Proc |-> inbox[q] \cup {<<p, e>>}]
    /\ UNCHANGED <<sub, emitted, finding, job, histVars, budget>>

(* publish fails, or Redis has no connection to deliver on.                *)
PublishLost(p, e) ==
    /\ <<p, e>> \in publishing
    /\ Spend("faults")
    /\ publishing' = publishing \ {<<p, e>>}
    /\ UNCHANGED <<sub, emitted, inbox, finding, job, histVars>>

(* Mutant: a process does not skip the messages it sent.                   *)
ReceiveOwn(p, m) ==
    /\ m \in inbox[p]
    /\ inbox' = [inbox EXCEPT ![p] = @ \ {m}]
    /\ Dispatch(p, m[2])
    /\ UNCHANGED <<sub, emitted, publishing, job, accepted, started, excused, settled, budget>>

Receive(p, m) ==
    /\ m \in inbox[p]
    /\ inbox' = [inbox EXCEPT ![p] = @ \ {m}]
    /\ IF m[1] = p THEN UNCHANGED <<finding, handled>> ELSE Dispatch(p, m[2])
    /\ UNCHANGED <<sub, emitted, publishing, job, accepted, started, excused, settled, budget>>

-----------------------------------------------------------------------------
(* handleEvent and deliverWithRetry.                                       *)

Start(S, e) ==
    started' = [se \in Sub \X Event |->
                   IF se[1] \in S /\ se[2] = e THEN started[se] + 1 ELSE started[se]]

(* Mutant: the deliveries are made from a list that is still a promise.    *)
FindUnawaited(p, e) ==
    /\ <<p, e>> \in finding
    /\ finding' = finding \ {<<p, e>>}
    /\ UNCHANGED <<sub, emitted, publishing, inbox, job, histVars, budget>>

(* findMatching, then one deliverWithRetry for each subscription.          *)
Find(p, e) ==
    LET matching == {s \in Sub : Wanted(s, e)} IN
    /\ <<p, e>> \in finding
    /\ finding' = finding \ {<<p, e>>}
    /\ job' = [j \in Slot |-> IF /\ j[1] = p /\ j[2] = e /\ j[3] \in matching
                                /\ j[4] = "bus"
                             THEN [at |-> "post", attempt |-> 1] ELSE job[j]]
    /\ Start(matching, e)
    /\ UNCHANGED <<sub, emitted, publishing, inbox, handled, accepted, excused, settled, budget>>

(* The query fails: the event is lost for this process.                    *)
FindFails(p, e) ==
    /\ <<p, e>> \in finding
    /\ Spend("faults")
    /\ finding' = finding \ {<<p, e>>}
    /\ UNCHANGED <<sub, emitted, publishing, inbox, job, histVars>>

At(j, l) == job[j].at = l
Goto(j, l) == job' = [job EXCEPT ![j].at = l]
Accept(j) == accepted' = [accepted EXCEPT ![<<j[3], j[2]>>] = @ + 1]
Excuse(j) == excused' = [excused EXCEPT ![<<j[3], j[2]>>] = @ + 1]

(* An attempt that did not end in `return`: back off and try again, or     *)
(* give up after the last.                                                 *)
NextAttempt(j) ==
    job' = [job EXCEPT ![j] = IF @.attempt < MaxAttempts
                              THEN [at |-> "post", attempt |-> @.attempt + 1]
                              ELSE [@ EXCEPT !.at = "recordFail"]]

Posted(j) ==
    /\ At(j, "post")
    /\ Accept(j)
    /\ Goto(j, "record")
    /\ UNCHANGED <<sub, emitted, publishing, inbox, finding, handled, started, excused, settled, budget>>

(* Not a 2xx, or nothing reached the receiver.                             *)
Refused(j) ==
    /\ At(j, "post")
    /\ NextAttempt(j)
    /\ UNCHANGED <<sub, emitted, publishing, inbox, finding, histVars, budget>>

(* The receiver accepts and the answer is late: the request is aborted.    *)
TimedOut(j) ==
    /\ At(j, "post")
    /\ Spend("faults")
    /\ Accept(j) /\ Excuse(j)
    /\ NextAttempt(j)
    /\ UNCHANGED <<sub, emitted, publishing, inbox, finding, handled, started, settled>>

(* recordDelivery(sub.id, true).                                           *)
Record(j) ==
    /\ At(j, "record") /\ Live(j[3])
    /\ sub' = [sub EXCEPT ![j[3]].total = @ + 1]
    /\ Goto(j, "okRow")
    /\ UNCHANGED <<emitted, publishing, inbox, finding, histVars, budget>>

(* It throws inside the try of the attempt: the query fails, or the row    *)
(* is gone.                                                                *)
RecordThrows(j) ==
    /\ At(j, "record")
    /\ \/ ~Live(j[3]) /\ UNCHANGED budget
       \/ Live(j[3]) /\ Spend("faults")
    /\ Excuse(j)
    /\ NextAttempt(j)
    /\ UNCHANGED <<sub, emitted, publishing, inbox, finding, handled, accepted, started, settled>>

Settle(j) == settled' = settled \cup {<<j[3], j[2]>>}

(* Mutant: a failing delivery row is an error of the attempt.              *)
OkRowThrows(j) ==
    /\ At(j, "okRow")
    /\ Settle(j)
    /\ \/ /\ Live(j[3])
          /\ sub' = [sub EXCEPT ![j[3]].okRows = @ + 1]
          /\ Goto(j, "idle")
          /\ UNCHANGED budget
       \/ /\ Live(j[3]) /\ Spend("faults")
          /\ NextAttempt(j)
          /\ UNCHANGED sub
    /\ UNCHANGED <<emitted, publishing, inbox, finding, handled, accepted, started, excused>>

(* recordDeliveryRow swallows its error; it returns either way.            *)
OkRow(j) ==
    /\ At(j, "okRow")
    /\ Settle(j)
    /\ Goto(j, "idle")
    /\ \/ Live(j[3]) /\ sub' = [sub EXCEPT ![j[3]].okRows = @ + 1] /\ UNCHANGED budget
       \/ ~Live(j[3]) /\ UNCHANGED <<sub, budget>>
       \/ Live(j[3]) /\ Spend("faults") /\ UNCHANGED sub
    /\ UNCHANGED <<emitted, publishing, inbox, finding, handled, accepted, started, excused>>

(* Mutant: only the failure is counted.                                    *)
RecordOnlyFailure(j) ==
    /\ At(j, "recordFail") /\ Live(j[3])
    /\ sub' = [sub EXCEPT ![j[3]].failures = @ + 1]
    /\ Goto(j, "failRow")
    /\ UNCHANGED <<emitted, publishing, inbox, finding, histVars, budget>>

(* recordDelivery(sub.id, false).                                          *)
RecordFail(j) ==
    /\ At(j, "recordFail") /\ Live(j[3])
    /\ sub' = [sub EXCEPT ![j[3]].total = @ + 1, ![j[3]].failures = @ + 1]
    /\ Goto(j, "failRow")
    /\ UNCHANGED <<emitted, publishing, inbox, finding, histVars, budget>>

(* Outside any try: the delivery ends with no row.                         *)
RecordFailThrows(j) ==
    /\ At(j, "recordFail")
    /\ \/ ~Live(j[3]) /\ UNCHANGED budget
       \/ Live(j[3]) /\ Spend("faults")
    /\ Goto(j, "idle")
    /\ UNCHANGED <<sub, emitted, publishing, inbox, finding, histVars>>

(* The row, and an error_events row whose failure is swallowed as well.    *)
FailRow(j) ==
    /\ At(j, "failRow")
    /\ Settle(j)
    /\ Goto(j, "idle")
    /\ \/ Live(j[3]) /\ sub' = [sub EXCEPT ![j[3]].failRows = @ + 1] /\ UNCHANGED budget
       \/ ~Live(j[3]) /\ UNCHANGED <<sub, budget>>
       \/ Live(j[3]) /\ Spend("faults") /\ UNCHANGED sub
    /\ UNCHANGED <<emitted, publishing, inbox, finding, handled, accepted, started, excused>>

(* POST /admin/webhooks/deliveries/:id/retry: whatever became of it, and   *)
(* whether or not the subscription is enabled.                             *)
Retry(j) ==
    /\ <<j[3], j[2]>> \in settled /\ Live(j[3])
    /\ sub[j[3]].okRows + sub[j[3]].failRows > 0
    /\ j[4] = "retry" /\ At(j, "idle")
    /\ Spend("retries")
    /\ job' = [job EXCEPT ![j] = [at |-> "post", attempt |-> 1]]
    /\ Start({j[3]}, j[2])
    /\ UNCHANGED <<sub, emitted, publishing, inbox, finding, handled, accepted, excused, settled>>

(* A process stops: what it was doing is gone.                             *)
Crash(p) ==
    /\ Spend("faults")
    /\ publishing' = {pe \in publishing : pe[1] # p}
    /\ finding' = {pe \in finding : pe[1] # p}
    /\ inbox' = [inbox EXCEPT ![p] = {}]
    /\ excused' = [se \in Sub \X Event |->
                      excused[se] + Cardinality({j \in Slot : /\ j[1] = p /\ <<j[3], j[2]>> = se
                                                              /\ job[j].at = "record"})]
    /\ job' = [j \in Slot |-> IF j[1] = p THEN NoJob ELSE job[j]]
    /\ UNCHANGED <<sub, emitted, handled, accepted, started, settled>>

BusStep(p) ==
    \/ \E e \in Event : Publish(p, e) \/ Find(p, e)
    \/ \E m \in inbox[p] : Receive(p, m)

Delivery(j) ==
    \/ Posted(j) \/ Refused(j) \/ Record(j) \/ RecordThrows(j) \/ OkRow(j)
    \/ RecordFail(j) \/ RecordFailThrows(j) \/ FailRow(j)

Next ==
    \/ \E s \in Sub : Create(s) \/ Update(s) \/ Delete(s)
    \/ \E p \in Proc, e \in Event : Emit(p, e) \/ PublishLost(p, e) \/ FindFails(p, e)
    \/ \E p \in Proc : BusStep(p) \/ Crash(p)
    \/ \E j \in Slot : Delivery(j) \/ TimedOut(j) \/ Retry(j)

Spec == Init /\ [][Next]_vars

(* Awaits resume: queries end, a POST ends or is aborted, Redis delivers.  *)
FairSpec ==
    /\ Spec
    /\ \A p \in Proc : WF_vars(BusStep(p))
    /\ \A j \in Slot : WF_vars(Delivery(j))

-----------------------------------------------------------------------------
(* No process runs its listeners twice for an event, with every process    *)
(* publishing to a channel it also listens on (attachRedisPubSub).         *)
NoEcho == \A pe \in Proc \X Event : handled[pe] <= 1

(* A receiver sees an event again only for a reason: another process       *)
(* delivers it too, an administrator retries it, its answer came too late, *)
(* or the success could not be recorded (deliverWithRetry).                *)
DuplicatesExplained ==
    \A se \in Sub \X Event : accepted[se] <= started[se] + excused[se]

(* The counters of a subscription cover its delivery rows, success by      *)
(* success and failure by failure (recordDelivery, recordDeliveryRow).     *)
RowsWithinCounters ==
    \A s \in Sub : /\ sub[s].okRows <= sub[s].total - sub[s].failures
                   /\ sub[s].failRows <= sub[s].failures

(* A success is recorded only of a subscription whose receiver accepted.   *)
SuccessWasAccepted ==
    \A s \in Sub : sub[s].okRows > 0 => \E e \in Event : accepted[<<s, e>>] > 0

(* The ledger of a subscription, counters and rows, agrees with what was   *)
(* sent, whatever writes of it failed.                                     *)
LedgerHolds == RowsWithinCounters /\ SuccessWasAccepted

(* An event that a subscription wants is delivered, or its failure is      *)
(* recorded, unless the subscription changes its mind or something fails.  *)
EventuallySettled ==
    \A p \in Proc, e \in Event, s \in Sub :
        (<<p, e>> \in finding /\ Wanted(s, e))
                      ~> \/ <<s, e>> \in settled
                         \/ ~Wanted(s, e)
                         \/ budget.faults < MaxFaults
=============================================================================
