--------------------------- MODULE WebhooksProofs ---------------------------
(***************************************************************************)
(* The safety of the bus and of webhook deliveries, for any processes,     *)
(* events, subscriptions, attempts and faults.  The bus needs to know who  *)
(* can still hear of an event; the accounts of deliveries count the        *)
(* attempts that are under way: one that has not posted yet may still be   *)
(* accepted once, one that is recording is yet to write its row.           *)
(* And the reports on the request log, for any keys, models, prices and    *)
(* windows: what is invariant is what a row says of its request at each    *)
(* stage, and a total is the sum of its groups.                            *)
(***************************************************************************)
EXTENDS Webhooks, Reports, FiniteLemmas, FiniteSetTheorems, TLAPS

(* The envelopes of p for e that have not arrived everywhere.              *)
Sent(p, e) == <<p, e>> \in publishing \/ \E q \in Proc : <<p, e>> \in inbox[q]

(* An event has one sender, and its envelope goes to processes that have   *)
(* not handled it, the sender excepted.                                    *)
BusInv ==
    /\ \A p \in Proc, e \in Event : e \notin emitted => handled[<<p, e>>] = 0 /\ ~Sent(p, e)
    /\ \A p, q \in Proc, e \in Event : Sent(p, e) /\ Sent(q, e) => p = q
    /\ \A p, q \in Proc, e \in Event :
          <<p, e>> \in publishing =>
              <<p, e>> \notin inbox[q] /\ (q # p => handled[<<q, e>>] = 0)
    /\ \A p, q \in Proc, e \in Event : <<p, e>> \in inbox[q] /\ q # p => handled[<<q, e>>] = 0
    /\ \A p \in Proc, e \in Event : handled[<<p, e>>] <= 1

JobsOf(s, l) == {j \in Slot : j[3] = s /\ job[j].at = l}
Posting(s, e) == {j \in Slot : j[3] = s /\ j[2] = e /\ job[j].at = "post"}

(* An acceptance is either the one that its delivery may still get, or     *)
(* explained.                                                              *)
Account(s, e) ==
    accepted[<<s, e>>] + Cardinality(Posting(s, e)) <= started[<<s, e>>] + excused[<<s, e>>]

Accounts == \A s \in Sub, e \in Event : Account(s, e)

Ledger(s) ==
    /\ sub[s].is = "absent" => \A j \in Slot : j[3] = s => job[j].at = "idle"
    /\ sub[s].is # "live" =>
          sub[s].total = 0 /\ sub[s].failures = 0 /\ sub[s].okRows = 0 /\ sub[s].failRows = 0
    /\ sub[s].is = "live" =>
          /\ sub[s].okRows + Cardinality(JobsOf(s, "okRow")) <= sub[s].total - sub[s].failures
          /\ sub[s].failRows + Cardinality(JobsOf(s, "failRow")) <= sub[s].failures

(* Who records a success has been accepted.                                *)
AcceptedJobs == \A j \in Slot : job[j].at \in {"record", "okRow"} => accepted[<<j[3], j[2]>>] > 0

Accepted == AcceptedJobs /\ SuccessWasAccepted

Inv == TypeOK /\ BusInv /\ Accounts /\ (\A s \in Sub : Ledger(s)) /\ Accepted

-----------------------------------------------------------------------------
(* Counting.                                                               *)

LEMMA Fewer ==
    ASSUME NEW S, IsFiniteSet(S), NEW T, T \subseteq S
    PROVE  /\ IsFiniteSet(T)
           /\ Cardinality(T) \in Nat /\ Cardinality(S) \in Nat
           /\ Cardinality(T) <= Cardinality(S)
  BY FS_Subset, FS_CardinalityType

LEMMA OneMore ==
    ASSUME NEW S, IsFiniteSet(S), NEW x, NEW T, T \subseteq S \cup {x}
    PROVE  /\ Cardinality(T) \in Nat /\ Cardinality(S) \in Nat
           /\ Cardinality(T) <= Cardinality(S) + 1
<1>1. IsFiniteSet(S \cup {x}) /\ Cardinality(S \cup {x}) <= Cardinality(S) + 1
  <2>1. Cardinality(S) \in Nat
    BY FS_CardinalityType
  <2>2. /\ IsFiniteSet(S \cup {x})
        /\ Cardinality(S \cup {x}) = IF x \in S THEN Cardinality(S) ELSE Cardinality(S) + 1
    BY FS_AddElement
  <2> QED
    BY <2>1, <2>2
<1> QED
  BY <1>1, Fewer, FS_CardinalityType

LEMMA OneLess ==
    ASSUME NEW S, IsFiniteSet(S), NEW x \in S, NEW T, T \subseteq S \ {x}
    PROVE  /\ Cardinality(T) \in Nat /\ Cardinality(S) \in Nat
           /\ Cardinality(T) <= Cardinality(S) - 1
<1>1. IsFiniteSet(S \ {x}) /\ Cardinality(S \ {x}) = Cardinality(S) - 1
  BY FS_RemoveElement
<1> QED
  BY <1>1, Fewer, FS_CardinalityType

LEMMA SlotFinite == IsFiniteSet(Slot)
<1> DEFINE Nested == ((Proc \X Event) \X Sub) \X {"bus", "retry"}
           f == [j \in Slot |-> <<<<<<j[1], j[2]>>, j[3]>>, j[4]>>]
<1>1. IsFiniteSet(Nested)
  <2>1. IsFiniteSet({"bus", "retry"})
    <3>1. {"bus", "retry"} = {"bus"} \cup {"retry"}
      OBVIOUS
    <3>2. IsFiniteSet({"bus"})
      BY FS_Singleton
    <3>3. IsFiniteSet({"bus"} \cup {"retry"})
      BY <3>2, FS_AddElement
    <3> QED
      BY <3>1, <3>3
  <2>2. IsFiniteSet(Proc \X Event)
    BY WebhookAssumption, FS_Product
  <2>3. IsFiniteSet((Proc \X Event) \X Sub)
    BY <2>2, WebhookAssumption, FS_Product
  <2> QED
    BY <2>1, <2>3, FS_Product
<1>2. f \in Injection(Slot, Nested)
  <2>1. f \in [Slot -> Nested]
    BY DEF Slot
  <2>2. ASSUME NEW a \in Slot, NEW b \in Slot, f[a] = f[b] PROVE a = b
    BY <2>2 DEF Slot
  <2> QED
    BY <2>1, <2>2 DEF Injection, IsInjective
<1> QED
  BY <1>1, <1>2, FS_Injection

(* Every set of slots that is counted is finite, before and after a step.  *)
LEMMA Counted ==
    /\ \A s, l : IsFiniteSet(JobsOf(s, l)) /\ Cardinality(JobsOf(s, l)) \in Nat
    /\ \A s, e : IsFiniteSet(Posting(s, e)) /\ Cardinality(Posting(s, e)) \in Nat
  BY SlotFinite, Fewer DEF JobsOf, Posting

LEMMA CountedNext ==
    /\ \A s, l : IsFiniteSet(JobsOf(s, l)') /\ Cardinality(JobsOf(s, l)') \in Nat
    /\ \A s, e : IsFiniteSet(Posting(s, e)') /\ Cardinality(Posting(s, e)') \in Nat
<1>1. \A s, l : JobsOf(s, l)' \subseteq Slot
  BY DEF JobsOf, Slot
<1>2. \A s, e : Posting(s, e)' \subseteq Slot
  BY DEF Posting, Slot
<1> QED
  BY <1>1, <1>2, SlotFinite, Fewer

-----------------------------------------------------------------------------
LEMMA Initial == Init => Inv
<1> SUFFICES ASSUME Init PROVE Inv
  OBVIOUS
<1> USE WebhookAssumption DEF Init
<1>1. TypeOK
  <2>1. sub \in [Sub -> Row]
    BY DEF Row, NoRow
  <2>2. job \in [Slot -> Job]
    BY DEF Job, NoJob, Stage
  <2>3. budget \in [updates : Nat, retries : Nat, faults : Nat]
    OBVIOUS
  <2> QED
    BY <2>1, <2>2, <2>3 DEF TypeOK
<1>2. BusInv
  BY DEF BusInv, Sent
<1>3. Accounts
  <2>1. \A s \in Sub, e \in Event : Posting(s, e) = {}
    BY DEF Posting, NoJob
  <2>2. \A s \in Sub, e \in Event : /\ accepted[<<s, e>>] = 0
                                   /\ started[<<s, e>>] = 0 /\ excused[<<s, e>>] = 0
    OBVIOUS
  <2>3. Cardinality({}) = 0
    BY FS_EmptySet
  <2> SUFFICES ASSUME NEW s \in Sub, NEW e \in Event
               PROVE  accepted[<<s, e>>] + Cardinality(Posting(s, e))
                          <= started[<<s, e>>] + excused[<<s, e>>]
    BY DEF Accounts, Account
  <2>4. Posting(s, e) = {} /\ accepted[<<s, e>>] = 0
            /\ started[<<s, e>>] = 0 /\ excused[<<s, e>>] = 0
    BY <2>1, <2>2
  <2>5. Cardinality(Posting(s, e)) = 0
    BY <2>3, <2>4
  <2> QED
    BY <2>4, <2>5
<1>4. \A s \in Sub : Ledger(s)
  <2>1. \A s \in Sub : sub[s] = NoRow
    OBVIOUS
  <2>2. \A j \in Slot : job[j].at = "idle"
    BY DEF NoJob
  <2> QED
    BY <2>1, <2>2 DEF Ledger, NoRow
<1>5. Accepted
  BY DEF Accepted, AcceptedJobs, SuccessWasAccepted, NoRow, NoJob
<1> QED
  BY <1>1, <1>2, <1>3, <1>4, <1>5 DEF Inv

-----------------------------------------------------------------------------
(* The types.  A failing write, a crash and a retry are typed like what    *)
(* they interrupt.                                                         *)

LEMMA NextAttemptTyped ==
    ASSUME TypeOK, NEW j \in Slot, job[j].at \notin {"idle"}, NextAttempt(j)
    PROVE  job' \in [Slot -> Job]
  BY WebhookAssumption DEF TypeOK, NextAttempt, Job, Stage

LEMMA GotoTyped ==
    ASSUME TypeOK, NEW j \in Slot, NEW l \in Stage, Goto(j, l)
    PROVE  job' \in [Slot -> Job]
  BY DEF TypeOK, Goto, Job, Stage

LEMMA SpendTyped ==
    ASSUME TypeOK, NEW what \in {"updates", "retries", "faults"}, Spend(what)
    PROVE  budget' \in [updates : Nat, retries : Nat, faults : Nat]
  BY DEF TypeOK, Spend

LEMMA CountersTyped ==
    ASSUME TypeOK, NEW j \in Slot
    PROVE  /\ Accept(j) => accepted' \in [Sub \X Event -> Nat]
           /\ Excuse(j) => excused' \in [Sub \X Event -> Nat]
           /\ Settle(j) => settled' \subseteq Sub \X Event
<1> DEFINE se == <<j[3], j[2]>>
<1>1. se \in Sub \X Event
  BY DEF Slot
<1> HIDE DEF se
<1> USE <1>1 DEF TypeOK
<1>2. Accept(j) => accepted' = [accepted EXCEPT ![se] = @ + 1]
  BY DEF Accept, se
<1>3. Excuse(j) => excused' = [excused EXCEPT ![se] = @ + 1]
  BY DEF Excuse, se
<1>4. Settle(j) => settled' = settled \cup {se}
  BY DEF Settle, se
<1> QED
  BY <1>2, <1>3, <1>4

LEMMA RowChanges ==
    ASSUME NEW r \in Row
    PROVE  /\ [r EXCEPT !.total = @ + 1] \in Row
           /\ [r EXCEPT !.okRows = @ + 1] \in Row
           /\ [r EXCEPT !.failRows = @ + 1] \in Row
           /\ \A n \in Nat : [r EXCEPT !.failures = n] \in Row
           /\ \A b \in BOOLEAN, topics \in SUBSET Event :
                 [r EXCEPT !.enabled = b, !.topics = topics] \in Row
<1> USE DEF Row
<1>1. [r EXCEPT !.total = @ + 1] \in Row
  OBVIOUS
<1>2. [r EXCEPT !.okRows = @ + 1] \in Row
  OBVIOUS
<1>3. [r EXCEPT !.failRows = @ + 1] \in Row
  OBVIOUS
<1>4. \A n \in Nat : [r EXCEPT !.failures = n] \in Row
  OBVIOUS
<1>5. ASSUME NEW b \in BOOLEAN, NEW topics \in SUBSET Event
      PROVE  [r EXCEPT !.enabled = b, !.topics = topics] \in Row
  OBVIOUS
<1> HIDE DEF Row
<1> QED
  BY <1>1, <1>2, <1>3, <1>4, <1>5

LEMMA RowTyped ==
    ASSUME TypeOK, NEW s \in Sub
    PROVE  /\ [sub EXCEPT ![s].total = @ + 1] \in [Sub -> Row]
           /\ [sub EXCEPT ![s].okRows = @ + 1] \in [Sub -> Row]
           /\ [sub EXCEPT ![s].failRows = @ + 1] \in [Sub -> Row]
           /\ [sub EXCEPT ![s].total = @ + 1, ![s].failures = @ + 1] \in [Sub -> Row]
           /\ \A b \in BOOLEAN, topics \in SUBSET Event :
                 [sub EXCEPT ![s].enabled = b, ![s].topics = topics] \in [Sub -> Row]
<1>1. sub \in [Sub -> Row] /\ sub[s] \in Row
  BY DEF TypeOK
<1>2. \A r \in Row : [sub EXCEPT ![s] = r] \in [Sub -> Row]
  BY <1>1
<1>4. \A b \in BOOLEAN, topics \in SUBSET Event :
         [sub EXCEPT ![s].enabled = b, ![s].topics = topics]
             = [sub EXCEPT ![s] = [@ EXCEPT !.enabled = b, !.topics = topics]]
  BY <1>1
<1>5. [sub EXCEPT ![s].total = @ + 1, ![s].failures = @ + 1] \in [Sub -> Row]
  <2> DEFINE counted == [sub EXCEPT ![s].total = @ + 1]
  <2>1. counted \in [Sub -> Row] /\ counted[s] \in Row
    BY <1>1, RowChanges
  <2>2. sub[s].failures + 1 \in Nat
    BY <1>1 DEF Row
  <2>3. [counted[s] EXCEPT !.failures = sub[s].failures + 1] \in Row
    BY <2>1, <2>2, RowChanges
  <2>4. [counted EXCEPT ![s].failures = sub[s].failures + 1] \in [Sub -> Row]
    BY <2>1, <2>3
  <2> QED
    BY <2>4
<1>6. \A b \in BOOLEAN, topics \in SUBSET Event :
         [sub EXCEPT ![s].enabled = b, ![s].topics = topics] \in [Sub -> Row]
  BY <1>1, <1>2, <1>4, RowChanges
<1> QED
  BY <1>1, <1>2, <1>5, <1>6, RowChanges

LEMMA AdminTypes ==
    ASSUME TypeOK, NEW s \in Sub, Create(s) \/ Update(s) \/ Delete(s)
    PROVE  TypeOK'
<1>1. CASE Create(s)
  <2>1. sub' \in [Sub -> Row]
    <3>1. PICK topics \in TopicLists, b \in BOOLEAN :
             sub' = [sub EXCEPT ![s] = [NoRow EXCEPT !.is = "live", !.enabled = b, !.topics = topics]]
      BY <1>1 DEF Create
    <3>2. [NoRow EXCEPT !.is = "live", !.enabled = b, !.topics = topics] \in Row
      BY WebhookAssumption DEF Row, NoRow
    <3> QED
      BY <3>1, <3>2 DEF TypeOK
  <2> QED
    BY <1>1, <2>1 DEF Create, TypeOK, histVars
<1>2. CASE Update(s)
  <2>1. sub' \in [Sub -> Row]
    <3>1. PICK topics \in TopicLists, b \in BOOLEAN :
             sub' = [sub EXCEPT ![s].enabled = b, ![s].topics = topics]
      BY <1>2 DEF Update
    <3>2. topics \in SUBSET Event
      BY WebhookAssumption
    <3> QED
      BY <3>1, <3>2, RowTyped
  <2>2. budget' \in [updates : Nat, retries : Nat, faults : Nat]
    BY <1>2, SpendTyped DEF Update
  <2> QED
    BY <1>2, <2>1, <2>2 DEF Update, TypeOK, histVars
<1>3. CASE Delete(s)
  <2>1. sub' \in [Sub -> Row]
    BY <1>3 DEF Delete, TypeOK, Row, NoRow
  <2> QED
    BY <1>3, <2>1 DEF Delete, TypeOK, histVars
<1> QED
  BY <1>1, <1>2, <1>3

LEMMA BusTypes ==
    ASSUME TypeOK, NEW p \in Proc, NEW e \in Event,
           Emit(p, e) \/ PublishLost(p, e) \/ FindFails(p, e)
    PROVE  TypeOK'
<1> USE DEF histVars
<1>1. CASE Emit(p, e)
  BY <1>1 DEF Emit, Dispatch, TypeOK
<1>2. CASE PublishLost(p, e)
  BY <1>2, SpendTyped DEF PublishLost, TypeOK
<1>3. CASE FindFails(p, e)
  BY <1>3, SpendTyped DEF FindFails, TypeOK
<1> QED
  BY <1>1, <1>2, <1>3

LEMMA ProcTypes == ASSUME TypeOK, NEW p \in Proc, BusStep(p) \/ Crash(p) PROVE TypeOK'
<1> USE DEF histVars
<1>4. ASSUME NEW d \in Event, Publish(p, d) PROVE TypeOK'
  BY <1>4 DEF Publish, TypeOK
<1>5. ASSUME NEW m \in inbox[p], Receive(p, m) PROVE TypeOK'
  <2>1. m \in Proc \X Event
    BY DEF TypeOK
  <2>2. inbox' \in [Proc -> SUBSET (Proc \X Event)]
    BY <1>5 DEF Receive, TypeOK
  <2>3. finding' \subseteq Proc \X Event /\ handled' \in [Proc \X Event -> Nat]
    <3>1. PICK q \in Proc, e0 \in Event : m = <<q, e0>>
      BY <2>1
    <3>2. CASE m[1] = p
      BY <1>5, <3>2 DEF Receive, TypeOK
    <3>3. CASE m[1] # p
      <4>1. Dispatch(p, e0)
        BY <1>5, <3>1, <3>3 DEF Receive
      <4> QED
        BY <4>1 DEF Dispatch, TypeOK
    <3> QED
      BY <3>2, <3>3
  <2> QED
    BY <1>5, <2>2, <2>3 DEF Receive, TypeOK
<1>6. ASSUME NEW d \in Event, Find(p, d) PROVE TypeOK'
  <2>1. job' \in [Slot -> Job]
    BY <1>6, WebhookAssumption DEF Find, TypeOK, Job, Stage
  <2>2. started' \in [Sub \X Event -> Nat]
    BY <1>6 DEF Find, Start, TypeOK
  <2> QED
    BY <1>6, <2>1, <2>2 DEF Find, TypeOK
<1>7. CASE Crash(p)
  <2>1. job' \in [Slot -> Job]
    <3>1. NoJob \in Job
      BY WebhookAssumption DEF Job, NoJob, Stage
    <3> QED
      BY <1>7, <3>1 DEF Crash, TypeOK
  <2>2. inbox' \in [Proc -> SUBSET (Proc \X Event)]
    BY <1>7 DEF Crash, TypeOK
  <2>3. excused' \in [Sub \X Event -> Nat]
    <3>1. \A se \in Sub \X Event :
             Cardinality({j \in Slot : /\ j[1] = p /\ <<j[3], j[2]>> = se
                                       /\ job[j].at = "record"}) \in Nat
      BY SlotFinite, Fewer
    <3> QED
      BY <1>7, <3>1 DEF Crash, TypeOK
  <2>4. budget' \in [updates : Nat, retries : Nat, faults : Nat]
    BY <1>7, SpendTyped DEF Crash
  <2>5. publishing' \subseteq Proc \X Event /\ finding' \subseteq Proc \X Event
    BY <1>7 DEF Crash, TypeOK
  <2> QED
    BY <1>7, <2>1, <2>2, <2>3, <2>4, <2>5 DEF Crash, TypeOK
<1> QED
  BY <1>4, <1>5, <1>6, <1>7 DEF BusStep

LEMMA DeliveryTypes ==
    ASSUME TypeOK, NEW j \in Slot, Delivery(j) \/ TimedOut(j) \/ Retry(j)
    PROVE  TypeOK'
<1> USE DEF histVars, At
<1>0. j[3] \in Sub /\ j[2] \in Event
  BY DEF Slot
<1>1. CASE Posted(j)
  BY <1>1, GotoTyped, CountersTyped DEF Posted, TypeOK, Stage
<1>2. CASE Refused(j)
  BY <1>2, NextAttemptTyped DEF Refused, TypeOK
<1>3. CASE Record(j)
  BY <1>0, <1>3, GotoTyped, RowTyped DEF Record, TypeOK, Stage
<1>4. CASE RecordThrows(j)
  <2>1. budget' \in [updates : Nat, retries : Nat, faults : Nat]
    BY <1>4, SpendTyped DEF RecordThrows, TypeOK
  <2> QED
    BY <1>4, <2>1, NextAttemptTyped, CountersTyped DEF RecordThrows, TypeOK
<1>5. CASE OkRow(j)
  <2>1. budget' \in [updates : Nat, retries : Nat, faults : Nat]
    BY <1>5, SpendTyped DEF OkRow, TypeOK
  <2>2. sub' \in [Sub -> Row]
    <3>1. [sub EXCEPT ![j[3]].okRows = @ + 1] \in [Sub -> Row]
      BY <1>0, RowTyped
    <3> QED
      BY <1>5, <3>1 DEF OkRow, TypeOK
  <2> QED
    BY <1>5, <2>1, <2>2, GotoTyped, CountersTyped DEF OkRow, TypeOK, Stage
<1>6. CASE RecordFail(j)
  BY <1>0, <1>6, GotoTyped, RowTyped DEF RecordFail, TypeOK, Stage
<1>7. CASE RecordFailThrows(j)
  <2>1. budget' \in [updates : Nat, retries : Nat, faults : Nat]
    BY <1>7, SpendTyped DEF RecordFailThrows, TypeOK
  <2> QED
    BY <1>7, <2>1, GotoTyped DEF RecordFailThrows, TypeOK, Stage
<1>8. CASE FailRow(j)
  <2>1. budget' \in [updates : Nat, retries : Nat, faults : Nat]
    BY <1>8, SpendTyped DEF FailRow, TypeOK
  <2>2. sub' \in [Sub -> Row]
    <3>1. [sub EXCEPT ![j[3]].failRows = @ + 1] \in [Sub -> Row]
      BY <1>0, RowTyped
    <3> QED
      BY <1>8, <3>1 DEF FailRow, TypeOK
  <2> QED
    BY <1>8, <2>1, <2>2, GotoTyped, CountersTyped DEF FailRow, TypeOK, Stage
<1>9. CASE TimedOut(j)
  BY <1>9, NextAttemptTyped, CountersTyped, SpendTyped DEF TimedOut, TypeOK
<1>10. CASE Retry(j)
  <2>1. job' \in [Slot -> Job]
    BY <1>10, WebhookAssumption DEF Retry, TypeOK, Job, Stage
  <2>2. started' \in [Sub \X Event -> Nat]
    BY <1>10 DEF Retry, Start, TypeOK
  <2> QED
    BY <1>10, <2>1, <2>2, SpendTyped DEF Retry, TypeOK
<1> QED
  BY <1>1, <1>2, <1>3, <1>4, <1>5, <1>6, <1>7, <1>8, <1>9, <1>10 DEF Delivery

LEMMA Types == ASSUME TypeOK, Next PROVE TypeOK'
<1>1. ASSUME NEW s \in Sub, Create(s) \/ Update(s) \/ Delete(s) PROVE TypeOK'
  BY <1>1, AdminTypes
<1>2. ASSUME NEW p \in Proc, NEW e \in Event, Emit(p, e) \/ PublishLost(p, e) \/ FindFails(p, e)
      PROVE TypeOK'
  BY <1>2, BusTypes
<1>3. ASSUME NEW p \in Proc, BusStep(p) \/ Crash(p) PROVE TypeOK'
  BY <1>3, ProcTypes
<1>4. ASSUME NEW j \in Slot, Delivery(j) \/ TimedOut(j) \/ Retry(j) PROVE TypeOK'
  BY <1>4, DeliveryTypes
<1> QED
  BY <1>1, <1>2, <1>3, <1>4 DEF Next

-----------------------------------------------------------------------------
(* Who can still hear of an event.                                         *)

busVars == <<emitted, publishing, inbox, handled>>

LEMMA EmitKeepsBus ==
    ASSUME TypeOK, BusInv, NEW p \in Proc, NEW e \in Event, Emit(p, e)
    PROVE  BusInv'
<1>1. /\ emitted' = emitted \cup {e} /\ publishing' = publishing \cup {<<p, e>>}
      /\ inbox' = inbox /\ handled' = [handled EXCEPT ![<<p, e>>] = @ + 1]
      /\ e \notin emitted
  BY DEF Emit, Dispatch
<1>2. \A q \in Proc : handled[<<q, e>>] = 0 /\ ~Sent(q, e)
  BY <1>1 DEF BusInv
<1>3. /\ handled'[<<p, e>>] = 1
      /\ \A q \in Proc, d \in Event : <<q, d>> # <<p, e>> => handled'[<<q, d>>] = handled[<<q, d>>]
  BY <1>1, <1>2 DEF TypeOK
<1>4. \A q \in Proc, d \in Event : Sent(q, d)' => Sent(q, d) \/ (q = p /\ d = e)
  BY <1>1 DEF Sent
<1>5. (\A q \in Proc, d \in Event : d \notin emitted => handled[<<q, d>>] = 0 /\ ~Sent(q, d))'
  BY <1>1, <1>3, <1>4 DEF BusInv
<1>6. (\A q, r \in Proc, d \in Event : Sent(q, d) /\ Sent(r, d) => q = r)'
  <2> SUFFICES ASSUME NEW q \in Proc, NEW r \in Proc, NEW d \in Event, Sent(q, d)', Sent(r, d)'
               PROVE  q = r
    OBVIOUS
  <2>1. CASE d = e
    BY <1>2, <1>4, <2>1
  <2>2. CASE d # e
    <3>1. Sent(q, d) /\ Sent(r, d)
      BY <1>4, <2>2
    <3> QED
      BY <3>1 DEF BusInv
  <2> QED
    BY <2>1, <2>2
<1>7. ASSUME NEW q \in Proc, NEW r \in Proc, NEW d \in Event, (<<q, d>> \in publishing)'
      PROVE  (<<q, d>> \notin inbox[r] /\ (r # q => handled[<<r, d>>] = 0))'
  <2>1. CASE q = p /\ d = e
    BY <1>1, <1>2, <1>3, <2>1 DEF Sent
  <2>2. CASE ~(q = p /\ d = e)
    <3>1. <<q, d>> \in publishing
      BY <1>1, <1>7, <2>2
    <3>2. <<q, d>> \notin inbox[r] /\ (r # q => handled[<<r, d>>] = 0)
      BY <3>1 DEF BusInv
    <3>3. d # e
      BY <1>2, <3>1 DEF Sent
    <3>4. handled'[<<r, d>>] = handled[<<r, d>>]
      BY <1>3, <3>3
    <3> QED
      BY <1>1, <3>2, <3>4
  <2> QED
    BY <2>1, <2>2
<1>8. ASSUME NEW q \in Proc, NEW r \in Proc, NEW d \in Event, (<<q, d>> \in inbox[r] /\ r # q)'
      PROVE  (handled[<<r, d>>] = 0)'
  <2>1. <<q, d>> \in inbox[r] /\ r # q
    BY <1>1, <1>8
  <2>2. handled[<<r, d>>] = 0
    BY <2>1 DEF BusInv
  <2>3. d # e
    BY <1>2, <2>1 DEF Sent
  <2>4. handled'[<<r, d>>] = handled[<<r, d>>]
    BY <1>3, <2>3
  <2> QED
    BY <2>2, <2>4
<1>9. (\A q \in Proc, d \in Event : handled[<<q, d>>] <= 1)'
  <2> SUFFICES ASSUME NEW q \in Proc, NEW d \in Event PROVE handled'[<<q, d>>] <= 1
    OBVIOUS
  <2>1. handled[<<q, d>>] <= 1
    BY DEF BusInv
  <2>2. CASE <<q, d>> = <<p, e>>
    <3>1. handled'[<<q, d>>] = 1
      BY <1>3, <2>2
    <3> QED
      BY <3>1
  <2> QED
    BY <1>3, <2>1, <2>2
<1>10. (\A q, r \in Proc, d \in Event :
           <<q, d>> \in publishing =>
               <<q, d>> \notin inbox[r] /\ (r # q => handled[<<r, d>>] = 0))'
  BY <1>7
<1>11. (\A q, r \in Proc, d \in Event : <<q, d>> \in inbox[r] /\ r # q => handled[<<r, d>>] = 0)'
  BY <1>8
<1> QED
  BY <1>5, <1>6, <1>9, <1>10, <1>11 DEF BusInv

LEMMA PublishKeepsBus ==
    ASSUME TypeOK, BusInv, NEW p \in Proc, NEW e \in Event,
           Publish(p, e) \/ PublishLost(p, e)
    PROVE  BusInv'
<1>1. /\ <<p, e>> \in publishing /\ publishing' = publishing \ {<<p, e>>}
      /\ emitted' = emitted /\ handled' = handled
  BY DEF Publish, PublishLost, histVars
<1>2. \A q \in Proc : inbox'[q] \subseteq inbox[q] \cup {<<p, e>>}
  BY DEF Publish, PublishLost
<1>3. e \in emitted /\ \A q \in Proc : <<p, e>> \notin inbox[q] /\ (q # p => handled[<<q, e>>] = 0)
  BY <1>1 DEF BusInv, Sent
<1>4. \A q \in Proc, d \in Event : Sent(q, d)' => Sent(q, d)
  BY <1>1, <1>2 DEF Sent
<1> QED
  BY <1>1, <1>2, <1>3, <1>4 DEF BusInv

LEMMA ReceiveKeepsBus ==
    ASSUME TypeOK, BusInv, NEW p \in Proc, NEW m \in inbox[p], Receive(p, m)
    PROVE  BusInv'
<1>1. PICK q \in Proc, e \in Event : m = <<q, e>>
  BY DEF TypeOK
<1>2. /\ publishing' = publishing /\ emitted' = emitted
      /\ inbox' = [inbox EXCEPT ![p] = @ \ {<<q, e>>}]
  BY <1>1 DEF Receive
<1>3. \A x \in Proc : inbox'[x] \subseteq inbox[x]
  BY <1>2 DEF TypeOK
<1>4. <<q, e>> \notin inbox'[p]
  BY <1>2 DEF TypeOK
<1>5. Sent(q, e)
  BY <1>1 DEF Sent
<1>6. \A x \in Proc, d \in Event : Sent(x, d)' => Sent(x, d)
  BY <1>2, <1>3 DEF Sent
<1>7. CASE q = p
  <2>1. handled' = handled
    BY <1>1, <1>7 DEF Receive
  <2> QED
    BY <1>2, <1>3, <1>6, <2>1 DEF BusInv
<1>8. CASE q # p
  <2>1. handled' = [handled EXCEPT ![<<p, e>>] = @ + 1]
    BY <1>1, <1>8 DEF Receive, Dispatch
  <2>2. handled[<<p, e>>] = 0 /\ e \in emitted
    BY <1>1, <1>5, <1>8 DEF BusInv
  <2>3. /\ handled'[<<p, e>>] = 1
        /\ \A x \in Proc, d \in Event :
              <<x, d>> # <<p, e>> => handled'[<<x, d>>] = handled[<<x, d>>]
    BY <2>1, <2>2 DEF TypeOK
  <2>4. \A x \in Proc : <<x, e>> \notin publishing
    BY <1>1, <1>5 DEF BusInv, Sent
  <2>5. \A x \in Proc : x # q => <<x, e>> \notin inbox'[p]
    BY <1>3, <1>5 DEF BusInv, Sent
  <2> QED
    BY <1>2, <1>3, <1>4, <1>6, <2>2, <2>3, <2>4, <2>5 DEF BusInv
<1> QED
  BY <1>7, <1>8

LEMMA CrashKeepsBus ==
    ASSUME TypeOK, BusInv, NEW p \in Proc, Crash(p)
    PROVE  BusInv'
<1>1. /\ publishing' \subseteq publishing /\ emitted' = emitted /\ handled' = handled
      /\ \A q \in Proc : inbox'[q] \subseteq inbox[q]
  BY DEF Crash, TypeOK
<1>2. \A q \in Proc, e \in Event : Sent(q, e)' => Sent(q, e)
  BY <1>1 DEF Sent
<1> QED
  BY <1>1, <1>2 DEF BusInv

LEMMA UnchangedBus ==
    ASSUME BusInv, UNCHANGED busVars
    PROVE  BusInv'
  BY DEF BusInv, Sent, busVars

LEMMA BusKept == ASSUME TypeOK, BusInv, Next PROVE BusInv'
<1> USE DEF busVars, histVars
<1>1. ASSUME NEW s \in Sub, Create(s) \/ Update(s) \/ Delete(s) PROVE BusInv'
  <2>1. UNCHANGED busVars
    BY <1>1 DEF Create, Update, Delete
  <2> QED
    BY <2>1, UnchangedBus
<1>2. ASSUME NEW p \in Proc, NEW e \in Event, Emit(p, e) \/ PublishLost(p, e) \/ FindFails(p, e)
      PROVE BusInv'
  <2>1. CASE FindFails(p, e)
    BY <2>1, UnchangedBus DEF FindFails
  <2> QED
    BY <1>2, <2>1, EmitKeepsBus, PublishKeepsBus
<1>3. ASSUME NEW p \in Proc, BusStep(p) \/ Crash(p) PROVE BusInv'
  <2>1. ASSUME NEW e \in Event, Find(p, e) PROVE BusInv'
    BY <2>1, UnchangedBus DEF Find
  <2> QED
    BY <1>3, <2>1, PublishKeepsBus, ReceiveKeepsBus, CrashKeepsBus DEF BusStep
<1>4. ASSUME NEW j \in Slot, Delivery(j) \/ TimedOut(j) \/ Retry(j) PROVE BusInv'
  <2>1. UNCHANGED busVars
    BY <1>4 DEF Delivery, TimedOut, Retry, Posted, Refused, Record, RecordThrows, OkRow,
                RecordFail, RecordFailThrows, FailRow
  <2> QED
    BY <2>1, UnchangedBus
<1> QED
  BY <1>1, <1>2, <1>3, <1>4 DEF Next

-----------------------------------------------------------------------------
(* One delivery moves: the sets of deliveries at a stage gain or lose it.  *)

Moves(j, L) == \E r \in Job : r.at \in L /\ job' = [job EXCEPT ![j] = r]

LEMMA Moved ==
    ASSUME TypeOK, NEW j \in Slot, NEW L, Moves(j, L)
    PROVE  /\ job'[j].at \in L
           /\ \A i \in Slot : i # j => job'[i] = job[i]
           /\ \A s, l : JobsOf(s, l)' \subseteq JobsOf(s, l) \cup {j}
           /\ \A s, l : l \notin L => JobsOf(s, l)' \subseteq JobsOf(s, l) \ {j}
           /\ \A s, l : j[3] # s => JobsOf(s, l)' \subseteq JobsOf(s, l)
           /\ \A s, e : Posting(s, e)' \subseteq Posting(s, e) \cup {j}
           /\ \A s, e : "post" \notin L => Posting(s, e)' \subseteq Posting(s, e) \ {j}
           /\ \A s, e : <<j[3], j[2]>> # <<s, e>> => Posting(s, e)' \subseteq Posting(s, e)
<1>1. job'[j].at \in L /\ \A i \in Slot : i # j => job'[i] = job[i]
  BY DEF Moves, TypeOK
<1>2. \A s, l : JobsOf(s, l)' = {i \in Slot : i[3] = s /\ job'[i].at = l}
  BY DEF JobsOf, Slot
<1>3. \A s, e : Posting(s, e)' = {i \in Slot : i[3] = s /\ i[2] = e /\ job'[i].at = "post"}
  BY DEF Posting, Slot
<1>4. \A s, l : /\ JobsOf(s, l)' \subseteq JobsOf(s, l) \cup {j}
                /\ l \notin L => JobsOf(s, l)' \subseteq JobsOf(s, l) \ {j}
                /\ j[3] # s => JobsOf(s, l)' \subseteq JobsOf(s, l)
  BY <1>1, <1>2 DEF JobsOf
<1>5. \A s, e : /\ Posting(s, e)' \subseteq Posting(s, e) \cup {j}
                /\ "post" \notin L => Posting(s, e)' \subseteq Posting(s, e) \ {j}
                /\ <<j[3], j[2]>> # <<s, e>> => Posting(s, e)' \subseteq Posting(s, e)
  BY <1>1, <1>3 DEF Posting
<1> QED
  BY <1>1, <1>4, <1>5

LEMMA GotoMoves == ASSUME TypeOK, NEW j \in Slot, NEW l \in Stage, Goto(j, l) PROVE Moves(j, {l})
<1>1. [job[j] EXCEPT !.at = l] \in Job /\ [job[j] EXCEPT !.at = l].at = l
  BY DEF TypeOK, Job
<1> QED
  BY <1>1 DEF Goto, Moves

LEMMA AttemptMoves ==
    ASSUME TypeOK, NEW j \in Slot, NextAttempt(j)
    PROVE  Moves(j, {"post", "recordFail"})
<1>1. CASE job[j].attempt < MaxAttempts
  <2> DEFINE r == [at |-> "post", attempt |-> job[j].attempt + 1]
  <2>1. r \in Job
    BY <1>1, WebhookAssumption DEF TypeOK, Job, Stage
  <2> QED
    BY <1>1, <2>1 DEF NextAttempt, Moves
<1>2. CASE ~(job[j].attempt < MaxAttempts)
  <2> DEFINE r == [job[j] EXCEPT !.at = "recordFail"]
  <2>1. r \in Job /\ r.at = "recordFail"
    BY DEF TypeOK, Job, Stage
  <2> QED
    BY <1>2, <2>1 DEF NextAttempt, Moves
<1> QED
  BY <1>1, <1>2

LEMMA RetryMoves == ASSUME TypeOK, NEW j \in Slot, Retry(j) PROVE Moves(j, {"post"})
<1>1. [at |-> "post", attempt |-> 1] \in Job
  BY WebhookAssumption DEF Job, Stage
<1> QED
  BY <1>1 DEF Retry, Moves

(* Find starts one delivery for each subscription that matches; a crash    *)
(* ends those of its process.                                              *)
LEMMA FindJobs ==
    ASSUME TypeOK, NEW p \in Proc, NEW e \in Event, Find(p, e)
    PROVE  /\ \A i \in Slot : job'[i] = job[i] \/ (job'[i].at = "post" /\ Wanted(i[3], e))
           /\ \A s \in Sub : \A l : l # "post" => JobsOf(s, l)' \subseteq JobsOf(s, l)
           /\ \A s \in Sub : Posting(s, e)' \subseteq Posting(s, e) \cup {<<p, e, s, "bus">>}
           /\ \A s \in Sub : ~Wanted(s, e) => Posting(s, e)' \subseteq Posting(s, e)
           /\ \A s \in Sub, d \in Event : d # e => Posting(s, d)' \subseteq Posting(s, d)
<1>1. \A i \in Slot : \/ job'[i] = job[i]
                      \/ /\ i[1] = p /\ i[2] = e /\ i[4] = "bus"
                         /\ Wanted(i[3], e) /\ job'[i].at = "post"
  BY DEF Find
<1>2. \A s, l : JobsOf(s, l)' = {i \in Slot : i[3] = s /\ job'[i].at = l}
  BY DEF JobsOf, Slot
<1>3. \A s, d : Posting(s, d)' = {i \in Slot : i[3] = s /\ i[2] = d /\ job'[i].at = "post"}
  BY DEF Posting, Slot
<1>4. \A i \in Slot : i[1] = p /\ i[2] = e /\ i[4] = "bus" => i = <<p, e, i[3], "bus">>
  BY DEF Slot
<1>5. \A s \in Sub : \A l : l # "post" => JobsOf(s, l)' \subseteq JobsOf(s, l)
  BY <1>1, <1>2 DEF JobsOf
<1>6. \A s \in Sub : Posting(s, e)' \subseteq Posting(s, e) \cup {<<p, e, s, "bus">>}
  BY <1>1, <1>3, <1>4 DEF Posting
<1>7. \A s \in Sub : ~Wanted(s, e) => Posting(s, e)' \subseteq Posting(s, e)
  BY <1>1, <1>3 DEF Posting
<1>8. \A s \in Sub, d \in Event : d # e => Posting(s, d)' \subseteq Posting(s, d)
  BY <1>1, <1>3 DEF Posting
<1> QED
  BY <1>1, <1>5, <1>6, <1>7, <1>8

LEMMA CrashJobs ==
    ASSUME TypeOK, NEW p \in Proc, Crash(p)
    PROVE  /\ \A i \in Slot : job'[i] = job[i] \/ job'[i].at = "idle"
           /\ \A s, l : l # "idle" => JobsOf(s, l)' \subseteq JobsOf(s, l)
           /\ \A s, e : Posting(s, e)' \subseteq Posting(s, e)
<1>1. \A i \in Slot : job'[i] = job[i] \/ job'[i].at = "idle"
  BY DEF Crash, NoJob
<1>2. \A s, l : JobsOf(s, l)' = {i \in Slot : i[3] = s /\ job'[i].at = l}
  BY DEF JobsOf, Slot
<1>3. \A s, e : Posting(s, e)' = {i \in Slot : i[3] = s /\ i[2] = e /\ job'[i].at = "post"}
  BY DEF Posting, Slot
<1>4. \A s, l : l # "idle" => JobsOf(s, l)' \subseteq JobsOf(s, l)
  BY <1>1, <1>2 DEF JobsOf
<1>5. \A s, e : Posting(s, e)' \subseteq Posting(s, e)
  BY <1>1, <1>3 DEF Posting
<1> QED
  BY <1>1, <1>4, <1>5

(* A step that leaves the deliveries alone leaves the counts alone.        *)
LEMMA JobsUnchanged ==
    ASSUME UNCHANGED job
    PROVE  /\ \A s, l : JobsOf(s, l)' = JobsOf(s, l)
           /\ \A s, e : Posting(s, e)' = Posting(s, e)
  BY DEF JobsOf, Posting, Slot

-----------------------------------------------------------------------------
(* The accounts of acceptances.                                            *)

LEMMA Natural ==
    ASSUME TypeOK, NEW s \in Sub, NEW e \in Event
    PROVE  /\ accepted[<<s, e>>] \in Nat /\ started[<<s, e>>] \in Nat
           /\ excused[<<s, e>>] \in Nat
  BY DEF TypeOK

LEMMA QuietAccount ==
    ASSUME TypeOK, NEW s \in Sub, NEW e \in Event, Account(s, e),
           UNCHANGED <<accepted, started, excused>>,
           Posting(s, e)' \subseteq Posting(s, e)
    PROVE  Account(s, e)'
<1>1. Cardinality(Posting(s, e)') <= Cardinality(Posting(s, e))
  BY Counted, Fewer
<1> QED
  BY <1>1, Natural, Counted, CountedNext DEF Account

(* Another event, or another subscription, than the one of the delivery.   *)
LEMMA OtherAccount ==
    ASSUME TypeOK, NEW s \in Sub, NEW e \in Event, Account(s, e),
           NEW j \in Slot, <<j[3], j[2]>> # <<s, e>>,
           \E L : Moves(j, L),
           accepted' = accepted \/ Accept(j),
           excused' = excused \/ Excuse(j),
           started' = started \/ Start({j[3]}, j[2])
    PROVE  Account(s, e)'
<1>1. Posting(s, e)' \subseteq Posting(s, e)
  BY Moved
<1>2. accepted'[<<s, e>>] = accepted[<<s, e>>]
  BY DEF Accept, TypeOK
<1>3. excused'[<<s, e>>] = excused[<<s, e>>]
  BY DEF Excuse, TypeOK
<1>4. started'[<<s, e>>] = started[<<s, e>>]
  <2>1. <<s, e>>[1] = s /\ <<s, e>>[2] = e
    OBVIOUS
  <2> QED
    BY <2>1 DEF Start, TypeOK
<1>5. Cardinality(Posting(s, e)') <= Cardinality(Posting(s, e))
  BY <1>1, Counted, Fewer
<1> QED
  BY <1>2, <1>3, <1>4, <1>5, Natural, Counted, CountedNext DEF Account

LEMMA DeliveryAccount ==
    ASSUME TypeOK, Accounts, NEW j \in Slot, Delivery(j) \/ TimedOut(j) \/ Retry(j)
    PROVE  Accounts'
<1> SUFFICES ASSUME NEW s \in Sub, NEW e \in Event PROVE Account(s, e)'
  BY DEF Accounts
<1> USE DEF histVars, At
<1>0. Account(s, e)
  BY DEF Accounts
<1>1. CASE Posted(j)
  <2>1. Moves(j, {"record"}) /\ Accept(j) /\ UNCHANGED <<started, excused>>
    BY <1>1, GotoMoves DEF Posted, Stage
  <2>2. CASE <<j[3], j[2]>> # <<s, e>>
    BY <1>0, <2>1, <2>2, OtherAccount
  <2>3. CASE <<j[3], j[2]>> = <<s, e>>
    <3>1. j \in Posting(s, e)
      BY <1>1, <2>3 DEF Posted, Posting
    <3>2. Posting(s, e)' \subseteq Posting(s, e) \ {j}
      BY <2>1, Moved
    <3>3. Cardinality(Posting(s, e)') <= Cardinality(Posting(s, e)) - 1
      BY <3>1, <3>2, Counted, OneLess
    <3>4. accepted'[<<s, e>>] = accepted[<<s, e>>] + 1
      BY <2>1, <2>3 DEF Accept, TypeOK
    <3> QED
      BY <1>0, <2>1, <3>3, <3>4, Natural, Counted, CountedNext DEF Account
  <2> QED
    BY <2>2, <2>3
<1>2. CASE Refused(j)
  <2>1. Moves(j, {"post", "recordFail"})
    BY <1>2, AttemptMoves DEF Refused
  <2>2. Posting(s, e)' \subseteq Posting(s, e)
    <3>1. CASE <<j[3], j[2]>> = <<s, e>>
      <4>1. j \in Posting(s, e)
        BY <1>2, <3>1 DEF Refused, Posting
      <4> QED
        BY <2>1, <4>1, Moved
    <3> QED
      BY <2>1, <3>1, Moved
  <2> QED
    BY <1>0, <1>2, <2>2, QuietAccount DEF Refused
<1>3. CASE TimedOut(j)
  <2>1. Moves(j, {"post", "recordFail"}) /\ Accept(j) /\ Excuse(j) /\ UNCHANGED started
    BY <1>3, AttemptMoves DEF TimedOut
  <2>2. CASE <<j[3], j[2]>> # <<s, e>>
    BY <1>0, <2>1, <2>2, OtherAccount
  <2>3. CASE <<j[3], j[2]>> = <<s, e>>
    <3>1. j \in Posting(s, e)
      BY <1>3, <2>3 DEF TimedOut, Posting
    <3>2. Posting(s, e)' \subseteq Posting(s, e)
      BY <2>1, <3>1, Moved
    <3>3. Cardinality(Posting(s, e)') <= Cardinality(Posting(s, e))
      BY <3>2, Counted, Fewer
    <3>4. accepted'[<<s, e>>] = accepted[<<s, e>>] + 1
      BY <2>1, <2>3 DEF Accept, TypeOK
    <3>5. excused'[<<s, e>>] = excused[<<s, e>>] + 1
      BY <2>1, <2>3 DEF Excuse, TypeOK
    <3> QED
      BY <1>0, <2>1, <3>3, <3>4, <3>5, Natural, Counted, CountedNext DEF Account
  <2> QED
    BY <2>2, <2>3
<1>4. CASE RecordThrows(j)
  <2>1. Moves(j, {"post", "recordFail"}) /\ Excuse(j) /\ UNCHANGED <<accepted, started>>
    BY <1>4, AttemptMoves DEF RecordThrows
  <2>2. CASE <<j[3], j[2]>> # <<s, e>>
    BY <1>0, <2>1, <2>2, OtherAccount
  <2>3. CASE <<j[3], j[2]>> = <<s, e>>
    <3>1. Cardinality(Posting(s, e)') <= Cardinality(Posting(s, e)) + 1
      BY <2>1, Moved, Counted, OneMore
    <3>2. excused'[<<s, e>>] = excused[<<s, e>>] + 1
      BY <2>1, <2>3 DEF Excuse, TypeOK
    <3> QED
      BY <1>0, <2>1, <3>1, <3>2, Natural, Counted, CountedNext DEF Account
  <2> QED
    BY <2>2, <2>3
<1>5. CASE Retry(j)
  <2>1. Moves(j, {"post"}) /\ Start({j[3]}, j[2]) /\ UNCHANGED <<accepted, excused>>
    BY <1>5, RetryMoves DEF Retry
  <2>2. CASE <<j[3], j[2]>> # <<s, e>>
    BY <1>0, <2>1, <2>2, OtherAccount
  <2>3. CASE <<j[3], j[2]>> = <<s, e>>
    <3>1. Cardinality(Posting(s, e)') <= Cardinality(Posting(s, e)) + 1
      BY <2>1, Moved, Counted, OneMore
    <3>2. <<s, e>>[1] = j[3] /\ <<s, e>>[2] = j[2]
      BY <2>3
    <3>3. started'[<<s, e>>] = started[<<s, e>>] + 1
      BY <2>1, <3>2 DEF Start, TypeOK
    <3> QED
      BY <1>0, <2>1, <3>1, <3>3, Natural, Counted, CountedNext DEF Account
  <2> QED
    BY <2>2, <2>3
<1>6. CASE Record(j) \/ OkRow(j) \/ RecordFail(j) \/ RecordFailThrows(j) \/ FailRow(j)
  <2>1. PICK l \in {"okRow", "idle", "failRow"} : Goto(j, l)
    BY <1>6 DEF Record, OkRow, RecordFail, RecordFailThrows, FailRow
  <2>2. Moves(j, {l})
    BY <2>1, GotoMoves DEF Stage
  <2>3. "post" \notin {l}
    BY <2>1
  <2>4. Posting(s, e)' \subseteq Posting(s, e)
    BY <2>2, <2>3, Moved
  <2>5. UNCHANGED <<accepted, started, excused>>
    BY <1>6 DEF Record, OkRow, RecordFail, RecordFailThrows, FailRow
  <2> QED
    BY <1>0, <2>4, <2>5, QuietAccount
<1> QED
  BY <1>1, <1>2, <1>3, <1>4, <1>5, <1>6 DEF Delivery

LEMMA AccountsKept == ASSUME TypeOK, TypeOK', Accounts, Next PROVE Accounts'
<1>1. ASSUME NEW j \in Slot, Delivery(j) \/ TimedOut(j) \/ Retry(j) PROVE Accounts'
  BY <1>1, DeliveryAccount
<1> SUFFICES ASSUME NEW s \in Sub, NEW e \in Event,
                    ~ \E j \in Slot : Delivery(j) \/ TimedOut(j) \/ Retry(j)
             PROVE  Account(s, e)'
  BY <1>1 DEF Accounts
<1> USE DEF histVars
<1>2. Account(s, e)
  BY DEF Accounts
<1>3. ASSUME UNCHANGED <<accepted, started, excused, job>> PROVE Account(s, e)'
  BY <1>2, <1>3, JobsUnchanged, QuietAccount
<1>4. ASSUME NEW t \in Sub, Create(t) \/ Update(t) \/ Delete(t) PROVE Account(s, e)'
  BY <1>3, <1>4 DEF Create, Update, Delete
<1>5. ASSUME NEW p \in Proc, NEW d \in Event, Emit(p, d) \/ PublishLost(p, d) \/ FindFails(p, d)
      PROVE Account(s, e)'
  BY <1>3, <1>5 DEF Emit, PublishLost, FindFails
<1>6. ASSUME NEW p \in Proc, NEW d \in Event, Find(p, d) PROVE Account(s, e)'
  <2>1. UNCHANGED <<accepted, excused>>
    BY <1>6 DEF Find
  <2>2. <<s, e>>[1] = s /\ <<s, e>>[2] = e
    OBVIOUS
  <2>3. started'[<<s, e>>] = IF Wanted(s, d) /\ e = d THEN started[<<s, e>>] + 1
                             ELSE started[<<s, e>>]
    BY <1>6, <2>2 DEF Find, Start, TypeOK
  <2>4. CASE Wanted(s, d) /\ e = d
    <3>1. Cardinality(Posting(s, e)') <= Cardinality(Posting(s, e)) + 1
      BY <1>6, <2>4, FindJobs, Counted, OneMore
    <3> QED
      BY <1>2, <2>1, <2>3, <2>4, <3>1, Natural, Counted, CountedNext DEF Account
  <2>5. CASE ~(Wanted(s, d) /\ e = d)
    <3>1. Posting(s, e)' \subseteq Posting(s, e)
      BY <1>6, <2>5, FindJobs
    <3>2. Cardinality(Posting(s, e)') <= Cardinality(Posting(s, e))
      BY <3>1, Counted, Fewer
    <3> QED
      BY <1>2, <2>1, <2>3, <2>5, <3>2, Natural, Counted, CountedNext DEF Account
  <2> QED
    BY <2>4, <2>5
<1>7. ASSUME NEW p \in Proc, Crash(p) PROVE Account(s, e)'
  <2>1. UNCHANGED <<accepted, started>>
    BY <1>7 DEF Crash
  <2>2. Cardinality(Posting(s, e)') <= Cardinality(Posting(s, e))
    BY <1>7, CrashJobs, Counted, Fewer
  <2>3. excused'[<<s, e>>] >= excused[<<s, e>>]
    <3> DEFINE lost == {j \in Slot : /\ j[1] = p /\ <<j[3], j[2]>> = <<s, e>>
                                     /\ job[j].at = "record"}
    <3>1. excused'[<<s, e>>] = excused[<<s, e>>] + Cardinality(lost)
      BY <1>7 DEF Crash
    <3>2. Cardinality(lost) \in Nat
      BY SlotFinite, Fewer
    <3> QED
      BY <3>1, <3>2, Natural
  <2>4. accepted'[<<s, e>>] \in Nat /\ started'[<<s, e>>] \in Nat /\ excused'[<<s, e>>] \in Nat
    BY DEF TypeOK
  <2> QED
    BY <1>2, <2>1, <2>2, <2>3, <2>4, Natural, Counted, CountedNext DEF Account
<1>8. ASSUME NEW p \in Proc, NEW d \in Event, Publish(p, d) PROVE Account(s, e)'
  BY <1>3, <1>8 DEF Publish
<1>9. ASSUME NEW p \in Proc, NEW m \in inbox[p], Receive(p, m) PROVE Account(s, e)'
  BY <1>3, <1>9 DEF Receive
<1> QED
  BY <1>4, <1>5, <1>6, <1>7, <1>8, <1>9 DEF Next, BusStep

-----------------------------------------------------------------------------
(* The ledgers of subscriptions.                                           *)

LEMMA RowNatural ==
    ASSUME TypeOK, NEW s \in Sub
    PROVE  /\ sub[s].total \in Nat /\ sub[s].failures \in Nat
           /\ sub[s].okRows \in Nat /\ sub[s].failRows \in Nat
  BY DEF TypeOK, Row

SameLedger(s) ==
    /\ sub'[s].is = sub[s].is
    /\ sub'[s].total = sub[s].total /\ sub'[s].failures = sub[s].failures
    /\ sub'[s].okRows = sub[s].okRows /\ sub'[s].failRows = sub[s].failRows

(* Deliveries move, none of them to a stage that writes a row.             *)
LEMMA QuietLedger ==
    ASSUME TypeOK, NEW s \in Sub, Ledger(s), SameLedger(s),
           JobsOf(s, "okRow")' \subseteq JobsOf(s, "okRow"),
           JobsOf(s, "failRow")' \subseteq JobsOf(s, "failRow"),
           sub[s].is = "absent" =>
               \A j \in Slot : j[3] = s => job'[j] = job[j] \/ job'[j].at = "idle"
    PROVE  Ledger(s)'
<1>1. Cardinality(JobsOf(s, "okRow")') <= Cardinality(JobsOf(s, "okRow"))
  BY Counted, Fewer
<1>2. Cardinality(JobsOf(s, "failRow")') <= Cardinality(JobsOf(s, "failRow"))
  BY Counted, Fewer
<1>3. (sub[s].is = "absent" => \A j \in Slot : j[3] = s => job[j].at = "idle")'
  BY DEF Ledger, SameLedger, Slot
<1>4. (sub[s].is # "live" =>
          sub[s].total = 0 /\ sub[s].failures = 0 /\ sub[s].okRows = 0 /\ sub[s].failRows = 0)'
  BY DEF Ledger, SameLedger
<1>5. (sub[s].is = "live" =>
          /\ sub[s].okRows + Cardinality(JobsOf(s, "okRow")) <= sub[s].total - sub[s].failures
          /\ sub[s].failRows + Cardinality(JobsOf(s, "failRow")) <= sub[s].failures)'
  BY <1>1, <1>2, RowNatural, Counted, CountedNext DEF Ledger, SameLedger
<1> QED
  BY <1>3, <1>4, <1>5 DEF Ledger

LEMMA AdminLedger ==
    ASSUME TypeOK, NEW t \in Sub, Create(t) \/ Update(t) \/ Delete(t),
           NEW s \in Sub, Ledger(s)
    PROVE  Ledger(s)'
<1>0. UNCHANGED job
  BY DEF Create, Update, Delete
<1>1. CASE sub'[s] = sub[s] \/ Update(t)
  <2>1. SameLedger(s)
    <3>1. CASE Update(t)
      <4>1. PICK topics \in TopicLists, b \in BOOLEAN :
               sub' = [sub EXCEPT ![t].enabled = b, ![t].topics = topics]
        BY <3>1 DEF Update
      <4> QED
        BY <4>1 DEF SameLedger, TypeOK, Row
    <3> QED
      BY <1>1, <3>1 DEF SameLedger
  <2> QED
    BY <1>0, <2>1, JobsUnchanged, QuietLedger
<1>2. CASE s = t /\ Create(t)
  <2>1. \A j \in Slot : j[3] = s => job[j].at = "idle"
    BY <1>2 DEF Create, Ledger
  <2>2. JobsOf(s, "okRow")' = {} /\ JobsOf(s, "failRow")' = {}
    BY <1>0, <2>1, JobsUnchanged DEF JobsOf
  <2>3. Cardinality(JobsOf(s, "okRow")') = 0 /\ Cardinality(JobsOf(s, "failRow")') = 0
    BY <2>2, FS_EmptySet
  <2>4. /\ sub'[s].is = "live" /\ sub'[s].total = 0 /\ sub'[s].failures = 0
        /\ sub'[s].okRows = 0 /\ sub'[s].failRows = 0
    <3>1. PICK topics \in TopicLists, b \in BOOLEAN :
             sub' = [sub EXCEPT ![t] = [NoRow EXCEPT !.is = "live", !.enabled = b, !.topics = topics]]
      BY <1>2 DEF Create
    <3>2. sub'[s] = [NoRow EXCEPT !.is = "live", !.enabled = b, !.topics = topics]
      BY <1>2, <3>1 DEF TypeOK
    <3> QED
      BY <3>2 DEF NoRow
  <2> QED
    BY <2>3, <2>4 DEF Ledger
<1>3. CASE s = t /\ Delete(t)
  <2>1. /\ sub'[s].is = "deleted" /\ sub'[s].total = 0 /\ sub'[s].failures = 0
        /\ sub'[s].okRows = 0 /\ sub'[s].failRows = 0
    BY <1>3 DEF Delete, NoRow, TypeOK
  <2> QED
    BY <2>1 DEF Ledger
<1>4. CASE s # t
  <2>1. sub'[s] = sub[s]
    BY <1>4 DEF Create, Update, Delete, TypeOK
  <2> QED
    BY <1>1, <2>1
<1> QED
  BY <1>1, <1>2, <1>3, <1>4

(* Only a delivery of a subscription that exists moves.                    *)
LEMMA NotAbsent ==
    ASSUME TypeOK, \A s \in Sub : Ledger(s), NEW j \in Slot,
           Delivery(j) \/ TimedOut(j) \/ Retry(j)
    PROVE  j[3] \in Sub /\ sub[j[3]].is # "absent"
<1>1. j[3] \in Sub
  BY DEF Slot
<1>2. job[j].at # "idle" \/ Live(j[3])
  BY DEF Delivery, TimedOut, Retry, Posted, Refused, Record, RecordThrows, OkRow,
         RecordFail, RecordFailThrows, FailRow, At
<1> QED
  BY <1>1, <1>2 DEF Ledger, Live

LEMMA DeliveryLedger ==
    ASSUME TypeOK, \A s \in Sub : Ledger(s), NEW j \in Slot,
           Delivery(j) \/ TimedOut(j) \/ Retry(j), NEW s \in Sub
    PROVE  Ledger(s)'
<1> USE DEF histVars, At
<1>0. /\ Ledger(s) /\ j[3] \in Sub /\ sub[j[3]].is # "absent"
      /\ sub[s] \in Row /\ sub[j[3]] \in Row
  BY NotAbsent DEF TypeOK
<1>1. ASSUME SameLedger(s), NEW L, Moves(j, L), "okRow" \notin L, "failRow" \notin L
      PROVE  Ledger(s)'
  <2>1. /\ JobsOf(s, "okRow")' \subseteq JobsOf(s, "okRow")
        /\ JobsOf(s, "failRow")' \subseteq JobsOf(s, "failRow")
    BY <1>1, Moved
  <2>2. sub[s].is = "absent" => \A i \in Slot : i[3] = s => job'[i] = job[i]
    BY <1>0, <1>1, Moved
  <2> QED
    BY <1>0, <1>1, <2>1, <2>2, QuietLedger
<1>2. CASE Posted(j) \/ Refused(j) \/ TimedOut(j) \/ RecordThrows(j) \/ RecordFailThrows(j) \/ Retry(j)
  <2>1. SameLedger(s)
    BY <1>2 DEF Posted, Refused, TimedOut, RecordThrows, RecordFailThrows, Retry, SameLedger
  <2>2. \E L : Moves(j, L) /\ "okRow" \notin L /\ "failRow" \notin L
    <3>1. CASE Posted(j)
      BY <3>1, GotoMoves DEF Posted, Stage
    <3>2. CASE Refused(j) \/ TimedOut(j) \/ RecordThrows(j)
      BY <3>2, AttemptMoves DEF Refused, TimedOut, RecordThrows
    <3>3. CASE RecordFailThrows(j)
      BY <3>3, GotoMoves DEF RecordFailThrows, Stage
    <3>4. CASE Retry(j)
      BY <3>4, RetryMoves
    <3> QED
      BY <1>2, <3>1, <3>2, <3>3, <3>4
  <2> QED
    BY <1>1, <2>1, <2>2
<1>3. ASSUME j[3] # s, sub'[s] = sub[s], NEW l \in Stage, Goto(j, l)
      PROVE  Ledger(s)'
  <2>1. Moves(j, {l})
    BY <1>3, GotoMoves
  <2>2. /\ JobsOf(s, "okRow")' \subseteq JobsOf(s, "okRow")
        /\ JobsOf(s, "failRow")' \subseteq JobsOf(s, "failRow")
    BY <1>3, <2>1, Moved
  <2>3. \A i \in Slot : i[3] = s => job'[i] = job[i]
    BY <1>3, <2>1, Moved
  <2> QED
    BY <1>0, <1>3, <2>2, <2>3, QuietLedger DEF SameLedger
<1>4. CASE Record(j)
  <2>1. Moves(j, {"okRow"}) /\ sub[j[3]].is = "live"
    BY <1>4, GotoMoves DEF Record, Stage, Live
  <2>2. CASE j[3] # s
    <3>1. sub'[s] = sub[s]
      BY <1>4, <2>2 DEF Record, TypeOK
    <3> QED
      BY <1>3, <1>4, <2>2, <3>1 DEF Record, Stage
  <2>3. CASE j[3] = s
    <3>1. /\ sub'[s].is = "live" /\ sub'[s].total = sub[s].total + 1
          /\ sub'[s].failures = sub[s].failures
          /\ sub'[s].okRows = sub[s].okRows /\ sub'[s].failRows = sub[s].failRows
      BY <1>0, <1>4, <2>1, <2>3 DEF Record, TypeOK, Row
    <3>2. Cardinality(JobsOf(s, "okRow")') <= Cardinality(JobsOf(s, "okRow")) + 1
      <4>1. JobsOf(s, "okRow")' \subseteq JobsOf(s, "okRow") \cup {j}
        BY <2>1, Moved
      <4>2. IsFiniteSet(JobsOf(s, "okRow"))
        BY Counted
      <4> QED
        BY <4>1, <4>2, OneMore
    <3>3. "failRow" \notin {"okRow"}
      OBVIOUS
    <3>4. Cardinality(JobsOf(s, "failRow")') <= Cardinality(JobsOf(s, "failRow"))
      BY <2>1, <3>3, Moved, Counted, Fewer
    <3> QED
      BY <1>0, <2>1, <2>3, <3>1, <3>2, <3>4, RowNatural, Counted, CountedNext DEF Ledger
  <2> QED
    BY <2>2, <2>3
<1>5. CASE RecordFail(j)
  <2>1. Moves(j, {"failRow"}) /\ sub[j[3]].is = "live"
    BY <1>5, GotoMoves DEF RecordFail, Stage, Live
  <2>2. CASE j[3] # s
    <3>1. sub'[s] = sub[s]
      BY <1>5, <2>2 DEF RecordFail, TypeOK
    <3> QED
      BY <1>3, <1>5, <2>2, <3>1 DEF RecordFail, Stage
  <2>3. CASE j[3] = s
    <3>1. /\ sub'[s].is = "live" /\ sub'[s].total = sub[s].total + 1
          /\ sub'[s].failures = sub[s].failures + 1
          /\ sub'[s].okRows = sub[s].okRows /\ sub'[s].failRows = sub[s].failRows
      BY <1>0, <1>5, <2>1, <2>3 DEF RecordFail, TypeOK, Row
    <3>2. Cardinality(JobsOf(s, "failRow")') <= Cardinality(JobsOf(s, "failRow")) + 1
      <4>1. JobsOf(s, "failRow")' \subseteq JobsOf(s, "failRow") \cup {j}
        BY <2>1, Moved
      <4>2. IsFiniteSet(JobsOf(s, "failRow"))
        BY Counted
      <4> QED
        BY <4>1, <4>2, OneMore
    <3>3. "okRow" \notin {"failRow"}
      OBVIOUS
    <3>4. Cardinality(JobsOf(s, "okRow")') <= Cardinality(JobsOf(s, "okRow"))
      BY <2>1, <3>3, Moved, Counted, Fewer
    <3>5. sub'[s].total - sub'[s].failures = sub[s].total - sub[s].failures
      BY <3>1, RowNatural
    <3>6. /\ sub[s].okRows + Cardinality(JobsOf(s, "okRow")) <= sub[s].total - sub[s].failures
          /\ sub[s].failRows + Cardinality(JobsOf(s, "failRow")) <= sub[s].failures
      BY <1>0, <2>1, <2>3 DEF Ledger
    <3>7. /\ sub'[s].okRows + Cardinality(JobsOf(s, "okRow")') <= sub'[s].total - sub'[s].failures
          /\ sub'[s].failRows + Cardinality(JobsOf(s, "failRow")') <= sub'[s].failures
      BY <3>1, <3>2, <3>4, <3>5, <3>6, RowNatural, Counted, CountedNext
    <3> QED
      BY <3>1, <3>7 DEF Ledger
  <2> QED
    BY <2>2, <2>3
<1>6. CASE OkRow(j)
  <2>1. Moves(j, {"idle"}) /\ job[j].at = "okRow"
    BY <1>6, GotoMoves DEF OkRow, Stage
  <2>2. CASE j[3] # s
    <3>1. sub'[s] = sub[s]
      BY <1>6, <2>2 DEF OkRow, TypeOK
    <3> QED
      BY <1>3, <1>6, <2>2, <3>1 DEF OkRow, Stage
  <2>3. CASE sub' = sub
    <3>1. SameLedger(s)
      BY <2>3 DEF SameLedger
    <3> QED
      BY <1>1, <2>1, <3>1
  <2>4. CASE j[3] = s /\ sub' # sub
    <3>1. /\ sub[s].is = "live" /\ sub'[s].is = "live" /\ sub'[s].total = sub[s].total
          /\ sub'[s].failures = sub[s].failures
          /\ sub'[s].okRows = sub[s].okRows + 1 /\ sub'[s].failRows = sub[s].failRows
      BY <1>0, <1>6, <2>4 DEF OkRow, TypeOK, Row, Live
    <3>2. j \in JobsOf(s, "okRow")
      BY <2>1, <2>4 DEF JobsOf
    <3>3. "okRow" \notin {"idle"} /\ "failRow" \notin {"idle"}
      OBVIOUS
    <3>4. Cardinality(JobsOf(s, "okRow")') <= Cardinality(JobsOf(s, "okRow")) - 1
      BY <2>1, <3>2, <3>3, Moved, Counted, OneLess
    <3>5. Cardinality(JobsOf(s, "failRow")') <= Cardinality(JobsOf(s, "failRow"))
      BY <2>1, <3>3, Moved, Counted, Fewer
    <3> QED
      BY <1>0, <3>1, <3>4, <3>5, RowNatural, Counted, CountedNext DEF Ledger
  <2> QED
    BY <2>2, <2>3, <2>4
<1>7. CASE FailRow(j)
  <2>1. Moves(j, {"idle"}) /\ job[j].at = "failRow"
    BY <1>7, GotoMoves DEF FailRow, Stage
  <2>2. CASE j[3] # s
    <3>1. sub'[s] = sub[s]
      BY <1>7, <2>2 DEF FailRow, TypeOK
    <3> QED
      BY <1>3, <1>7, <2>2, <3>1 DEF FailRow, Stage
  <2>3. CASE sub' = sub
    <3>1. SameLedger(s)
      BY <2>3 DEF SameLedger
    <3> QED
      BY <1>1, <2>1, <3>1
  <2>4. CASE j[3] = s /\ sub' # sub
    <3>1. /\ sub[s].is = "live" /\ sub'[s].is = "live" /\ sub'[s].total = sub[s].total
          /\ sub'[s].failures = sub[s].failures
          /\ sub'[s].okRows = sub[s].okRows /\ sub'[s].failRows = sub[s].failRows + 1
      BY <1>0, <1>7, <2>4 DEF FailRow, TypeOK, Row, Live
    <3>2. j \in JobsOf(s, "failRow")
      BY <2>1, <2>4 DEF JobsOf
    <3>3. "okRow" \notin {"idle"} /\ "failRow" \notin {"idle"}
      OBVIOUS
    <3>4. Cardinality(JobsOf(s, "failRow")') <= Cardinality(JobsOf(s, "failRow")) - 1
      BY <2>1, <3>2, <3>3, Moved, Counted, OneLess
    <3>5. Cardinality(JobsOf(s, "okRow")') <= Cardinality(JobsOf(s, "okRow"))
      BY <2>1, <3>3, Moved, Counted, Fewer
    <3> QED
      BY <1>0, <3>1, <3>4, <3>5, RowNatural, Counted, CountedNext DEF Ledger
  <2> QED
    BY <2>2, <2>3, <2>4
<1> QED
  BY <1>2, <1>4, <1>5, <1>6, <1>7 DEF Delivery

LEMMA LedgerKept ==
    ASSUME TypeOK, \A s \in Sub : Ledger(s), Next
    PROVE  \A s \in Sub : Ledger(s)'
<1> SUFFICES ASSUME NEW s \in Sub PROVE Ledger(s)'
  OBVIOUS
<1> USE DEF histVars
<1>0. Ledger(s)
  OBVIOUS
<1>1. ASSUME NEW t \in Sub, Create(t) \/ Update(t) \/ Delete(t) PROVE Ledger(s)'
  BY <1>0, <1>1, AdminLedger
<1>2. ASSUME NEW j \in Slot, Delivery(j) \/ TimedOut(j) \/ Retry(j) PROVE Ledger(s)'
  BY <1>2, DeliveryLedger
<1>3. ASSUME UNCHANGED <<sub, job>> PROVE Ledger(s)'
  <2>1. SameLedger(s)
    BY <1>3 DEF SameLedger
  <2> QED
    BY <1>0, <1>3, <2>1, JobsUnchanged, QuietLedger
<1>4. ASSUME NEW p \in Proc, NEW d \in Event, Emit(p, d) \/ PublishLost(p, d) \/ FindFails(p, d)
      PROVE Ledger(s)'
  BY <1>3, <1>4 DEF Emit, PublishLost, FindFails
<1>5. ASSUME NEW p \in Proc, NEW d \in Event, Publish(p, d) PROVE Ledger(s)'
  BY <1>3, <1>5 DEF Publish
<1>6. ASSUME NEW p \in Proc, NEW m \in inbox[p], Receive(p, m) PROVE Ledger(s)'
  BY <1>3, <1>6 DEF Receive
<1>7. ASSUME NEW p \in Proc, NEW d \in Event, Find(p, d) PROVE Ledger(s)'
  <2>1. SameLedger(s)
    BY <1>7 DEF Find, SameLedger
  <2>2. /\ JobsOf(s, "okRow")' \subseteq JobsOf(s, "okRow")
        /\ JobsOf(s, "failRow")' \subseteq JobsOf(s, "failRow")
    BY <1>7, FindJobs
  <2>3. sub[s].is = "absent" => \A i \in Slot : i[3] = s => job'[i] = job[i]
    BY <1>7, FindJobs DEF Wanted, Live
  <2> QED
    BY <1>0, <2>1, <2>2, <2>3, QuietLedger
<1>8. ASSUME NEW p \in Proc, Crash(p) PROVE Ledger(s)'
  <2>1. SameLedger(s)
    BY <1>8 DEF Crash, SameLedger
  <2>2. /\ JobsOf(s, "okRow")' \subseteq JobsOf(s, "okRow")
        /\ JobsOf(s, "failRow")' \subseteq JobsOf(s, "failRow")
    BY <1>8, CrashJobs
  <2>3. \A i \in Slot : job'[i] = job[i] \/ job'[i].at = "idle"
    BY <1>8, CrashJobs
  <2> QED
    BY <1>0, <2>1, <2>2, <2>3, QuietLedger
<1> QED
  BY <1>1, <1>2, <1>4, <1>5, <1>6, <1>7, <1>8 DEF Next, BusStep

-----------------------------------------------------------------------------
(* A success is of a receiver that accepted.                               *)

(* Acceptances are never taken back.                                       *)
LEMMA Monotone ==
    ASSUME TypeOK, Next, NEW s \in Sub, NEW e \in Event, accepted[<<s, e>>] > 0
    PROVE  accepted'[<<s, e>>] > 0
<1> USE DEF histVars
<1>1. ASSUME NEW j \in Slot, Accept(j) PROVE accepted'[<<s, e>>] > 0
  BY <1>1, Natural DEF Accept, TypeOK
<1>2. ASSUME UNCHANGED accepted PROVE accepted'[<<s, e>>] > 0
  BY <1>2
<1>3. ASSUME NEW j \in Slot, Delivery(j) \/ TimedOut(j) \/ Retry(j)
      PROVE  Accept(j) \/ UNCHANGED accepted
  BY <1>3 DEF Delivery, TimedOut, Retry, Posted, Refused, Record, RecordThrows, OkRow,
              RecordFail, RecordFailThrows, FailRow
<1>4. ASSUME NEW t \in Sub, Create(t) \/ Update(t) \/ Delete(t) PROVE UNCHANGED accepted
  BY <1>4 DEF Create, Update, Delete
<1>5. ASSUME NEW p \in Proc, NEW d \in Event, Emit(p, d) \/ PublishLost(p, d) \/ FindFails(p, d)
      PROVE  UNCHANGED accepted
  BY <1>5 DEF Emit, PublishLost, FindFails
<1>6. ASSUME NEW p \in Proc, BusStep(p) \/ Crash(p) PROVE UNCHANGED accepted
  BY <1>6 DEF BusStep, Crash, Publish, Find, Receive
<1> QED
  BY <1>1, <1>2, <1>3, <1>4, <1>5, <1>6 DEF Next

LEMMA AcceptedJobsKept == ASSUME TypeOK, Next, AcceptedJobs PROVE AcceptedJobs'
<1> SUFFICES ASSUME NEW i \in Slot, job'[i].at \in {"record", "okRow"}
             PROVE  accepted'[<<i[3], i[2]>>] > 0
  BY DEF AcceptedJobs, Slot
<1> USE DEF histVars
<1>0. i[3] \in Sub /\ i[2] \in Event
  BY DEF Slot
<1>1. ASSUME job[i].at \in {"record", "okRow"} PROVE accepted'[<<i[3], i[2]>>] > 0
  BY <1>0, <1>1, Monotone DEF AcceptedJobs
<1>2. ASSUME UNCHANGED job PROVE accepted'[<<i[3], i[2]>>] > 0
  BY <1>1, <1>2
<1>3. ASSUME NEW t \in Sub, Create(t) \/ Update(t) \/ Delete(t) PROVE UNCHANGED job
  BY <1>3 DEF Create, Update, Delete
<1>4. ASSUME NEW p \in Proc, NEW d \in Event, Emit(p, d) \/ PublishLost(p, d) \/ FindFails(p, d)
      PROVE  UNCHANGED job
  BY <1>4 DEF Emit, PublishLost, FindFails
<1>5. ASSUME NEW p \in Proc, NEW d \in Event, Publish(p, d) PROVE UNCHANGED job
  BY <1>5 DEF Publish
<1>6. ASSUME NEW p \in Proc, NEW m \in inbox[p], Receive(p, m) PROVE UNCHANGED job
  BY <1>6 DEF Receive
<1>7. ASSUME NEW p \in Proc, NEW d \in Event, Find(p, d) PROVE accepted'[<<i[3], i[2]>>] > 0
  <2>1. job'[i] = job[i]
    BY <1>7, FindJobs
  <2> QED
    BY <1>1, <2>1
<1>8. ASSUME NEW p \in Proc, Crash(p) PROVE accepted'[<<i[3], i[2]>>] > 0
  <2>1. job'[i] = job[i]
    BY <1>8, CrashJobs
  <2> QED
    BY <1>1, <2>1
<1>9. ASSUME NEW j \in Slot, NEW L, Moves(j, L), j # i \/ L \cap {"record", "okRow"} = {}
      PROVE  accepted'[<<i[3], i[2]>>] > 0
  <2>1. i # j
    BY <1>9, Moved
  <2>2. job'[i] = job[i]
    BY <1>9, <2>1, Moved
  <2> QED
    BY <1>1, <2>2
<1>10. ASSUME NEW j \in Slot, Posted(j) PROVE accepted'[<<i[3], i[2]>>] > 0
  <2>1. CASE j = i
    <3>1. accepted'[<<i[3], i[2]>>] = accepted[<<i[3], i[2]>>] + 1
      BY <1>0, <1>10, <2>1 DEF Posted, Accept, TypeOK
    <3> QED
      BY <1>0, <3>1, Natural
  <2>2. CASE j # i
    <3>1. Moves(j, {"record"})
      BY <1>10, GotoMoves DEF Posted, Stage
    <3> QED
      BY <1>9, <2>2, <3>1
  <2> QED
    BY <2>1, <2>2
<1>11. ASSUME NEW j \in Slot, Record(j) PROVE accepted'[<<i[3], i[2]>>] > 0
  <2>1. CASE j = i
    BY <1>1, <1>11, <2>1 DEF Record, At
  <2>2. CASE j # i
    <3>1. Moves(j, {"okRow"})
      BY <1>11, GotoMoves DEF Record, Stage
    <3> QED
      BY <1>9, <2>2, <3>1
  <2> QED
    BY <2>1, <2>2
<1>12. ASSUME NEW j \in Slot, OkRow(j) \/ RecordFail(j) \/ RecordFailThrows(j) \/ FailRow(j)
       PROVE accepted'[<<i[3], i[2]>>] > 0
  <2>1. PICK l \in {"idle", "failRow"} : Goto(j, l)
    BY <1>12 DEF OkRow, RecordFail, RecordFailThrows, FailRow
  <2>2. Moves(j, {l})
    BY <2>1, GotoMoves DEF Stage
  <2>3. {l} \cap {"record", "okRow"} = {}
    BY <2>1
  <2> QED
    BY <1>9, <2>2, <2>3
<1>13. ASSUME NEW j \in Slot, Refused(j) \/ RecordThrows(j) \/ TimedOut(j)
       PROVE accepted'[<<i[3], i[2]>>] > 0
  <2>1. Moves(j, {"post", "recordFail"})
    BY <1>13, AttemptMoves DEF Refused, RecordThrows, TimedOut
  <2>2. {"post", "recordFail"} \cap {"record", "okRow"} = {}
    OBVIOUS
  <2> QED
    BY <1>9, <2>1, <2>2
<1>14. ASSUME NEW j \in Slot, Retry(j) PROVE accepted'[<<i[3], i[2]>>] > 0
  <2>1. Moves(j, {"post"})
    BY <1>14, RetryMoves
  <2>2. {"post"} \cap {"record", "okRow"} = {}
    OBVIOUS
  <2> QED
    BY <1>9, <2>1, <2>2
<1> QED
  BY <1>2, <1>3, <1>4, <1>5, <1>6, <1>7, <1>8, <1>10, <1>11, <1>12, <1>13, <1>14
  DEF Next, BusStep, Delivery

LEMMA SuccessKept ==
    ASSUME TypeOK, Next, AcceptedJobs, SuccessWasAccepted
    PROVE  SuccessWasAccepted'
<1> SUFFICES ASSUME NEW s \in Sub, sub'[s].okRows > 0
             PROVE  \E e \in Event : accepted'[<<s, e>>] > 0
  BY DEF SuccessWasAccepted
<1> USE DEF histVars
<1>1. ASSUME sub'[s].okRows = sub[s].okRows PROVE \E e \in Event : accepted'[<<s, e>>] > 0
  <2>1. PICK e \in Event : accepted[<<s, e>>] > 0
    BY <1>1 DEF SuccessWasAccepted
  <2> QED
    BY <2>1, Monotone
<1>2. ASSUME NEW t \in Sub, Create(t) \/ Update(t) \/ Delete(t)
      PROVE  sub'[s].okRows = sub[s].okRows \/ sub'[s].okRows = 0
  <2>1. CASE Create(t)
    BY <2>1 DEF Create, NoRow, TypeOK
  <2>2. CASE Update(t)
    <3>1. PICK topics \in TopicLists, b \in BOOLEAN :
             sub' = [sub EXCEPT ![t].enabled = b, ![t].topics = topics]
      BY <2>2 DEF Update
    <3> QED
      BY <3>1 DEF TypeOK, Row
  <2>3. CASE Delete(t)
    BY <2>3 DEF Delete, NoRow, TypeOK
  <2> QED
    BY <1>2, <2>1, <2>2, <2>3
<1>3. ASSUME NEW p \in Proc, NEW d \in Event, Emit(p, d) \/ PublishLost(p, d) \/ FindFails(p, d)
      PROVE  UNCHANGED sub
  BY <1>3 DEF Emit, PublishLost, FindFails
<1>4. ASSUME NEW p \in Proc, BusStep(p) \/ Crash(p) PROVE UNCHANGED sub
  BY <1>4 DEF BusStep, Crash, Publish, Find, Receive
<1>5. ASSUME NEW j \in Slot, TimedOut(j) \/ Retry(j) \/ Posted(j) \/ Refused(j) \/ RecordThrows(j)
             \/ RecordFailThrows(j)
      PROVE  UNCHANGED sub
  BY <1>5 DEF TimedOut, Retry, Posted, Refused, RecordThrows, RecordFailThrows
<1>6. ASSUME NEW j \in Slot, Record(j) \/ RecordFail(j) \/ FailRow(j)
      PROVE  sub'[s].okRows = sub[s].okRows
  <2>1. j[3] \in Sub /\ sub[j[3]] \in Row /\ sub[s] \in Row
    BY DEF Slot, TypeOK
  <2>2. CASE Record(j)
    BY <2>1, <2>2 DEF Record, TypeOK, Row
  <2>3. CASE RecordFail(j)
    BY <2>1, <2>3 DEF RecordFail, TypeOK, Row
  <2>4. CASE FailRow(j)
    BY <2>1, <2>4, SMTT(30) DEF FailRow, TypeOK, Row
  <2> QED
    BY <1>6, <2>2, <2>3, <2>4
<1>7. ASSUME NEW j \in Slot, OkRow(j) PROVE \E e \in Event : accepted'[<<s, e>>] > 0
  <2>1. j[3] \in Sub /\ j[2] \in Event
    BY DEF Slot
  <2>2. CASE j[3] = s
    <3>1. accepted[<<s, j[2]>>] > 0
      BY <1>7, <2>2 DEF OkRow, At, AcceptedJobs
    <3> QED
      BY <2>1, <3>1, Monotone
  <2>3. CASE j[3] # s
    <3>1. sub'[s] = sub[s]
      BY <1>7, <2>3 DEF OkRow, TypeOK
    <3> QED
      BY <1>1, <3>1
  <2> QED
    BY <2>2, <2>3
<1>8. sub'[s].okRows # 0
  OBVIOUS
<1> QED
  BY <1>1, <1>2, <1>3, <1>4, <1>5, <1>6, <1>7, <1>8 DEF Next, Delivery

-----------------------------------------------------------------------------
LEMMA Step == Inv /\ [Next]_vars => Inv'
<1> SUFFICES ASSUME Inv, [Next]_vars PROVE Inv'
  OBVIOUS
<1>1. CASE Next
  <2>1. TypeOK'
    BY <1>1, Types DEF Inv
  <2>2. BusInv'
    BY <1>1, BusKept DEF Inv
  <2>3. Accounts'
    BY <1>1, <2>1, AccountsKept DEF Inv
  <2>4. (\A s \in Sub : Ledger(s))'
    BY <1>1, LedgerKept DEF Inv
  <2>5. Accepted'
    BY <1>1, AcceptedJobsKept, SuccessKept DEF Inv, Accepted, AcceptedJobs
  <2> QED
    BY <2>1, <2>2, <2>3, <2>4, <2>5 DEF Inv
<1>2. CASE UNCHANGED vars
  <2> USE <1>2 DEF vars, histVars, Inv
  <2>1. TypeOK'
    BY DEF TypeOK
  <2>2. BusInv'
    BY UnchangedBus DEF busVars
  <2>3. Accounts'
    BY JobsUnchanged DEF Accounts, Account
  <2>4. (\A s \in Sub : Ledger(s))'
    BY JobsUnchanged DEF Ledger, Slot
  <2>5. Accepted'
    BY DEF Accepted, AcceptedJobs, SuccessWasAccepted, Slot
  <2> QED
    BY <2>1, <2>2, <2>3, <2>4, <2>5
<1> QED
  BY <1>1, <1>2

(* Every state of every behaviour has the types that the module declares   *)
(* (what WebhookDispatcher and RedisPubSubAdapter may write).              *)
THEOREM Invariance == Spec => []Inv
<1>1. Init => Inv
  BY Initial
<1> QED
  BY <1>1, Step, PTL DEF Spec

(* However messages, crashes and publications interleave, a process        *)
(* handles an event at most once (attachRedisPubSub skips its own).        *)
THEOREM NoEchoHolds == Spec => []NoEcho
<1>1. Inv => NoEcho
  <2> SUFFICES ASSUME Inv, NEW pe \in Proc \X Event PROVE handled[pe] <= 1
    BY DEF NoEcho
  <2>1. PICK p \in Proc, e \in Event : pe = <<p, e>>
    OBVIOUS
  <2> QED
    BY <2>1 DEF Inv, BusInv
<1> QED
  BY <1>1, Invariance, PTL

(* A receiver accepts no event more often than deliveries were started and *)
(* acceptances went unrecorded (deliverWithRetry).                         *)
THEOREM DuplicatesExplainedHolds == Spec => []DuplicatesExplained
<1>1. Inv => DuplicatesExplained
  <2> SUFFICES ASSUME Inv, NEW se \in Sub \X Event PROVE accepted[se] <= started[se] + excused[se]
    BY DEF DuplicatesExplained
  <2>1. PICK s \in Sub, e \in Event : se = <<s, e>>
    OBVIOUS
  <2>2. Account(s, e) /\ TypeOK
    BY DEF Inv, Accounts
  <2>3. accepted[<<s, e>>] <= started[<<s, e>>] + excused[<<s, e>>]
    BY <2>2, Natural, Counted DEF Account
  <2> QED
    BY <2>1, <2>3
<1> QED
  BY <1>1, Invariance, PTL

(* The counters of a subscription cover its delivery rows, and a success   *)
(* row means that its receiver accepted something (recordDelivery,         *)
(* recordDeliveryRow).                                                     *)
THEOREM LedgerHoldsAlways == Spec => []LedgerHolds
<1>1. Inv => LedgerHolds
  <2> SUFFICES ASSUME Inv PROVE LedgerHolds
    OBVIOUS
  <2>1. ASSUME NEW s \in Sub PROVE /\ sub[s].okRows <= sub[s].total - sub[s].failures
                                   /\ sub[s].failRows <= sub[s].failures
    <3>1. Ledger(s) /\ TypeOK
      BY DEF Inv
    <3>2. CASE sub[s].is = "live"
      BY <3>1, <3>2, RowNatural, Counted DEF Ledger
    <3>3. CASE sub[s].is # "live"
      BY <3>1, <3>3 DEF Ledger
    <3> QED
      BY <3>2, <3>3
  <2> QED
    BY <2>1 DEF LedgerHolds, RowsWithinCounters, Inv, Accepted
<1> QED
  BY <1>1, Invariance, PTL

-----------------------------------------------------------------------------
(* The log.  What every report takes for granted of a row, and of the row  *)
(* of a single request besides: that only its answer costs anything, and   *)
(* that status, kind and attempts tell the same of it.                     *)
TriesOf == Seq([model : LogModel, kind : Kinds \cup {Null}, at : Nat])
StatusColumn == (200..599) \cup {Null}
KindColumn == Kinds \cup DOMAIN StatusOf \cup {Null}
LogRow == [key : LogKey \cup {Null}, at : Nat, status : StatusColumn, kind : KindColumn,
           model : LogModel \cup {Null}, tokens : Nat, cost : Nat \cup {Null}, tries : TriesOf]
Call == [row : Nat, key : LogKey \cup {Null}, at : Nat, stage : {"started", "routed", "finished"},
         model : LogModel \cup {Null}, kind : Kinds \cup {Null}]

TriesFit(row) ==
    /\ Len(row.tries) <= 2
    /\ \A n \in 1..Len(row.tries) : n < Len(row.tries) => row.tries[n].kind # Null
    /\ Len(row.tries) > 0 => (row.kind = Null <=> row.tries[Len(row.tries)].kind = Null)

(* What any row is, whichever requests have written on it, ...             *)
RowFits(row) ==
    /\ row.status = Null => row.kind = Null /\ Len(row.tries) = 0 /\ row.cost = Null
    /\ row.status # Null => row.kind # Null \/ row.status < 400

(* ... and what the row of a single request is besides.                    *)
OwnRow(row, call) ==
    /\ TriesFit(row)
    /\ row.key = call.key
    /\ row.cost # Null => row.key # Null /\ row.status = 200 /\ call.stage = "finished"
    /\ row.status = Null <=> call.stage = "started"
    /\ row.status # Null => (row.kind = Null <=> row.status < 400)
    /\ call.stage = "routed" => row.kind = call.kind
    /\ call.stage = "finished" => (row.kind = "rate_limited" <=> row.status = 429)

Owned(i) == Reused(i) \/ \E c \in DOMAIN calls : calls[c].row = i /\ OwnRow(log[i], calls[c])

LogInv ==
    /\ clock \in Nat /\ log \in Seq(LogRow) /\ calls \in Seq(Call)
    /\ \A c \in DOMAIN calls : calls[c].row \in DOMAIN log
    /\ \A i \in DOMAIN log : log[i].at <= clock /\ RowFits(log[i]) /\ Owned(i)

LEMMA LogInitInv == ReportsInit => LogInv
<1> SUFFICES ASSUME ReportsInit PROVE LogInv
  OBVIOUS
<1>1. clock \in Nat /\ log \in Seq(LogRow) /\ DOMAIN log = {} /\ calls \in Seq(Call) /\ DOMAIN calls = {}
  BY ReportsAssumption DEF ReportsInit
<1> QED
  BY <1>1 DEF LogInv

LEMMA TriesTyped ==
    ASSUME clock \in Nat, NEW t \in Tries
    PROVE  /\ t \in TriesOf
           /\ Len(t) \in {1, 2} /\ (Len(t) = 2 => t[1].kind # Null)
<1> DEFINE Tr == [model : LogModel, kind : Kinds \cup {Null}, at : Nat]
<1>1. \A m \in LogModel, kd \in Kinds \cup {Null} : Try(m, kd) \in Tr /\ Try(m, kd).kind = kd
  BY DEF Try
<1>2. CASE \E m \in LogModel, kd \in Kinds \cup {Null} : t = <<Try(m, kd)>>
  <2>1. PICK m \in LogModel, kd \in Kinds \cup {Null} : t = <<Try(m, kd)>>
    BY <1>2
  <2>2. Try(m, kd) \in Tr
    BY <1>1
  <2> HIDE DEF Tr
  <2>3. t \in Seq(Tr) /\ Len(t) = 1
    BY <2>1, <2>2
  <2> QED
    BY <2>3 DEF Tr, TriesOf
<1>3. CASE \E p \in {q \in LogModel \X LogModel : q[1] # q[2]}, kd \in Kinds :
              t = <<Try(p[1], kd), Try(p[2], Null)>>
  <2>1. PICK p \in LogModel \X LogModel, kd \in Kinds : t = <<Try(p[1], kd), Try(p[2], Null)>>
    BY <1>3
  <2>2. Try(p[1], kd) \in Tr /\ Try(p[2], Null) \in Tr /\ Try(p[1], kd).kind = kd /\ kd # Null
    BY <1>1, ReportsAssumption
  <2> HIDE DEF Tr
  <2>3. t \in Seq(Tr) /\ Len(t) = 2 /\ t[1] = Try(p[1], kd)
    BY <2>1, <2>2
  <2> QED
    BY <2>2, <2>3 DEF Tr, TriesOf
<1> QED
  BY <1>2, <1>3 DEF Tries

(* A row that begins, that has its attempts, that is finished.             *)
LEMMA NewRowFits ==
    ASSUME clock \in Nat, NEW k \in LogKey \cup {Null}, NEW i \in Nat
    PROVE  /\ NewRow(k) \in LogRow /\ RowFits(NewRow(k)) /\ NewRow(k).at = clock
           /\ NewCall(k, i) \in Call /\ NewCall(k, i).row = i /\ NewCall(k, i).stage = "started"
           /\ OwnRow(NewRow(k), NewCall(k, i))
<1>1. NewRow(k) \in LogRow
  <2>1. <<>> \in TriesOf
    BY DEF TriesOf
  <2> QED
    BY <2>1 DEF NewRow, LogRow, StatusColumn, KindColumn
<1>2. Len(NewRow(k).tries) = 0 /\ NewRow(k).cost = Null /\ NewRow(k).status = Null
      /\ NewRow(k).kind = Null /\ NewRow(k).at = clock /\ NewRow(k).key = k
  BY DEF NewRow
<1>3. NewCall(k, i) \in Call /\ NewCall(k, i).row = i /\ NewCall(k, i).stage = "started"
      /\ NewCall(k, i).key = k
  BY DEF NewCall, Call
<1> QED
  BY <1>1, <1>2, <1>3 DEF RowFits, OwnRow, TriesFit

LEMMA RoutedFits ==
    ASSUME clock \in Nat, NEW row \in LogRow, RowFits(row), NEW call \in Call, NEW t \in Tries
    PROVE  /\ Routed(row, t) \in LogRow /\ RowFits(Routed(row, t)) /\ Routed(row, t).at = row.at
           /\ Knowing(call, t) \in Call /\ Knowing(call, t).row = call.row
           /\ OwnRow(row, call) /\ call.stage = "started" => OwnRow(Routed(row, t), Knowing(call, t))
<1> DEFINE Tr == [model : LogModel, kind : Kinds \cup {Null}, at : Nat]
           x == Routed(row, t)
           y == Knowing(call, t)
           m == Last(t).model
           kd == Last(t).kind
           k == IF kd = Null THEN row.kind ELSE kd
           s == IF kd = Null THEN 200 ELSE 502
<1>1. t \in TriesOf /\ Len(t) \in {1, 2} /\ (Len(t) = 2 => t[1].kind # Null)
  BY TriesTyped
<1>2. Last(t) = t[Len(t)] /\ Last(t) \in Tr
  <2>1. t \in Seq(Tr)
    BY <1>1 DEF TriesOf
  <2> HIDE DEF Tr
  <2> QED
    BY <1>1, <2>1 DEF Last
<1>3. /\ row.tries \o t \in TriesOf
      /\ Len(row.tries) \in Nat /\ Len(row.tries \o t) = Len(row.tries) + Len(t)
      /\ Len(row.tries) = 0 => \A n \in 1..Len(t) : (row.tries \o t)[n] = t[n]
  <2>1. row.tries \in Seq(Tr) /\ t \in Seq(Tr)
    BY <1>1 DEF TriesOf, LogRow
  <2> HIDE DEF Tr
  <2>2. row.tries \o t \in Seq(Tr)
    BY <2>1
  <2> QED
    BY <2>1, <2>2, SMTT(30) DEF TriesOf, Tr
<1>4. m \in LogModel /\ kd \in Kinds \cup {Null} /\ k \in KindColumn /\ s \in StatusColumn
      /\ s # Null /\ Null # 200 /\ (s < 400 <=> kd = Null)
  BY <1>2, ReportsAssumption, SMTT(30) DEF KindColumn, StatusColumn, LogRow
<1>5. x = [row EXCEPT !.tries = row.tries \o t, !.model = m, !.kind = k, !.status = s]
  BY DEF Routed
<1>6. y = [call EXCEPT !.stage = "routed", !.model = m, !.kind = kd]
  BY DEF Knowing
<1>7. t[Len(t)].kind = kd
  BY <1>2
<1> HIDE DEF m, kd, s, x, y, Tr
<1>8. x \in LogRow /\ x.tries = row.tries \o t /\ x.kind = k /\ x.status = s
      /\ x.cost = row.cost /\ x.at = row.at /\ x.key = row.key
  <2>1. k \in KindColumn
    BY <1>4
  <2> HIDE DEF k
  <2> QED
    BY <1>3, <1>4, <1>5, <2>1 DEF LogRow
<1>9. y \in Call /\ y.row = call.row /\ y.key = call.key /\ y.stage = "routed" /\ y.kind = kd
  BY <1>4, <1>6 DEF Call
<1>10. RowFits(x)
  BY <1>4, <1>8 DEF RowFits
<1>11. ASSUME OwnRow(row, call), call.stage = "started" PROVE OwnRow(x, y)
  <2>1. row.status = Null /\ row.kind = Null /\ Len(row.tries) = 0 /\ row.cost = Null
        /\ row.key = call.key
    BY <1>11 DEF OwnRow, RowFits
  <2>2. Len(x.tries) = Len(t) /\ (\A n \in 1..Len(t) : x.tries[n] = t[n])
    BY <1>3, <1>8, <2>1
  <2>3. x.kind = kd
    BY <1>8, <2>1
  <2>4. TriesFit(x)
    BY <1>1, <1>7, <2>2, <2>3 DEF TriesFit
  <2>5. x.cost = Null /\ x.key = y.key /\ x.status = s
    BY <1>8, <1>9, <2>1
  <2> QED
    BY <1>4, <1>9, <2>3, <2>4, <2>5 DEF OwnRow
<1> QED
  BY <1>8, <1>9, <1>10, <1>11 DEF x, y

IsFinished(x, row, s, kd, c) ==
    /\ x \in LogRow /\ x.tries = row.tries /\ x.at = row.at /\ x.key = row.key /\ x.status = s
    /\ x.kind = (IF kd = Null THEN row.kind ELSE kd)
    /\ x.cost = (IF c = Null THEN row.cost ELSE c)

LEMMA FinishedTyped ==
    ASSUME NEW row \in LogRow, NEW s \in StatusColumn, NEW kd \in KindColumn,
           NEW m \in LogModel \cup {Null}, NEW n \in Nat \cup {Null}, NEW c \in Nat \cup {Null}
    PROVE  IsFinished(Finished(row, s, kd, m, n, c), row, s, kd, c)
<1> DEFINE k == IF kd = Null THEN row.kind ELSE kd
           l == IF m = Null THEN row.model ELSE m
           o == IF n = Null THEN row.tokens ELSE n
           d == IF c = Null THEN row.cost ELSE c
           x == Finished(row, s, kd, m, n, c)
<1>1. k \in KindColumn /\ l \in LogModel \cup {Null} /\ o \in Nat /\ d \in Nat \cup {Null}
  BY DEF LogRow
<1>2. x = [row EXCEPT !.status = s, !.kind = k, !.model = l, !.tokens = o, !.cost = d]
  BY DEF Finished
<1> HIDE DEF k, l, o, d, x
<1>3. x \in LogRow
  BY <1>1, <1>2, ZenonT(30) DEF LogRow
<1>4. /\ x.tries = row.tries /\ x.at = row.at /\ x.key = row.key /\ x.status = s
      /\ x.kind = k /\ x.cost = d
  BY <1>2 DEF LogRow
<1>5. IsFinished(x, row, s, kd, c)
  BY <1>3, <1>4 DEF IsFinished, k, d
<1> QED
  BY <1>5 DEF x

LEMMA FinishedOkFits ==
    ASSUME NEW row \in LogRow, RowFits(row), NEW call \in Call, call.key # Null, call.kind = Null,
           call.stage # "finished",
           NEW m \in LogModel, NEW n \in Nat, NEW c \in Nat \cup {Null}
    PROVE  LET x == Finished(row, 200, Null, m, n, c)
               y == Over(call) IN
           /\ x \in LogRow /\ RowFits(x) /\ x.at = row.at /\ y \in Call /\ y.row = call.row
           /\ OwnRow(row, call) => OwnRow(x, y)
<1> DEFINE x == Finished(row, 200, Null, m, n, c)
           y == Over(call)
<1>1. 200 \in StatusColumn /\ Null \in KindColumn /\ Null # 200 /\ Null # "rate_limited"
      /\ m \in LogModel \cup {Null} /\ n \in Nat \cup {Null} /\ c \in Nat \cup {Null}
  BY ReportsAssumption DEF StatusColumn, KindColumn
<1>2. /\ x \in LogRow /\ x.tries = row.tries /\ x.at = row.at /\ x.key = row.key /\ x.status = 200
      /\ x.kind = row.kind
  <2>1. IsFinished(x, row, 200, Null, c)
    BY <1>1, FinishedTyped
  <2> HIDE DEF x
  <2> QED
    BY <2>1 DEF IsFinished
<1>3. y \in Call /\ y.row = call.row /\ y.key = call.key /\ y.stage = "finished"
  BY DEF Call, Over
<1> HIDE DEF x, y
<1>4. RowFits(x)
  BY <1>1, <1>2 DEF RowFits
<1>5. ASSUME OwnRow(row, call) PROVE OwnRow(x, y)
  <2>1. row.kind = Null
    BY <1>5 DEF OwnRow, RowFits, Call
  <2>2. TriesFit(x)
    BY <1>2, <1>5 DEF OwnRow, TriesFit
  <2> QED
    BY <1>1, <1>2, <1>3, <1>5, <2>1, <2>2 DEF OwnRow
<1> QED
  BY <1>2, <1>3, <1>4, <1>5 DEF x, y

LEMMA FinishedFailedFits ==
    ASSUME NEW row \in LogRow, RowFits(row), NEW call \in Call, call.stage # "finished",
           NEW kd \in DOMAIN StatusOf, call.stage = "routed" => kd = call.kind
    PROVE  LET x == Finished(row, StatusOf[kd], kd, Null, Null, Null)
               y == Over(call) IN
           /\ x \in LogRow /\ RowFits(x) /\ x.at = row.at /\ y \in Call /\ y.row = call.row
           /\ OwnRow(row, call) => OwnRow(x, y)
<1> DEFINE x == Finished(row, StatusOf[kd], kd, Null, Null, Null)
           y == Over(call)
<1>1. StatusOf[kd] \in 400..599 /\ kd # Null /\ (StatusOf[kd] = 429 <=> kd = "rate_limited")
      /\ StatusOf[kd] # Null /\ StatusOf[kd] \in StatusColumn /\ kd \in KindColumn
  BY ReportsAssumption DEF StatusColumn, KindColumn
<1>2. /\ x \in LogRow /\ x.tries = row.tries /\ x.at = row.at /\ x.key = row.key
      /\ x.status = StatusOf[kd] /\ x.kind = kd /\ x.cost = row.cost
  <2>0. Null \in LogModel \cup {Null} /\ Null \in Nat \cup {Null}
    OBVIOUS
  <2>1. IsFinished(x, row, StatusOf[kd], kd, Null)
    BY <1>1, <2>0, FinishedTyped, SMTT(30)
  <2> HIDE DEF x
  <2> QED
    BY <1>1, <2>1 DEF IsFinished
<1>3. y \in Call /\ y.row = call.row /\ y.key = call.key /\ y.stage = "finished"
  BY DEF Call, Over
<1> HIDE DEF x, y
<1>4. RowFits(x)
  BY <1>1, <1>2 DEF RowFits
<1>5. ASSUME OwnRow(row, call) PROVE OwnRow(x, y)
  <2>1. row.cost = Null
    BY <1>5 DEF OwnRow
  <2>2. Len(row.tries) = 0 \/ row.kind = kd
    BY <1>5 DEF OwnRow, RowFits, Call
  <2>3. TriesFit(x)
    BY <1>1, <1>2, <1>5, <2>2 DEF OwnRow, TriesFit, LogRow, TriesOf
  <2>4. ~(x.status < 400) /\ x.status # Null
    BY <1>1, <1>2
  <2> QED
    BY <1>1, <1>2, <1>3, <1>5, <2>1, <2>3, <2>4 DEF OwnRow
<1> QED
  BY <1>2, <1>3, <1>4, <1>5 DEF x, y

(* The log and the requests after a request with a row of its own, after   *)
(* one on the row of another, and after a write.                           *)
LEMMA RowAdded ==
    ASSUME LogInv, NEW x \in LogRow, RowFits(x), x.at <= clock, log' = Append(log, x), clock' = clock,
           NEW y \in Call, calls' = Append(calls, y), y.row = Len(log) + 1, OwnRow(x, y)
    PROVE  LogInv'
<1>1. log' \in Seq(LogRow) /\ DOMAIN log' = 1..(Len(log) + 1) /\ log'[Len(log) + 1] = x
      /\ \A i \in 1..Len(log) : log'[i] = log[i]
  BY DEF LogInv
<1>2. DOMAIN log = 1..Len(log) /\ Len(log) \in Nat
  BY DEF LogInv
<1>3. /\ calls' \in Seq(Call) /\ DOMAIN calls' = 1..(Len(calls) + 1) /\ calls'[Len(calls) + 1] = y
      /\ DOMAIN calls = 1..Len(calls) /\ Len(calls) \in Nat
      /\ \A c \in 1..Len(calls) : calls'[c] = calls[c]
  BY DEF LogInv
<1>4. \A i \in DOMAIN log' : log'[i].at <= clock /\ RowFits(log'[i])
  BY <1>1, <1>2 DEF LogInv
<1>5. \A c \in DOMAIN calls' : calls'[c].row \in DOMAIN log'
  BY <1>1, <1>2, <1>3 DEF LogInv
<1>6. ASSUME NEW i \in DOMAIN log' PROVE Owned(i)'
  <2>1. CASE i = Len(log) + 1
    <3>1. Len(calls) + 1 \in DOMAIN calls' /\ calls'[Len(calls) + 1] = y /\ log'[i] = x
      BY <1>1, <1>3, <2>1
    <3>2. \E c \in DOMAIN calls' : calls'[c].row = i /\ OwnRow(log'[i], calls'[c])
      BY <2>1, <3>1
    <3> QED
      BY <3>2 DEF Owned, OwnRow, TriesFit
  <2>2. CASE i \in DOMAIN log
    <3>1. Owned(i)
      BY <2>2 DEF LogInv
    <3>2. Reused(i) => Reused(i)'
      BY <1>3 DEF Reused
    <3>3. ASSUME NEW c \in DOMAIN calls, calls[c].row = i, OwnRow(log[i], calls[c])
          PROVE  c \in DOMAIN calls' /\ calls'[c].row = i /\ OwnRow(log'[i], calls'[c])
      BY <1>1, <1>2, <1>3, <2>2, <3>3
    <3> QED
      BY <3>1, <3>2, <3>3 DEF Owned, OwnRow, TriesFit
  <2> QED
    BY <1>1, <1>2, <2>1, <2>2
<1> QED
  BY <1>1, <1>3, <1>4, <1>5, <1>6 DEF LogInv, RowFits

LEMMA CallAdded ==
    ASSUME LogInv, log' = log, clock' = clock,
           NEW y \in Call, calls' = Append(calls, y), y.row \in DOMAIN log
    PROVE  LogInv'
<1>1. /\ calls' \in Seq(Call) /\ DOMAIN calls' = 1..(Len(calls) + 1) /\ calls'[Len(calls) + 1] = y
      /\ DOMAIN calls = 1..Len(calls) /\ Len(calls) \in Nat
      /\ \A c \in 1..Len(calls) : calls'[c] = calls[c]
  BY DEF LogInv
<1>2. \A c \in DOMAIN calls' : calls'[c].row \in DOMAIN log'
  BY <1>1 DEF LogInv
<1>3. ASSUME NEW i \in DOMAIN log PROVE Owned(i)'
  <2>1. CASE Reused(i)
    BY <1>1, <2>1 DEF Owned, Reused
  <2>2. ASSUME NEW c \in DOMAIN calls, calls[c].row = i, OwnRow(log[i], calls[c]) PROVE Owned(i)'
    <3>1. CASE y.row = i
      <4>1. c # Len(calls) + 1 /\ c \in DOMAIN calls' /\ Len(calls) + 1 \in DOMAIN calls'
        BY <1>1
      <4>2. calls'[c].row = i /\ calls'[Len(calls) + 1].row = i
        BY <1>1, <2>2, <3>1
      <4> QED
        BY <4>1, <4>2 DEF Owned, Reused
    <3>2. CASE y.row # i
      <4>1. c \in DOMAIN calls' /\ calls'[c].row = i /\ OwnRow(log'[i], calls'[c])
        BY <1>1, <2>2
      <4> QED
        BY <4>1 DEF Owned, OwnRow, TriesFit
    <3> QED
      BY <3>1, <3>2
  <2> QED
    BY <2>1, <2>2 DEF LogInv, Owned
<1> QED
  BY <1>1, <1>2, <1>3 DEF LogInv, RowFits

LEMMA RowWritten ==
    ASSUME LogInv, NEW c \in DOMAIN calls, NEW x \in LogRow, RowFits(x), x.at = log[calls[c].row].at,
           log' = [log EXCEPT ![calls[c].row] = x], clock' = clock,
           NEW y \in Call, y.row = calls[c].row, calls' = [calls EXCEPT ![c] = y],
           OwnRow(log[calls[c].row], calls[c]) => OwnRow(x, y)
    PROVE  LogInv'
<1> DEFINE i == calls[c].row
<1>1. log' \in Seq(LogRow) /\ DOMAIN log' = DOMAIN log /\ log'[i] = x /\ i \in DOMAIN log
      /\ \A j \in DOMAIN log : j # i => log'[j] = log[j]
  BY DEF LogInv
<1>2. /\ calls' \in Seq(Call) /\ DOMAIN calls' = DOMAIN calls /\ calls'[c] = y
      /\ \A d \in DOMAIN calls : d # c => calls'[d] = calls[d]
      /\ \A d \in DOMAIN calls : calls'[d].row = calls[d].row
  BY DEF LogInv
<1>3. \A j \in DOMAIN log' : log'[j].at <= clock /\ RowFits(log'[j])
  BY <1>1 DEF LogInv
<1>4. \A j : Reused(j)' <=> Reused(j)
  BY <1>2 DEF Reused
<1>5. ASSUME NEW j \in DOMAIN log, ~Reused(j) PROVE Owned(j)'
  <2>1. PICK d \in DOMAIN calls : calls[d].row = j /\ OwnRow(log[j], calls[d])
    BY <1>5 DEF LogInv, Owned
  <2>2. CASE j = i
    <3>1. d = c
      BY <1>5, <2>1, <2>2 DEF Reused
    <3>2. c \in DOMAIN calls' /\ calls'[c].row = j /\ OwnRow(log'[j], calls'[c])
      BY <1>1, <1>2, <2>1, <2>2, <3>1
    <3> QED
      BY <3>2 DEF Owned, OwnRow, TriesFit
  <2>3. CASE j # i
    <3>1. d \in DOMAIN calls' /\ calls'[d].row = j /\ OwnRow(log'[j], calls'[d])
      BY <1>1, <1>2, <2>1, <2>3
    <3> QED
      BY <3>1 DEF Owned, OwnRow, TriesFit
  <2> QED
    BY <2>2, <2>3
<1>6. \A d \in DOMAIN calls' : calls'[d].row \in DOMAIN log'
  BY <1>1, <1>2 DEF LogInv
<1>7. \A j \in DOMAIN log' : Owned(j)'
  BY <1>1, <1>4, <1>5 DEF Owned
<1> HIDE DEF i
<1> QED
  BY <1>1, <1>2, <1>3, <1>6, <1>7 DEF LogInv, RowFits

LEMMA LogStepInv == LogInv /\ [ReportsNext]_reportVars => LogInv'
<1> SUFFICES ASSUME LogInv, [ReportsNext]_reportVars PROVE LogInv'
  OBVIOUS
<1>0. /\ clock \in Nat /\ Len(log) + 1 \in Nat
      /\ \A i \in DOMAIN log : i \in Nat /\ log[i] \in LogRow /\ RowFits(log[i]) /\ log[i].at <= clock
      /\ \A c \in DOMAIN calls : calls[c] \in Call /\ calls[c].row \in DOMAIN log
  BY DEF LogInv
<1>1. ASSUME NEW k \in LogKey, Begin(k) PROVE LogInv'
  <2>1. ASSUME log' = Append(log, NewRow(k)), calls' = Append(calls, NewCall(k, Len(log) + 1))
        PROVE  LogInv'
    BY <1>0, <1>1, <2>1, NewRowFits, RowAdded DEF Begin
  <2>2. ASSUME NEW i \in DOMAIN log, calls' = Append(calls, NewCall(k, i)), log' = log
        PROVE  LogInv'
    <3>1. NewCall(k, i) \in Call /\ NewCall(k, i).row = i
      BY <1>0, NewRowFits
    <3> QED
      BY <1>1, <2>2, <3>1, CallAdded DEF Begin
  <2> QED
    BY <1>1, <2>1, <2>2 DEF Begin
<1>2. ASSUME NEW c \in DOMAIN calls, Persist(c) PROVE LogInv'
  <2>1. PICK t \in Tries : /\ log' = [log EXCEPT ![calls[c].row] = Routed(log[calls[c].row], t)]
                           /\ calls' = [calls EXCEPT ![c] = Knowing(calls[c], t)]
    BY <1>2 DEF Persist
  <2> DEFINE x == Routed(log[calls[c].row], t)
             y == Knowing(calls[c], t)
  <2>2. /\ x \in LogRow /\ RowFits(x) /\ x.at = log[calls[c].row].at
        /\ y \in Call /\ y.row = calls[c].row
        /\ OwnRow(log[calls[c].row], calls[c]) => OwnRow(x, y)
    BY <1>0, <1>2, RoutedFits DEF Persist
  <2> HIDE DEF x, y
  <2> QED
    BY <1>2, <2>1, <2>2, RowWritten DEF Persist, x, y
<1>3. ASSUME NEW c \in DOMAIN calls, FinishOk(c) PROVE LogInv'
  <2>1. PICK m \in LogModel, n \in Nat, b \in Nat \cup {Null} :
              Answer(c, Finished(log[calls[c].row], 200, Null, m, n, b))
    <3>1. PICK m \in LogModel : \/ Answer(c, Finished(log[calls[c].row], 200, Null, m, 1, Estimate(m, 1)))
                               \/ Answer(c, Finished(log[calls[c].row], 200, Null, m, 0, Null))
      BY <1>3 DEF FinishOk
    <3>2. Estimate(m, 1) \in Nat \cup {Null}
      BY ReportsAssumption DEF Estimate
    <3> DEFINE A(n, b) == Answer(c, Finished(log[calls[c].row], 200, Null, m, n, b))
    <3>3. A(1, Estimate(m, 1)) \/ A(0, Null)
      BY <3>1
    <3> HIDE DEF A
    <3>4. \E n \in Nat, b \in Nat \cup {Null} : A(n, b)
      BY <3>2, <3>3
    <3> QED
      BY <3>4 DEF A
  <2> DEFINE x == Finished(log[calls[c].row], 200, Null, m, n, b)
             y == Over(calls[c])
  <2>2. /\ clock' = clock /\ calls[c].key # Null /\ calls[c].stage # "finished" /\ calls[c].kind = Null
        /\ log' = [log EXCEPT ![calls[c].row] = x] /\ calls' = [calls EXCEPT ![c] = y]
    BY <1>3, <2>1 DEF FinishOk, Answer, Anon
  <2>3. /\ x \in LogRow /\ RowFits(x) /\ x.at = log[calls[c].row].at
        /\ y \in Call /\ y.row = calls[c].row
        /\ OwnRow(log[calls[c].row], calls[c]) => OwnRow(x, y)
    BY <1>0, <2>2, FinishedOkFits
  <2> HIDE DEF x, y
  <2> QED
    BY <2>2, <2>3, RowWritten
<1>4. ASSUME NEW c \in DOMAIN calls, FinishFailed(c) PROVE LogInv'
  <2>1. PICK kd \in DOMAIN StatusOf :
              /\ calls[c].stage = "routed" => kd = calls[c].kind
              /\ Answer(c, Finished(log[calls[c].row], StatusOf[kd], kd, Null, Null, Null))
    BY <1>4 DEF FinishFailed
  <2> DEFINE x == Finished(log[calls[c].row], StatusOf[kd], kd, Null, Null, Null)
             y == Over(calls[c])
  <2>2. /\ clock' = clock /\ calls[c].stage # "finished"
        /\ log' = [log EXCEPT ![calls[c].row] = x] /\ calls' = [calls EXCEPT ![c] = y]
    BY <2>1 DEF Answer
  <2>3. /\ x \in LogRow /\ RowFits(x) /\ x.at = log[calls[c].row].at
        /\ y \in Call /\ y.row = calls[c].row
        /\ OwnRow(log[calls[c].row], calls[c]) => OwnRow(x, y)
    BY <1>0, <2>1, <2>2, FinishedFailedFits
  <2> HIDE DEF x, y
  <2> QED
    BY <2>2, <2>3, RowWritten
<1>5. CASE TestRequest
  <2>1. PICK t \in Tries : /\ log' = Append(log, Routed(NewRow(Null), t))
                           /\ calls' = Append(calls, Knowing(NewCall(Null, Len(log) + 1), t))
    BY <1>5 DEF TestRequest, Anon
  <2> DEFINE x == NewRow(Null)
             y == NewCall(Null, Len(log) + 1)
  <2>2. /\ x \in LogRow /\ RowFits(x) /\ x.at = clock
        /\ y \in Call /\ y.row = Len(log) + 1 /\ y.stage = "started" /\ OwnRow(x, y)
    BY <1>0, NewRowFits
  <2> HIDE DEF x, y
  <2>3. /\ Routed(x, t) \in LogRow /\ RowFits(Routed(x, t)) /\ Routed(x, t).at = clock
        /\ Knowing(y, t) \in Call /\ Knowing(y, t).row = Len(log) + 1
        /\ OwnRow(Routed(x, t), Knowing(y, t))
    BY <1>0, <2>2, RoutedFits
  <2>4. log' = Append(log, Routed(x, t)) /\ calls' = Append(calls, Knowing(y, t)) /\ clock' = clock
    BY <1>5, <2>1 DEF TestRequest, x, y
  <2> QED
    BY <1>0, <2>3, <2>4, RowAdded
<1>6. CASE ClockTick
  <2>1. log' = log /\ clock' = clock + 1 /\ calls' = calls
    BY <1>6 DEF ClockTick
  <2>2. \A i \in DOMAIN log : log[i].at \in Nat
    BY <1>0 DEF LogRow
  <2>3. \A i \in DOMAIN log : log'[i].at <= clock'
    BY <1>0, <2>1, <2>2
  <2>4. \A i \in DOMAIN log : RowFits(log[i])' /\ Owned(i)'
    BY <2>1 DEF LogInv, RowFits, Owned, OwnRow, TriesFit, Reused
  <2> QED
    BY <1>0, <2>1, <2>3, <2>4 DEF LogInv
<1>7. CASE UNCHANGED reportVars
  BY <1>7 DEF reportVars, LogInv, RowFits, Owned, OwnRow, TriesFit, Reused
<1> QED
  BY <1>1, <1>2, <1>3, <1>4, <1>5, <1>6, <1>7 DEF ReportsNext

-----------------------------------------------------------------------------
(* Sums over the log.                                                      *)
LEMMA SumIs ==
    /\ \A f, S : SumFunctionOnSet(f, S) = SumOver(f, S)
    /\ \A f : SumFunction(f) = SumOver(f, DOMAIN f)
<1>1. \A f, S : SumFunctionOnSet(f, S) = SumOver(f, S)
  BY Zenon DEF SumFunctionOnSet, FoldFunctionOnSet, SumOver, MapThenSumSet
<1>2. \A f : SumFunction(f) = SumFunctionOnSet(f, DOMAIN f)
  BY Zenon DEF SumFunction
<1> QED
  BY <1>1, <1>2

LEMMA RowsAre ==
    ASSUME LogInv
    PROVE  /\ Rows = 1..Len(log) /\ Len(log) \in Nat /\ IsFiniteSet(Rows) /\ Rows \subseteq Nat
           /\ \A i \in Rows : log[i] \in LogRow /\ RowFits(log[i]) /\ log[i].at <= clock
           /\ \A i \in Rows : CostOf[i] \in Nat
           /\ \A S \in SUBSET Rows : IsFiniteSet(S) /\ Cardinality(S) \in Nat
<1>1. Rows = 1..Len(log) /\ Len(log) \in Nat
  BY DEF LogInv, Rows
<1>2. IsFiniteSet(Rows)
  BY <1>1, FS_Interval
<1>3. \A i \in Rows : log[i] \in LogRow /\ RowFits(log[i]) /\ log[i].at <= clock
  BY DEF LogInv, Rows
<1>4. \A i \in Rows : CostOf[i] \in Nat
  BY <1>3 DEF CostOf, LogRow
<1>5. \A S \in SUBSET Rows : IsFiniteSet(S) /\ Cardinality(S) \in Nat
  BY <1>2, FS_Subset, FS_CardinalityType
<1> QED
  BY <1>1, <1>2, <1>3, <1>4, <1>5

LEMMA SizeWithout ==
    ASSUME NEW S, IsFiniteSet(S), NEW T \in SUBSET S
    PROVE  /\ Cardinality(S) = Cardinality(T) + Cardinality(S \ T)
           /\ Cardinality(S) \in Nat /\ Cardinality(T) \in Nat /\ Cardinality(S \ T) \in Nat
<1>1. S \cap T = T
  OBVIOUS
<1>2. IsFiniteSet(T) /\ IsFiniteSet(S \ T) /\ Cardinality(S \ T) = Cardinality(S) - Cardinality(T)
  BY <1>1, FS_Difference, FS_Subset, ZenonT(30)
<1>3. Cardinality(S) \in Nat /\ Cardinality(T) \in Nat /\ Cardinality(S \ T) \in Nat
  BY <1>2, FS_CardinalityType
<1> QED
  BY <1>2, <1>3

LEMMA CostIs ==
    ASSUME LogInv, NEW S \in SUBSET Rows
    PROVE  /\ Cost(S) = SumOver(CostOf, S) /\ Cost(S) \in Nat
           /\ \A T \in SUBSET S : Cost(T) <= Cost(S)
           /\ \A T \in SUBSET S : (\A i \in S \ T : CostOf[i] = 0) => Cost(T) = Cost(S)
<1>1. IsFiniteSet(S) /\ \A i \in S : CostOf[i] \in Nat
  BY RowsAre
<1>2. \A T : Cost(T) = SumOver(CostOf, T)
  BY SumIs DEF Cost
<1>3. Cost(S) \in Nat
  BY <1>1, <1>2, SumType
<1>4. ASSUME NEW T \in SUBSET S
      PROVE  /\ Cost(T) <= Cost(S) /\ Cost(T) \in Nat
             /\ (\A i \in S \ T : CostOf[i] = 0) => Cost(T) = Cost(S)
  <2>1. IsFiniteSet(T) /\ IsFiniteSet(S \ T) /\ (\A i \in T : CostOf[i] \in Nat)
    BY <1>1, FS_Subset
  <2>2. SumOver(CostOf, T) <= SumOver(CostOf, S)
    BY <1>1, SumSubset
  <2>3. SumOver(CostOf, S) = SumOver(CostOf, T) + SumOver(CostOf, S \ T)
    BY <1>1, SumUnion
  <2>4. (\A i \in S \ T : CostOf[i] = 0) => SumOver(CostOf, S \ T) = 0
    BY <2>1, SumZero
  <2>5. SumOver(CostOf, T) \in Nat
    BY <2>1, SumType
  <2> QED
    BY <1>2, <2>2, <2>3, <2>4, <2>5
<1> QED
  BY <1>2, <1>3, <1>4

(* The groups of some rows: each row is in one, the one of its column.     *)
GroupOf(column, S, i) == [name |-> column[i], rows |-> {j \in S : column[j] = column[i]}]

LEMMA GroupIs ==
    ASSUME LogInv, NEW S \in SUBSET Rows, NEW column, NEW g \in Groups(column, S)
    PROVE  /\ g.rows \in SUBSET S /\ g.rows \in SUBSET Rows
           /\ \E i \in S : column[i] = g.name
           /\ \A i \in S : i \in g.rows <=> g = GroupOf(column, S, i)
<1>1. PICK k \in S : g = GroupOf(column, S, k)
  BY DEF Groups, GroupOf
<1>2. g.name = column[k] /\ g.rows = {j \in S : column[j] = column[k]}
  BY <1>1 DEF GroupOf
<1>3. \A i \in S : column[i] = column[k] => GroupOf(column, S, i) = g
  BY <1>1 DEF GroupOf
<1>4. \A i \in S : GroupOf(column, S, i) = g => column[i] = column[k]
  BY <1>2 DEF GroupOf
<1> QED
  BY <1>1, <1>2, <1>3, <1>4

LEMMA GroupsAre ==
    ASSUME LogInv, NEW S \in SUBSET Rows, NEW column
    PROVE  /\ IsFiniteSet(Groups(column, S))
           /\ \A i \in S : GroupOf(column, S, i) \in Groups(column, S)
<1> DEFINE G == Groups(column, S)
           f == [i \in S |-> GroupOf(column, S, i)]
<1>1. \A g : g \in G <=> \E i \in S : g = GroupOf(column, S, i)
  BY DEF Groups, GroupOf
<1>2. IsFiniteSet(S)
  BY RowsAre
<1>3. f \in Surjection(S, G)
  <2> HIDE DEF G
  <2>1. f \in [S -> G]
    BY <1>1
  <2>2. \A g \in G : \E i \in S : f[i] = g
    BY <1>1
  <2> QED
    BY <2>1, <2>2 DEF Surjection
<1>4. IsFiniteSet(G)
  <2> HIDE DEF G, f
  <2> QED
    BY <1>2, <1>3, FS_Surjection
<1> QED
  BY <1>1, <1>4

LEMMA GroupsAddUp ==
    ASSUME LogInv, NEW S \in SUBSET Rows, NEW column
    PROVE  /\ SumFunction([g \in Groups(column, S) |-> Cost(g.rows)]) = Cost(S)
           /\ SumFunction([g \in Groups(column, S) |-> Cardinality(g.rows)]) = Cardinality(S)
<1> DEFINE G == Groups(column, S)
           c == [i \in S |-> GroupOf(column, S, i)]
           costs == [g \in G |-> Cost(g.rows)]
           sizes == [g \in G |-> Cardinality(g.rows)]
<1>1. IsFiniteSet(G) /\ (\A i \in S : c[i] \in G) /\ IsFiniteSet(S) /\ \A i \in S : CostOf[i] \in Nat
  BY GroupsAre, RowsAre
<1>2. \A g \in G : g.rows = Group(c, S, g) /\ g.rows \in SUBSET Rows
  <2> TAKE g \in G
  <2>1. g.rows \in SUBSET S /\ \A i \in S : i \in g.rows <=> g = GroupOf(column, S, i)
    BY GroupIs
  <2> QED
    BY <2>1 DEF Group
<1>3. DOMAIN costs = G /\ DOMAIN sizes = G
  OBVIOUS
<1>4. \A g \in G : costs[g] = SumOver(CostOf, Group(c, S, g)) /\ sizes[g] = Cardinality(Group(c, S, g))
  <2> TAKE g \in G
  <2>1. Cost(g.rows) = SumOver(CostOf, g.rows)
    BY <1>2, CostIs
  <2> QED
    BY <1>2, <2>1
<1>5. Cost(S) = SumOver(CostOf, S)
  BY CostIs
<1> HIDE DEF G, c, costs, sizes
<1>6. SumOver(costs, G) = SumOver(CostOf, S)
  BY <1>1, <1>4, SumPartition
<1>7. SumOver(sizes, G) = Cardinality(S)
  BY <1>1, <1>4, SizePartition
<1>8. SumFunction(costs) = Cost(S) /\ SumFunction(sizes) = Cardinality(S)
  BY <1>3, <1>5, <1>6, <1>7, SumIs
<1> QED
  BY <1>8 DEF G, costs, sizes

(* The ranking of groups has each of them once, the costliest first.       *)
LEMMA Ranked ==
    ASSUME LogInv, NEW S \in SUBSET Rows, NEW column
    PROVE  LET G == Groups(column, S)
               q == ByCost(G)
               N == Cardinality(G)
           IN  /\ N \in Nat /\ q \in [1..N -> G] /\ q \in Seq(G) /\ Len(q) = N
               /\ \A m, n \in 1..N : m # n => q[m] # q[n]
               /\ \A g \in G : \E n \in 1..N : q[n] = g
               /\ \A m, n \in 1..N : m < n => Cost(q[m].rows) >= Cost(q[n].rows)
<1> DEFINE G == Groups(column, S)
           N == Cardinality(G)
           q == ByCost(G)
           w == [g \in G |-> Cost(g.rows)]
           Good(p) == \A m, n \in DOMAIN p : m < n => Cost(p[m].rows) >= Cost(p[n].rows)
<1>1. IsFiniteSet(G) /\ N \in Nat
  BY GroupsAre, FS_CardinalityType
<1>2. \A g \in G : w[g] \in Nat
  <2> TAKE g \in G
  <2>1. g.rows \in SUBSET Rows
    BY GroupIs
  <2> QED
    BY <2>1, CostIs
<1>3. PICK p \in [1..N -> G] : /\ \A m, n \in 1..N : m # n => p[m] # p[n]
                               /\ \A m, n \in 1..N : m < n => w[p[m]] >= w[p[n]]
  <2> HIDE DEF G, w
  <2> QED
    BY <1>1, <1>2, RankingExists
<1>4. p \in SetToSeqs(G) /\ Good(p)
  <2>1. p \in SetToSeqs(G)
    <3> HIDE DEF G
    <3> QED
      BY <1>3 DEF SetToSeqs
  <2>2. \A n \in 1..N : w[p[n]] = Cost(p[n].rows)
    BY <1>3
  <2> HIDE DEF w, G
  <2> QED
    BY <1>3, <2>1, <2>2
<1>5. q \in SetToSeqs(G) /\ Good(q)
  <2>1. q = CHOOSE p1 \in SetToSeqs(G) : Good(p1)
    BY DEF ByCost
  <2> HIDE DEF G, q, Good
  <2> QED
    BY <1>4, <2>1
<1> HIDE DEF q, G
<1>6. q \in [1..N -> G] /\ \A m, n \in 1..N : m # n => q[m] # q[n]
  BY <1>5 DEF SetToSeqs
<1>7. q \in Seq(G) /\ Len(q) = N
  BY <1>1, <1>6
<1>8. \A g \in G : \E n \in 1..N : q[n] = g
  <2>1. IsFiniteSet(1..N) /\ Cardinality(1..N) = Cardinality(G)
    BY <1>1, FS_Interval
  <2>2. q \in Injection(1..N, G)
    BY <1>6 DEF Injection, IsInjective
  <2>3. q \in Surjection(1..N, G)
    BY <1>1, <2>1, <2>2, FS_Injection
  <2> QED
    BY <2>3 DEF Surjection
<1>9. \A m, n \in 1..N : m < n => Cost(q[m].rows) >= Cost(q[n].rows)
  BY <1>5, <1>6
<1> QED
  BY <1>1, <1>6, <1>7, <1>8, <1>9 DEF G, q

(* What the ranked groups have spent is what their rows cost, and those    *)
(* that are shown have not spent more.                                     *)
LEMMA SpentIs ==
    ASSUME LogInv, NEW S \in SUBSET Rows, NEW column, NEW n \in Nat
    PROVE  LET q == ByCost(Groups(column, S))
               shown == First(q, n)
           IN  /\ Spent(q) = Cost(S) /\ Spent(shown) <= Cost(S)
               /\ Len(shown) < n => Spent(shown) = Cost(S)
               /\ Len(shown) = IF Len(q) < n THEN Len(q) ELSE n
               /\ \A m \in 1..Len(shown) : shown[m] = q[m]
<1> DEFINE G == Groups(column, S)
           q == ByCost(G)
           N == Cardinality(G)
           shown == First(q, n)
           k == IF N < n THEN N ELSE n
           all == [m \in 1..N |-> Cost(q[m].rows)]
           c == [i \in S |-> CHOOSE m \in 1..N : q[m] = GroupOf(column, S, i)]
<1>1. /\ N \in Nat /\ q \in [1..N -> G] /\ q \in Seq(G) /\ Len(q) = N
      /\ \A l, m \in 1..N : l # m => q[l] # q[m]
      /\ \A g \in G : \E m \in 1..N : q[m] = g
  BY Ranked
<1>2. IsFiniteSet(S) /\ (\A i \in S : CostOf[i] \in Nat) /\ IsFiniteSet(1..N)
  <2>1. IsFiniteSet(S) /\ \A i \in S : CostOf[i] \in Nat
    BY RowsAre
  <2>2. N \in Int /\ 1 \in Int
    BY <1>1
  <2> HIDE DEF N
  <2> QED
    BY <2>1, <2>2, FS_Interval
<1>3. \A i \in S : c[i] \in 1..N /\ q[c[i]] = GroupOf(column, S, i)
  <2> TAKE i \in S
  <2>1. GroupOf(column, S, i) \in G
    BY GroupsAre
  <2> HIDE DEF G, q, N
  <2> QED
    BY <1>1, <2>1
<1>4. ASSUME NEW m \in 1..N PROVE q[m].rows = Group(c, S, m) /\ q[m].rows \in SUBSET Rows
  <2>1. q[m] \in G
    BY <1>1
  <2>2. q[m].rows \in SUBSET S /\ \A i \in S : i \in q[m].rows <=> q[m] = GroupOf(column, S, i)
    <3>1. \A g \in G : g.rows \in SUBSET S
                      /\ \A i \in S : i \in g.rows <=> g = GroupOf(column, S, i)
      BY GroupIs
    <3> HIDE DEF q, G, N
    <3> QED
      BY <2>1, <3>1
  <2> HIDE DEF c, q, G, N
  <2>3. \A i \in S : i \in q[m].rows <=> c[i] = m
    BY <1>1, <1>3, <2>2
  <2> QED
    BY <2>2, <2>3 DEF Group
<1>5. \A m \in 1..N : all[m] = SumOver(CostOf, Group(c, S, m)) /\ all[m] \in Nat
  <2> TAKE m \in 1..N
  <2>1. Cost(q[m].rows) = SumOver(CostOf, q[m].rows) /\ Cost(q[m].rows) \in Nat
    BY <1>4, CostIs
  <2> HIDE DEF c, q, N
  <2> QED
    BY <1>4, <2>1
<1>6. Cost(S) = SumOver(CostOf, S)
  BY CostIs
<1>7. SumOver(all, 1..N) = Cost(S)
  <2>1. \A i \in S : c[i] \in 1..N
    BY <1>3
  <2> DEFINE D == 1..N
  <2>2. IsFiniteSet(D) /\ (\A i \in S : c[i] \in D)
        /\ \A m \in D : all[m] = SumOver(CostOf, Group(c, S, m))
    BY <1>2, <1>5, <2>1
  <2> HIDE DEF all, c, N, D
  <2>3. SumOver(all, D) = SumOver(CostOf, S)
    BY <1>2, <2>2, SumPartition
  <2> QED
    BY <1>6, <2>3 DEF D
<1>8. Spent(q) = Cost(S)
  <2>1. DOMAIN q = 1..N
    BY <1>1
  <2>2. Spent(q) = SumFunction(all)
    BY <2>1 DEF Spent
  <2>3. DOMAIN all = 1..N
    OBVIOUS
  <2> HIDE DEF all, q, N
  <2> QED
    BY <1>7, <2>2, <2>3, SumIs
<1>9. k \in Nat /\ k <= N /\ k <= n
  BY <1>1
<1>10. Len(shown) = k /\ DOMAIN shown = 1..k /\ \A m \in 1..k : shown[m] = q[m]
  <2>1. shown = SubSeq(q, 1, k)
    BY <1>1 DEF First
  <2> HIDE DEF shown, q, N, k, G
  <2> QED
    BY <1>1, <1>9, <2>1
<1>11. Spent(shown) = SumOver(all, 1..k)
  <2> DEFINE part == [m \in DOMAIN shown |-> Cost(shown[m].rows)]
  <2>1. DOMAIN part = 1..k /\ Spent(shown) = SumFunction(part)
    BY <1>10 DEF Spent
  <2>2. \A m \in 1..k : m \in 1..N
    BY <1>1, <1>9
  <2>3. \A m \in 1..k : part[m] = all[m] /\ all[m] \in Nat
    BY <1>5, <1>10, <2>2
  <2>4. IsFiniteSet(1..k)
    BY <1>9, FS_Interval
  <2> HIDE DEF part, shown, all, k, q, N
  <2>5. SumOver(part, 1..k) = SumOver(all, 1..k)
    BY <2>3, <2>4, SumEqual
  <2> QED
    BY <2>1, <2>5, SumIs
<1>12. SumOver(all, 1..k) <= SumOver(all, 1..N)
  <2>1. 1..k \in SUBSET (1..N)
    BY <1>1, <1>9
  <2> HIDE DEF all, k, q, N
  <2> QED
    BY <1>2, <1>5, <2>1, SumSubset
<1>13. k < n => k = N
  BY <1>1
<1> HIDE DEF all, k, c, N
<1> QED
  BY <1>1, <1>7, <1>8, <1>10, <1>11, <1>12, <1>13 DEF k, N

-----------------------------------------------------------------------------
(* Days and months.                                                        *)
LEMMA Quotient ==
    ASSUME NEW t \in Nat, NEW m \in Nat \ {0}
    PROVE  t \div m \in Nat /\ \A a \in Nat : a * m <= t <=> a <= t \div m
<1> DEFINE q == t \div m
<1>1. q \in Nat /\ m * q <= t /\ t < m * q + m
  OBVIOUS
<1> HIDE DEF q
<1>2. ASSUME NEW a \in Nat, a <= q PROVE a * m <= t
  <2>1. m * a <= m * q
    BY <1>1, <1>2
  <2> QED
    BY <1>1, <2>1
<1>3. ASSUME NEW a \in Nat, q + 1 <= a PROVE ~(a * m <= t)
  <2>1. m * (q + 1) <= m * a
    BY <1>1, <1>3
  <2>2. m * (q + 1) = m * q + m
    BY <1>1
  <2>3. a * m = m * a /\ m * a \in Nat /\ m * q \in Nat
    BY <1>1
  <2> QED
    BY <1>1, <2>1, <2>2, <2>3
<1>4. \A a \in Nat : a <= q \/ q + 1 <= a
  BY <1>1
<1>5. \A a \in Nat : a * m <= t <=> a <= q
  BY <1>2, <1>3, <1>4
<1> QED
  BY <1>1, <1>5 DEF q

LEMMA MonthOfDay ==
    ASSUME LogInv, NEW k, NEW month \in Nat, NEW i \in OfKey(k, Rows)
    PROVE  /\ i \in InMonth(k, month) <=> /\ month * MonthDays <= LogDay(i)
                                          /\ LogDay(i) < month * MonthDays + MonthDays
           /\ LogDay(i) \in Nat /\ month * MonthDays \in Nat
<1> DEFINE t == log[i].at
           a == month * MonthDays
           b == (month + 1) * MonthDays
<1>1. MonthDays \in Nat \ {0} /\ DayTicks \in Nat \ {0}
  BY ReportsAssumption
<1>2. t \in Nat
  BY RowsAre DEF OfKey, LogRow
<1>3. a \in Nat /\ b \in Nat /\ b = a + MonthDays
  BY <1>1
<1>4. i \in InMonth(k, month) <=> t >= a * DayTicks /\ t < b * DayTicks
  BY DEF InMonth
<1>5. LogDay(i) = t \div DayTicks
  BY DEF LogDay, DayOf
<1> HIDE DEF t, a, b
<1>6. /\ t \div DayTicks \in Nat
      /\ a * DayTicks <= t <=> a <= t \div DayTicks
      /\ b * DayTicks <= t <=> b <= t \div DayTicks
  BY <1>1, <1>2, <1>3, Quotient
<1>7. a * DayTicks \in Nat /\ b * DayTicks \in Nat
  BY <1>1, <1>3
<1>8. i \in InMonth(k, month) <=> a <= LogDay(i) /\ LogDay(i) < a + MonthDays
  BY <1>1, <1>2, <1>3, <1>4, <1>5, <1>6, <1>7
<1> QED
  BY <1>3, <1>5, <1>6, <1>8 DEF a

(* The row of a single request: it is the row of no other.                 *)
LEMMA OnlyRow ==
    ASSUME LogInv, NEW i \in Rows, ~Reused(i)
    PROVE  \E c \in DOMAIN calls : /\ calls[c].row = i /\ OwnRow(log[i], calls[c])
                                   /\ \A d \in DOMAIN calls : calls[d].row = i => d = c
<1>1. PICK c \in DOMAIN calls : calls[c].row = i /\ OwnRow(log[i], calls[c])
  BY DEF LogInv, Owned, Rows
<1>2. \A d \in DOMAIN calls : calls[d].row = i => d = c
  BY <1>1 DEF Reused
<1> QED
  BY <1>1, <1>2

(* A request fails for a report that asks for its kind exactly when it is  *)
(* not a success for one that asks for its status, unless its id was used  *)
(* again.                                                                  *)
LEMMA FailsOrSucceeds ==
    ASSUME LogInv, NEW i \in Rows
    PROVE  /\ IsFail(i) <=> \/ ~(log[i].status # Null /\ log[i].status < 400)
                            \/ Reused(i) /\ log[i].kind # Null
           /\ ~Reused(i) => (IsFail(i) <=> log[i].status = Null \/ log[i].kind # Null)
           /\ ~Reused(i) /\ log[i].status # Null => (IsFail(i) <=> log[i].status >= 400)
<1>1. log[i] \in LogRow
  BY RowsAre
<1>2. log[i].status # Null => log[i].status \in 200..599
  BY <1>1 DEF LogRow, StatusColumn
<1>3. ~Reused(i) /\ log[i].status # Null => (log[i].kind = Null <=> log[i].status < 400)
  BY OnlyRow DEF OwnRow
<1> QED
  BY <1>2, <1>3 DEF IsFail

LEMMA EveryRequestIsReported == ASSUME LogInv PROVE EveryRequestReported
<1> SUFFICES ASSUME NEW i \in Keyed(Rows)
             PROVE  Cardinality({m \in 0..(DayOf(clock) \div MonthDays) :
                                    i \in InMonth(log[i].key, m)}) = 1
  BY DEF EveryRequestReported
<1> DEFINE k == log[i].key
           day == LogDay(i)
           q == day \div MonthDays
           last == DayOf(clock) \div MonthDays
<1>1. MonthDays \in Nat \ {0} /\ DayTicks \in Nat \ {0}
  BY ReportsAssumption
<1>2. i \in Rows /\ i \in OfKey(k, Rows) /\ log[i].at \in Nat /\ log[i].at <= clock /\ clock \in Nat
  <2>1. i \in Rows
    BY DEF Keyed
  <2>2. log[i] \in LogRow /\ log[i].at <= clock
    BY <2>1, RowsAre
  <2> QED
    BY <2>1, <2>2 DEF OfKey, LogInv, LogRow
<1>3. day \in Nat /\ day <= DayOf(clock) /\ DayOf(clock) \in Nat
  <2>1. day = log[i].at \div DayTicks /\ DayOf(clock) = clock \div DayTicks
    BY DEF LogDay, DayOf
  <2>2. day \in Nat /\ day * DayTicks <= log[i].at
    BY <1>1, <1>2, <2>1, Quotient
  <2>3. day * DayTicks <= clock
    BY <1>1, <1>2, <2>2
  <2> HIDE DEF day
  <2> QED
    BY <1>1, <1>2, <2>1, <2>2, <2>3, Quotient
<1> HIDE DEF k, day
<1>4. /\ q \in Nat /\ q * MonthDays <= day
      /\ \A m \in Nat : m * MonthDays <= day <=> m <= q
  BY <1>1, <1>3, Quotient
<1>5. last \in Nat /\ q <= last
  <2>1. q * MonthDays <= DayOf(clock)
    BY <1>1, <1>3, <1>4
  <2> HIDE DEF q
  <2> QED
    BY <1>1, <1>3, <1>4, <2>1, Quotient
<1> HIDE DEF q, last
<1>6. \A m \in Nat : i \in InMonth(k, m) <=> m = q
  <2> TAKE m \in Nat
  <2>1. i \in InMonth(k, m) <=> m * MonthDays <= day /\ day < m * MonthDays + MonthDays
    BY <1>2, MonthOfDay DEF day
  <2>2. m + 1 \in Nat /\ (m + 1) * MonthDays = m * MonthDays + MonthDays /\ m * MonthDays \in Nat
    BY <1>1
  <2>3. m * MonthDays <= day <=> m <= q
    BY <1>4
  <2>4. (m + 1) * MonthDays <= day <=> m + 1 <= q
    BY <1>4, <2>2
  <2> QED
    BY <1>1, <1>3, <1>4, <2>1, <2>2, <2>3, <2>4
<1>7. {m \in 0..last : i \in InMonth(k, m)} = {q}
  BY <1>4, <1>5, <1>6
<1> QED
  BY <1>7, FS_Singleton DEF k, last

LEMMA MonthsAlwaysAddUp == ASSUME LogInv PROVE MonthsAddUp
<1> SUFFICES ASSUME NEW k \in LogKey, NEW month \in 0..(DayOf(clock) \div MonthDays)
             PROVE
        LET r == MonthlyReport(k, month)
            S == UNION {r.daily[d] : d \in DOMAIN r.daily}
            daily(f) == SumFunction([d \in 0..MonthDays - 1 |->
                                        DayUsage(month * MonthDays + d, OfKey(k, Rows))[f]])
        IN /\ r.requests = Sizes(r.daily)
           /\ r.requests = daily("requests")
           /\ r.successful + Cardinality(Misread(S)) = daily("successes")
           /\ r.failed = SumFunction([g \in r.errors |-> Cardinality(g.rows)])
           /\ r.cost = Cost(S) /\ Spent(r.topModels) <= r.cost
           /\ Len(r.topModels) < Top => Spent(r.topModels) = r.cost
  BY DEF MonthsAddUp
<1> DEFINE r == MonthlyReport(k, month)
           S0 == InMonth(k, month)
           fails == {i \in S0 : IsFail(i)}
           S1 == S0 \ fails
           S2 == Below400(S0)
           base == month * MonthDays
           D == 0..(MonthDays - 1)
           c == [i \in S0 |-> LogDay(i) - base]
           requests == [d \in D |-> DayUsage(base + d, OfKey(k, Rows))["requests"]]
           successes == [d \in D |-> DayUsage(base + d, OfKey(k, Rows))["successes"]]
           sizes == [d \in D |-> Cardinality({i \in S0 : LogDay(i) - base = d})]
<1>1. /\ r.requests = Cardinality(S0) /\ r.successful = Cardinality(S1) /\ r.failed = Cardinality(fails)
      /\ r.cost = Cost(S0) /\ r.daily = [d \in D |-> {i \in S0 : LogDay(i) - base = d}]
      /\ r.topModels = First(ByCost(Groups(ModelOfRow, S0)), Top)
      /\ r.errors = Groups(KindOfRow, fails)
  BY DEF MonthlyReport
<1>2. MonthDays \in Nat \ {0} /\ Top \in Nat /\ month \in Nat
  <2>1. MonthDays \in Nat \ {0} /\ Top \in Nat
    BY ReportsAssumption
  <2> QED
    BY <2>1
<1>3. S0 \in SUBSET OfKey(k, Rows) /\ OfKey(k, Rows) \in SUBSET Rows
      /\ fails \in SUBSET Rows /\ S1 \in SUBSET Rows /\ S0 \in SUBSET Rows
      /\ S2 \in SUBSET S0 /\ S2 \in SUBSET Rows /\ Misread(S0) \in SUBSET S2
  BY DEF InMonth, OfKey, Below400, Misread
<1>4. \A i \in OfKey(k, Rows) :
          /\ i \in S0 <=> base <= LogDay(i) /\ LogDay(i) < base + MonthDays
          /\ LogDay(i) \in Nat /\ base \in Nat
  BY <1>2, MonthOfDay
<1> HIDE DEF r, S0, base
<1>5. \A i \in S0 : c[i] \in D /\ c[i] = LogDay(i) - base
  <2> TAKE i \in S0
  <2>1. i \in OfKey(k, Rows)
    BY <1>3
  <2>2. base <= LogDay(i) /\ LogDay(i) < base + MonthDays /\ LogDay(i) \in Nat /\ base \in Nat
    BY <1>4, <2>1
  <2> QED
    BY <1>2, <2>2
<1>6. \A d \in D, i \in OfKey(k, Rows) : LogDay(i) = base + d <=> i \in S0 /\ c[i] = d
  <2> TAKE d \in D, i \in OfKey(k, Rows)
  <2>1. LogDay(i) = base + d => i \in S0
    BY <1>2, <1>4
  <2>2. i \in S0 => c[i] = LogDay(i) - base
    OBVIOUS
  <2> HIDE DEF c
  <2> QED
    BY <1>4, <2>1, <2>2
<1>7. IsFiniteSet(S0) /\ IsFiniteSet(S2) /\ IsFiniteSet(D)
  <2>1. 0 \in Int /\ MonthDays - 1 \in Int
    BY <1>2
  <2>2. IsFiniteSet(D)
    BY <2>1, FS_Interval
  <2> HIDE DEF D, S2
  <2> QED
    BY <1>3, <2>2, RowsAre
<1>8. \A i \in OfKey(k, Rows) : i \in S2 <=> i \in S0 /\ i \in Below400(OfKey(k, Rows))
  BY DEF Below400
<1>21. S1 = S2 \ Misread(S0)
  <2>1. \A i \in S0 : i \in S1 <=> ~IsFail(i)
    OBVIOUS
  <2>2. \A i \in S0 : i \in S2 \ Misread(S0) <=>
           /\ log[i].status # Null /\ log[i].status < 400
           /\ ~(Reused(i) /\ log[i].kind # Null)
    BY DEF Below400, Misread
  <2>3. \A i \in S0 : i \in S1 <=> i \in S2 \ Misread(S0)
    <3> TAKE i \in S0
    <3>1. i \in Rows
      BY <1>3
    <3> HIDE DEF S1, S2
    <3> QED
      BY <2>1, <2>2, <3>1, FailsOrSucceeds
  <2>4. S1 \subseteq S0 /\ S2 \subseteq S0
    BY <1>3
  <2> HIDE DEF S1, S2
  <2> QED
    BY <2>3, <2>4
<1>9. \A d \in D : /\ {i \in OfKey(k, Rows) : LogDay(i) = base + d} = Group(c, S0, d)
                   /\ {i \in Below400(OfKey(k, Rows)) : LogDay(i) = base + d} = Group(c, S2, d)
                   /\ {i \in S0 : LogDay(i) - base = d} = Group(c, S0, d)
  <2> TAKE d \in D
  <2>1. Below400(OfKey(k, Rows)) \in SUBSET OfKey(k, Rows)
    BY DEF Below400
  <2>2. S2 \in SUBSET S0
    BY <1>3
  <2>3. {i \in S0 : LogDay(i) - base = d} = Group(c, S0, d)
    BY DEF Group
  <2> HIDE DEF c, S2, D
  <2>4. {i \in OfKey(k, Rows) : LogDay(i) = base + d} = Group(c, S0, d)
    BY <1>3, <1>6 DEF Group
  <2>5. {i \in Below400(OfKey(k, Rows)) : LogDay(i) = base + d} = Group(c, S2, d)
    BY <1>3, <1>6, <1>8, <2>1, <2>2 DEF Group
  <2> QED
    BY <2>3, <2>4, <2>5
<1>10. \A d \in D : /\ requests[d] = Cardinality(Group(c, S0, d))
                    /\ successes[d] = Cardinality(Group(c, S2, d))
                    /\ sizes[d] = Cardinality(Group(c, S0, d))
  <2> TAKE d \in D
  <2>1. /\ requests[d] = Cardinality({i \in OfKey(k, Rows) : LogDay(i) = base + d})
        /\ successes[d] = Cardinality({i \in Below400(OfKey(k, Rows)) : LogDay(i) = base + d})
    BY DEF DayUsage
  <2>2. sizes[d] = Cardinality({i \in S0 : LogDay(i) - base = d})
    OBVIOUS
  <2> HIDE DEF requests, successes, sizes, D, c, S2
  <2> QED
    BY <1>9, <2>1, <2>2
<1>11. (\A i \in S0 : c[i] \in D) /\ (\A i \in S2 : c[i] \in D)
  BY <1>3, <1>5
<1>12. DOMAIN requests = D /\ DOMAIN successes = D /\ DOMAIN sizes = D
  OBVIOUS
<1>13. Sizes(r.daily) = SumFunction(sizes)
  BY <1>1 DEF Sizes
<1>14. UNION {r.daily[d] : d \in DOMAIN r.daily} = S0
  <2>1. DOMAIN r.daily = D /\ \A d \in D : r.daily[d] = {i \in S0 : LogDay(i) - base = d}
    BY <1>1
  <2>2. \A i \in S0 : i \in r.daily[c[i]] /\ c[i] \in D
    <3> TAKE i \in S0
    <3>1. c[i] \in D /\ c[i] = LogDay(i) - base
      BY <1>5
    <3> HIDE DEF c, D
    <3> QED
      BY <2>1, <3>1
  <2> HIDE DEF c, D
  <2> QED
    BY <2>1, <2>2
<1>22. Cardinality(S2) = Cardinality(S1) + Cardinality(Misread(S0))
  <2>1. /\ Cardinality(S2) = Cardinality(Misread(S0)) + Cardinality(S2 \ Misread(S0))
        /\ Cardinality(Misread(S0)) \in Nat /\ Cardinality(S2 \ Misread(S0)) \in Nat
    <3> HIDE DEF S2
    <3> QED
      BY <1>3, <1>7, SizeWithout
  <2> HIDE DEF S1, S2
  <2> QED
    BY <1>21, <2>1
<1> HIDE DEF requests, successes, sizes, D, c, S1, S2, fails
<1>15. SumOver(requests, D) = Cardinality(S0) /\ SumOver(sizes, D) = Cardinality(S0)
  BY <1>7, <1>10, <1>11, SizePartition
<1>16. SumOver(successes, D) = Cardinality(S2)
  BY <1>7, <1>10, <1>11, SizePartition
<1>17. SumFunction(requests) = Cardinality(S0) /\ SumFunction(sizes) = Cardinality(S0)
       /\ SumFunction(successes) = Cardinality(S2)
  BY <1>12, <1>15, <1>16, SumIs
<1>18. r.failed = SumFunction([g \in r.errors |-> Cardinality(g.rows)])
  <2>1. SumFunction([g \in Groups(KindOfRow, fails) |-> Cardinality(g.rows)]) = Cardinality(fails)
    BY <1>3, GroupsAddUp
  <2> QED
    BY <1>1, <2>1
<1>19. Spent(r.topModels) <= r.cost /\ (Len(r.topModels) < Top => Spent(r.topModels) = r.cost)
  <2>1. LET shown == First(ByCost(Groups(ModelOfRow, S0)), Top)
        IN  Spent(shown) <= Cost(S0) /\ (Len(shown) < Top => Spent(shown) = Cost(S0))
    BY <1>2, <1>3, SpentIs
  <2> QED
    BY <1>1, <2>1
<1>20. /\ r.requests = Sizes(r.daily) /\ r.requests = SumFunction(requests)
       /\ r.successful + Cardinality(Misread(UNION {r.daily[d] : d \in DOMAIN r.daily}))
             = SumFunction(successes)
       /\ r.cost = Cost(UNION {r.daily[d] : d \in DOMAIN r.daily})
  BY <1>1, <1>13, <1>14, <1>17, <1>22
<1> QED
  BY <1>18, <1>19, <1>20 DEF requests, successes, base, D, r

-----------------------------------------------------------------------------
(* What a window has cost.                                                 *)
LEMMA OnlyAnswersCost ==
    ASSUME LogInv, NEW S \in SUBSET Rows
    PROVE  /\ Cost(Billed(S)) = Cost(S)
           /\ Cost(S) = Cost(Keyed(S)) + Cost({i \in S \ Keyed(Rows) : Reused(i)})
<1> DEFINE A == S \ Keyed(S)
           R == {i \in S \ Keyed(Rows) : Reused(i)}
<1>1. Billed(S) \in SUBSET S /\ \A i \in S \ Billed(S) : CostOf[i] = 0
  BY DEF Billed, CostOf
<1>2. Keyed(S) \in SUBSET S /\ A \in SUBSET Rows /\ R \in SUBSET A /\ S \ Keyed(S) = A
      /\ A \in SUBSET S /\ \A i \in A \ R : i \in Rows /\ ~Reused(i) /\ log[i].key = Null
  BY DEF Keyed, Anon
<1>3. \A i \in A \ R : CostOf[i] = 0
  <2> SUFFICES ASSUME NEW i \in A \ R PROVE CostOf[i] = 0
    OBVIOUS
  <2>1. i \in Rows /\ ~Reused(i) /\ log[i].key = Null
    BY <1>2
  <2>2. log[i].cost = Null
    BY <2>1, OnlyRow DEF OwnRow
  <2> QED
    BY <2>1, <2>2 DEF CostOf
<1> HIDE DEF A, R
<1>4. Cost(R) = Cost(A)
  BY <1>2, <1>3, CostIs
<1>5. Cost(S) = Cost(Keyed(S)) + Cost(A)
  <2>1. IsFiniteSet(S) /\ \A i \in S : CostOf[i] \in Nat
    BY RowsAre
  <2>2. SumOver(CostOf, S) = SumOver(CostOf, Keyed(S)) + SumOver(CostOf, S \ Keyed(S))
    BY <1>2, <2>1, SumUnion
  <2>3. \A T : Cost(T) = SumOver(CostOf, T)
    BY SumIs DEF Cost
  <2> QED
    BY <1>2, <2>2, <2>3
<1> QED
  BY <1>1, <1>4, <1>5, CostIs DEF R

LEMMA BoardIsRight ==
    ASSUME LogInv, NEW days \in Nat, NEW r \in ToSet(Leaderboard(days).rows)
    PROVE  /\ KeyCost(r.name, days).requests = Cardinality(r.rows)
           /\ \A k \in LogKey : KeyCost(k, days).cost <= Cost(r.rows)
                                \/ Len(Leaderboard(days).rows) > 1
<1> DEFINE S == Since(days)
           K == Keyed(S)
           G == Groups(KeyOfRow, K)
           all == ByCost(G)
           shown == First(all, Top)
           N == Cardinality(G)
<1>1. Leaderboard(days).rows = shown
  BY DEF Leaderboard
<1>2. S \in SUBSET Rows /\ K \in SUBSET Rows /\ K \in SUBSET S
  BY DEF Since, Keyed
<1>3. Top \in Nat \ {0}
  BY ReportsAssumption
<1>4. /\ N \in Nat /\ all \in [1..N -> G] /\ all \in Seq(G) /\ Len(all) = N
      /\ \A g \in G : \E n \in 1..N : all[n] = g
      /\ \A m, n \in 1..N : m < n => Cost(all[m].rows) >= Cost(all[n].rows)
  <2> HIDE DEF K
  <2> QED
    BY <1>2, Ranked
<1>5. /\ Len(shown) = (IF Len(all) < Top THEN Len(all) ELSE Top)
      /\ \A m \in 1..Len(shown) : shown[m] = all[m]
  <2> HIDE DEF K
  <2> QED
    BY <1>2, <1>3, SpentIs
<1>6. DOMAIN shown = 1..Len(shown)
  <2>1. shown = SubSeq(all, 1, IF N < Top THEN N ELSE Top)
    BY <1>4 DEF First
  <2> HIDE DEF shown, all, N, G
  <2> QED
    BY <1>3, <1>4, <2>1
<1>7. PICK m \in 1..Len(shown) : r = all[m]
  <2>1. r \in ToSet(shown)
    BY <1>1
  <2>2. PICK m \in DOMAIN shown : r = shown[m]
    BY <2>1 DEF ToSet
  <2> HIDE DEF shown, all
  <2> QED
    BY <1>5, <1>6, <2>2
<1>8. m \in 1..N /\ r \in G
  <2> HIDE DEF shown, all, N, G
  <2> QED
    BY <1>3, <1>4, <1>5, <1>7
<1>9. /\ \E i \in K : KeyOfRow[i] = r.name
      /\ r.rows \in SUBSET K /\ \A i \in K : i \in r.rows <=> KeyOfRow[i] = r.name
  <2> HIDE DEF K, G
  <2>0. r \in Groups(KeyOfRow, K) /\ K \in SUBSET Rows
    BY <1>2, <1>8 DEF G
  <2>1. \E i \in K : KeyOfRow[i] = r.name
    BY <2>0 DEF Groups
  <2>2. r.rows \in SUBSET K
    BY <2>0, GroupIs
  <2>3. \A i \in K : i \in r.rows <=> KeyOfRow[i] = r.name
    BY <2>0 DEF Groups
  <2> QED
    BY <2>1, <2>2, <2>3
<1>10. r.name # Null
  BY <1>2, <1>9 DEF KeyOfRow, Keyed, Anon
<1>11. r.rows = OfKey(r.name, S)
  <2>1. \A i \in S : i \in K <=> log[i].key # Null
    BY DEF Keyed, Anon
  <2>2. \A i \in Rows : KeyOfRow[i] = log[i].key
    BY DEF KeyOfRow
  <2> HIDE DEF K, S
  <2> QED
    BY <1>2, <1>9, <1>10, <2>1, <2>2 DEF OfKey
<1>12. KeyCost(r.name, days).requests = Cardinality(OfKey(r.name, S))
  BY DEF KeyCost
<1>13. ASSUME NEW k \in LogKey, ~(Len(shown) > 1) PROVE KeyCost(k, days).cost <= Cost(r.rows)
  <2> DEFINE C == Billed(OfKey(k, S))
  <2>1. m = 1
    <3> HIDE DEF shown
    <3>1. Len(shown) \in Nat
      <4> HIDE DEF all, N
      <4> QED
        BY <1>3, <1>4, <1>5
    <3> QED
      BY <1>7, <1>13, <3>1
  <2>2. KeyCost(k, days).cost = Cost(C)
    BY DEF KeyCost
  <2>3. r.rows \in SUBSET Rows /\ Cost(r.rows) \in Nat
    <3>1. r.rows \in SUBSET Rows
      <4> HIDE DEF K
      <4> QED
        BY <1>2, <1>9
    <3> QED
      BY <3>1, CostIs
  <2>4. CASE C = {}
    <3>1. {} \in SUBSET r.rows
      OBVIOUS
    <3> HIDE DEF C
    <3> QED
      BY <2>2, <2>3, <2>4, <3>1, CostIs
  <2>5. CASE C # {}
    <3>1. PICK i \in C : TRUE
      BY <2>5
    <3>2. i \in K /\ KeyOfRow[i] = k
      <4>1. i \in S /\ log[i].key = k /\ k # Null
        BY ReportsAssumption DEF Billed, OfKey
      <4> QED
        BY <1>2, <4>1 DEF Keyed, Anon, KeyOfRow
    <3> DEFINE g == GroupOf(KeyOfRow, K, i)
    <3>3. g \in G /\ g.rows \in SUBSET Rows
      <4>1. g \in G
        <5> HIDE DEF K
        <5> QED
          BY <1>2, <3>2, GroupsAre
      <4> QED
        BY <1>2, <4>1 DEF GroupOf
    <3>4. C \in SUBSET g.rows
      <4>1. \A j \in C : j \in S /\ log[j].key = k /\ k # Null
        BY ReportsAssumption DEF Billed, OfKey
      <4>2. \A j \in C : j \in K /\ KeyOfRow[j] = k
        BY <1>2, <4>1 DEF Keyed, Anon, KeyOfRow
      <4> HIDE DEF C, K
      <4> QED
        BY <3>2, <4>2 DEF GroupOf
    <3> HIDE DEF g, C
    <3>5. Cost(C) <= Cost(g.rows) /\ Cost(g.rows) \in Nat
      BY <3>3, <3>4, CostIs
    <3>6. Cost(C) \in Nat
      <4>1. C \in SUBSET Rows
        BY <3>3, <3>4
      <4> QED
        BY <4>1, CostIs
    <3>7. Cost(g.rows) <= Cost(r.rows)
      <4> HIDE DEF G, all, N, K
      <4>1. PICK n \in 1..N : all[n] = g
        BY <1>4, <3>3
      <4>2. 1 \in 1..N /\ r = all[1]
        BY <1>7, <1>8, <2>1
      <4>3. CASE n = 1
        BY <2>3, <4>1, <4>2, <4>3
      <4>4. CASE n # 1
        <5>1. 1 < n
          BY <1>4, <4>4
        <5>2. Cost(all[1].rows) >= Cost(all[n].rows)
          BY <1>4, <4>2, <5>1
        <5> QED
          BY <2>3, <3>5, <4>1, <4>2, <5>2
      <4> QED
        BY <4>3, <4>4
    <3> QED
      BY <2>2, <2>3, <3>5, <3>6, <3>7
  <2> QED
    BY <2>4, <2>5
<1> HIDE DEF shown
<1> QED
  BY <1>1, <1>11, <1>12, <1>13

LEMMA OrgsAddUp ==
    ASSUME LogInv, NEW days \in Nat, NEW o \in OrgCosts(days)
    PROVE  Cost(UNION {p.rows : p \in {q \in ProjectCosts(days) : q.name.org = o.name}}) <= Cost(o.rows)
<1> DEFINE I == InOrg(Since(days))
           orgs == [i \in InOrg(Rows) |-> Org[log[i].key].org]
           projects == [i \in InOrg(Rows) |-> Org[log[i].key]]
           P == {i \in I : Org[log[i].key].project # Null}
           U == UNION {p.rows : p \in {q \in ProjectCosts(days) : q.name.org = o.name}}
<1>1. /\ OrgCosts(days) = Groups(orgs, I) /\ ProjectCosts(days) = Groups(projects, P)
      /\ I \in SUBSET Rows /\ P \in SUBSET I /\ P \in SUBSET Rows /\ I \in SUBSET InOrg(Rows)
  BY DEF OrgCosts, ProjectCosts, InOrg, Since
<1>2. \A i \in I : orgs[i] = projects[i].org
  BY <1>1
<1> HIDE DEF orgs, projects, P, I
<1>3. o.rows \in SUBSET Rows /\ \A i \in I : i \in o.rows <=> orgs[i] = o.name
  <2>1. o \in Groups(orgs, I) /\ I \in SUBSET Rows
    BY <1>1
  <2>2. o.rows \in SUBSET Rows
    BY <2>1, GroupIs
  <2>3. \A i \in I : i \in o.rows <=> orgs[i] = o.name
    BY <2>1 DEF Groups
  <2> QED
    BY <2>2, <2>3
<1>4. \A p \in ProjectCosts(days) :
          p.rows \in SUBSET P /\ \A i \in P : i \in p.rows <=> projects[i] = p.name
  <2> TAKE p \in ProjectCosts(days)
  <2>1. p \in Groups(projects, P) /\ P \in SUBSET Rows
    BY <1>1
  <2>2. p.rows \in SUBSET P
    BY <2>1, GroupIs
  <2>3. \A i \in P : i \in p.rows <=> projects[i] = p.name
    BY <2>1 DEF Groups
  <2> QED
    BY <2>2, <2>3
<1>5. U \in SUBSET o.rows
  <2> SUFFICES ASSUME NEW p \in ProjectCosts(days), p.name.org = o.name, NEW i \in p.rows
               PROVE  i \in o.rows
    OBVIOUS
  <2>1. i \in P /\ projects[i] = p.name
    BY <1>4
  <2> QED
    BY <1>1, <1>2, <1>3, <2>1
<1> HIDE DEF U
<1>6. Cost(U) <= Cost(o.rows)
  BY <1>3, <1>5, CostIs
<1> QED
  BY <1>6 DEF U

LEMMA SpendAlwaysAgrees == ASSUME LogInv PROVE SpendAgrees
<1> SUFFICES ASSUME NEW s \in DOMAIN Scopes
             PROVE
        LET days == Scopes[s]  total == Cost(Since(days))  board == Leaderboard(days) IN
        /\ total = board.window + Cost({i \in Since(days) \ Keyed(Rows) : Reused(i)})
        /\ total = Spent(ModelCosts(days))
        /\ total = SumFunction([g \in CostTrend(days) |-> Cost(g.rows)])
        /\ total = BudgetSpend("global", Null, days) /\ total = BudgetSpend("vk", Null, days)
        /\ s = "day" => total = Dashboard.costToday
        /\ s = "week" => total = Dashboard.costWeek /\ total = WeeklyReport.cost
        /\ \A k \in LogKey : KeyCost(k, days).cost = BudgetSpend("vk", k, days)
        /\ \A r \in ToSet(board.rows) :
              /\ KeyCost(r.name, days).requests = Cardinality(r.rows)
              /\ \A k \in LogKey : KeyCost(k, days).cost <= Cost(r.rows) \/ Len(board.rows) > 1
        /\ \A o \in OrgCosts(days) :
              Cost(UNION {p.rows : p \in {q \in ProjectCosts(days) : q.name.org = o.name}}) <= Cost(o.rows)
  BY DEF SpendAgrees
<1> DEFINE days == Scopes[s]
           S == Since(days)
           total == Cost(S)
<1>1. days \in Nat /\ Scopes["day"] = 1 /\ 0 \in Nat
  BY ReportsAssumption
<1>2. /\ S \in SUBSET Rows /\ Keyed(S) \in SUBSET Rows /\ Billed(S) \in SUBSET Rows
  BY DEF Since, Keyed, Billed
<1>3. /\ Cost(Billed(S)) = total
      /\ total = Cost(Keyed(S)) + Cost({i \in S \ Keyed(Rows) : Reused(i)})
  BY <1>2, OnlyAnswersCost
<1>4. total = Leaderboard(days).window + Cost({i \in S \ Keyed(Rows) : Reused(i)})
  <2>1. Leaderboard(days).window = Spent(ByCost(Groups(KeyOfRow, Keyed(S))))
    BY DEF Leaderboard
  <2>2. Spent(ByCost(Groups(KeyOfRow, Keyed(S)))) = Cost(Keyed(S))
    BY <1>1, <1>2, SpentIs
  <2> QED
    BY <1>3, <2>1, <2>2
<1>5. total = Spent(ModelCosts(days))
  <2>1. Spent(ByCost(Groups(ModelOfRow, Billed(S)))) = Cost(Billed(S))
    BY <1>1, <1>2, SpentIs
  <2> QED
    BY <1>3, <2>1 DEF ModelCosts
<1>6. total = SumFunction([g \in CostTrend(days) |-> Cost(g.rows)])
  <2> DEFINE dayOf == [i \in Rows |-> LogDay(i)]
  <2>1. CostTrend(days) = Groups(dayOf, Billed(S))
    BY DEF CostTrend
  <2> HIDE DEF dayOf
  <2>2. SumFunction([g \in Groups(dayOf, Billed(S)) |-> Cost(g.rows)]) = Cost(Billed(S))
    BY <1>2, GroupsAddUp
  <2> QED
    BY <1>3, <2>1, <2>2
<1>7. total = BudgetSpend("global", Null, days) /\ total = BudgetSpend("vk", Null, days)
  <2>1. /\ BudgetSpend("global", Null, days) = Cost(Billed(S))
        /\ BudgetSpend("vk", Null, days) = Cost(Billed(S))
    <3>1. {i \in Billed(S) : /\ "global" = "vk" /\ Null # Null => log[i].key = Null
                             /\ "global" = "model" /\ Null # Null => log[i].model = Null} = Billed(S)
      OBVIOUS
    <3>2. {i \in Billed(S) : /\ "vk" = "vk" /\ Null # Null => log[i].key = Null
                             /\ "vk" = "model" /\ Null # Null => log[i].model = Null} = Billed(S)
      OBVIOUS
    <3> QED
      BY <3>1, <3>2 DEF BudgetSpend
  <2> QED
    BY <1>3, <2>1
<1>8. (s = "day" => total = Dashboard.costToday)
      /\ (s = "week" => total = Dashboard.costWeek /\ total = WeeklyReport.cost)
  <2>1. Dashboard.costToday = Cost(Billed(Since(1))) /\ Dashboard.costWeek = Cost(Billed(Since(Scopes["week"])))
        /\ WeeklyReport.cost = Cost(Billed(Since(Scopes["week"])))
    BY DEF Dashboard, WeeklyReport
  <2> QED
    BY <1>1, <1>3, <2>1
<1>9. ASSUME NEW k \in LogKey PROVE KeyCost(k, days).cost = BudgetSpend("vk", k, days)
  <2>1. k # Null
    BY ReportsAssumption
  <2>2. Billed(OfKey(k, S)) = {i \in Billed(S) : /\ "vk" = "vk" /\ k # Null => log[i].key = k
                                                 /\ "vk" = "model" /\ k # Null => log[i].model = k}
    BY <2>1 DEF Billed, OfKey
  <2>3. KeyCost(k, days).cost = Cost(Billed(OfKey(k, S)))
    BY DEF KeyCost
  <2> QED
    BY <2>2, <2>3 DEF BudgetSpend
<1>10. \A r \in ToSet(Leaderboard(days).rows) :
           /\ KeyCost(r.name, days).requests = Cardinality(r.rows)
           /\ \A k \in LogKey : KeyCost(k, days).cost <= Cost(r.rows) \/ Len(Leaderboard(days).rows) > 1
  BY <1>1, BoardIsRight
<1>11. \A o \in OrgCosts(days) :
           Cost(UNION {p.rows : p \in {q \in ProjectCosts(days) : q.name.org = o.name}}) <= Cost(o.rows)
  BY <1>1, OrgsAddUp
<1> QED
  BY <1>4, <1>5, <1>6, <1>7, <1>8, <1>9, <1>10, <1>11

-----------------------------------------------------------------------------
(* Failures and attempts.                                                  *)
LEMMA RowsFail ==
    ASSUME LogInv, NEW i \in Rows
    PROVE  /\ IsFail(i) # (i \in Below400({i}) \ Misread({i}))
           /\ ~Reused(i) =>
                 /\ log[i].status # Null => IsFail(i) = (i \in From400({i}))
                 /\ log[i].tries # <<>> => IsFail(i) = (Last(log[i].tries).kind # Null)
                 /\ (\E c \in DOMAIN calls : calls[c].row = i /\ calls[c].stage = "finished")
                       => (log[i].kind = "rate_limited") = (log[i].status = 429)
                 /\ i \in Billed(Rows) => i \in Below400(Rows)
<1>1. log[i] \in LogRow /\ RowFits(log[i])
  BY RowsAre
<1>2. /\ IsFail(i) <=> \/ ~(log[i].status # Null /\ log[i].status < 400)
                       \/ Reused(i) /\ log[i].kind # Null
      /\ ~Reused(i) => (IsFail(i) <=> log[i].status = Null \/ log[i].kind # Null)
      /\ ~Reused(i) /\ log[i].status # Null => (IsFail(i) <=> log[i].status >= 400)
  BY FailsOrSucceeds
<1>3. /\ i \in Below400({i}) <=> log[i].status # Null /\ log[i].status < 400
      /\ i \in From400({i}) <=> log[i].status # Null /\ log[i].status >= 400
      /\ i \in Misread({i}) <=> i \in Below400({i}) /\ Reused(i) /\ log[i].kind # Null
  BY DEF Below400, From400, Misread
<1>4. IsFail(i) \in BOOLEAN
  BY DEF IsFail
<1>5. IsFail(i) # (i \in Below400({i}) \ Misread({i}))
  BY <1>2, <1>3, <1>4
<1>6. ASSUME ~Reused(i), log[i].status # Null PROVE IsFail(i) = (i \in From400({i}))
  BY <1>2, <1>3, <1>4, <1>6
<1>7. ASSUME ~Reused(i), log[i].tries # <<>> PROVE IsFail(i) = (Last(log[i].tries).kind # Null)
  <2> DEFINE t == log[i].tries
  <2>1. t \in Seq([model : LogModel, kind : Kinds \cup {Null}, at : Nat])
    BY <1>1 DEF LogRow, TriesOf
  <2>2. Len(t) > 0 /\ Last(t) = t[Len(t)]
    BY <1>7, <2>1 DEF Last
  <2>3. TriesFit(log[i])
    BY <1>7, OnlyRow DEF OwnRow
  <2>4. log[i].kind = Null <=> Last(t).kind = Null
    BY <2>2, <2>3 DEF TriesFit
  <2>5. log[i].status # Null
    BY <1>1, <2>2 DEF RowFits
  <2> QED
    BY <1>2, <1>4, <1>7, <2>4, <2>5
<1>8. ASSUME ~Reused(i), NEW c \in DOMAIN calls, calls[c].row = i, calls[c].stage = "finished"
      PROVE  (log[i].kind = "rate_limited") = (log[i].status = 429)
  <2>1. OwnRow(log[i], calls[c])
    BY <1>8, OnlyRow
  <2> QED
    BY <1>8, <2>1 DEF OwnRow
<1>9. ASSUME ~Reused(i), i \in Billed(Rows) PROVE i \in Below400(Rows)
  <2>1. log[i].cost # Null
    BY <1>9 DEF Billed
  <2>2. log[i].status = 200 /\ 200 # Null
    BY <1>9, <2>1, OnlyRow, ReportsAssumption DEF OwnRow
  <2> QED
    BY <2>2 DEF Below400
<1> QED
  BY <1>5, <1>6, <1>7, <1>8, <1>9

LEMMA KeysAddUp ==
    ASSUME LogInv
    PROVE  Dashboard.requests = SumFunction([k \in LogKey |-> KeyUsage(k).requests])
                                + Cardinality(Since(1) \ Keyed(Rows))
<1> DEFINE S == Since(1)
           K == Keyed(S)
           c == [i \in K |-> log[i].key]
           sizes == [k \in LogKey |-> KeyUsage(k).requests]
<1>1. S \in SUBSET Rows /\ K \in SUBSET S /\ K \in SUBSET Rows /\ S \ K = S \ Keyed(Rows)
  BY DEF Since, Keyed
<1>2. IsFiniteSet(S) /\ IsFiniteSet(K) /\ IsFiniteSet(LogKey)
  BY <1>1, RowsAre, ReportsAssumption
<1>3. \A i \in K : c[i] \in LogKey
  BY <1>1, RowsAre DEF Keyed, Anon, LogRow
<1>4. \A k \in LogKey : sizes[k] = Cardinality(Group(c, K, k))
  <2> TAKE k \in LogKey
  <2>1. sizes[k] = Cardinality(OfKey(k, S))
    BY DEF KeyUsage
  <2>2. OfKey(k, S) = Group(c, K, k)
    BY ReportsAssumption DEF OfKey, Group, Keyed, Anon
  <2> QED
    BY <2>1, <2>2
<1>5. DOMAIN sizes = LogKey /\ Dashboard.requests = Cardinality(S)
  BY DEF Dashboard
<1> HIDE DEF sizes, c, K, S
<1>6. SumOver(sizes, LogKey) = Cardinality(K)
  BY <1>2, <1>3, <1>4, SizePartition
<1>7. SumFunction(sizes) = Cardinality(K)
  BY <1>5, <1>6, SumIs
<1>8. Cardinality(S) = Cardinality(K) + Cardinality(S \ K)
  BY <1>1, <1>2, SizeWithout
<1>9. Cardinality(S) = SumFunction(sizes) + Cardinality(S \ Keyed(Rows))
  <2>1. Cardinality(S \ K) = Cardinality(S \ Keyed(Rows))
    BY <1>1
  <2> QED
    BY <1>7, <1>8, <2>1
<1> QED
  BY <1>5, <1>9 DEF sizes, S

LEMMA RateIsPercent == ASSUME LogInv PROVE ErrorRate(Since(1)) <= 100
<1> DEFINE S == Since(1)
           n == Cardinality(S)
           e == Cardinality(From400(S))
<1>1. S \in SUBSET Rows /\ From400(S) \in SUBSET S
  BY DEF Since, From400
<1>2. IsFiniteSet(S) /\ n \in Nat /\ e \in Nat /\ e <= n
  BY <1>1, RowsAre, FS_Subset
<1>3. CASE S = {}
  BY <1>3 DEF ErrorRate
<1>4. CASE S # {}
  <2>1. n # 0
    BY <1>2, <1>4, FS_EmptySet
  <2>2. ErrorRate(S) = (e * 100) \div n
    BY <1>4 DEF ErrorRate
  <2> HIDE DEF n, e, S
  <2>3. e * 100 \in Nat /\ n \in Nat \ {0} /\ 101 \in Nat
    BY <1>2, <2>1
  <2>4. (e * 100) \div n \in Nat /\ (101 * n <= e * 100 <=> 101 <= (e * 100) \div n)
    BY <2>3, Quotient
  <2>5. ~(101 * n <= e * 100)
    BY <1>2, <2>1
  <2> QED
    BY <2>2, <2>4, <2>5 DEF S
<1> QED
  BY <1>3, <1>4

LEMMA AttemptsFinite == ASSUME LogInv PROVE IsFiniteSet(Attempts(1))
<1> DEFINE P(i) == {i} \X DOMAIN log[i].tries
           U == {P(i) : i \in Rows}
<1>1. \A i \in Rows : IsFiniteSet(P(i))
  <2> TAKE i \in Rows
  <2>1. log[i] \in LogRow
    BY RowsAre
  <2>2. DOMAIN log[i].tries = 1..Len(log[i].tries) /\ Len(log[i].tries) \in Nat
    BY <2>1 DEF LogRow, TriesOf
  <2>3. 1 \in Int /\ Len(log[i].tries) \in Int
    BY <2>2
  <2>4. IsFiniteSet(1..Len(log[i].tries))
    BY <2>3, FS_Interval
  <2>5. IsFiniteSet({i})
    BY FS_Singleton
  <2> QED
    BY <2>2, <2>4, <2>5, FS_Product
<1>2. IsFiniteSet(U)
  <2> DEFINE f == [i \in Rows |-> P(i)]
  <2>1. IsFiniteSet(Rows)
    BY RowsAre
  <2>2. f \in Surjection(Rows, U)
    BY DEF Surjection
  <2> HIDE DEF f, U
  <2> QED
    BY <2>1, <2>2, FS_Surjection
<1>3. \A T \in U : IsFiniteSet(T)
  BY <1>1
<1>4. Attempts(1) \in SUBSET UNION U
  BY DEF Attempts
<1> HIDE DEF U, P
<1>5. IsFiniteSet(UNION U)
  BY <1>2, <1>3, FS_UNION
<1> QED
  BY <1>4, <1>5, FS_Subset

LEMMA AttemptsAddUp ==
    ASSUME LogInv
    PROVE  LET own(S) == Cardinality({t \in S : ~Reused(t[1])}) IN
           own(FailedAttempts(1)) + own({t \in Attempts(1) : t[2] = Len(log[t[1]].tries) /\ ~IsFail(t[1])})
              = own(Attempts(1))
<1> DEFINE A == {t \in Attempts(1) : ~Reused(t[1])}
           F == {t \in FailedAttempts(1) : ~Reused(t[1])}
           W == {t \in Attempts(1) : t[2] = Len(log[t[1]].tries) /\ ~IsFail(t[1])}
           L == {t \in W : ~Reused(t[1])}
<1>1. IsFiniteSet(A)
  BY AttemptsFinite, FS_Subset
<1>2. F \in SUBSET A
  BY DEF FailedAttempts
<1>3. ASSUME NEW t \in A
      PROVE  AttemptOf(t).kind = Null <=> t[2] = Len(log[t[1]].tries) /\ ~IsFail(t[1])
  <2> DEFINE i == t[1]
             n == t[2]
             tries == log[i].tries
  <2>1. i \in Rows /\ n \in DOMAIN tries /\ AttemptOf(t) = tries[n] /\ ~Reused(i)
    BY DEF Attempts, AttemptOf
  <2>2. log[i] \in LogRow /\ RowFits(log[i])
    BY <2>1, RowsAre
  <2>10. TriesFit(log[i])
    BY <2>1, OnlyRow DEF OwnRow
  <2>3. tries \in Seq([model : LogModel, kind : Kinds \cup {Null}, at : Nat])
    BY <2>2 DEF LogRow, TriesOf
  <2>4. DOMAIN tries = 1..Len(tries) /\ Len(tries) \in Nat
    BY <2>3
  <2>5. n < Len(tries) => tries[n].kind # Null
    BY <2>1, <2>4, <2>10 DEF TriesFit
  <2>6. Len(tries) > 0 /\ tries # <<>>
    BY <2>1, <2>3, <2>4
  <2>7. (log[i].kind = Null <=> tries[Len(tries)].kind = Null) /\ log[i].status # Null
    BY <2>2, <2>6, <2>10 DEF RowFits, TriesFit
  <2>8. IsFail(i) <=> log[i].kind # Null
    BY <2>1, <2>7, FailsOrSucceeds
  <2>9. n \in Nat /\ n <= Len(tries)
    BY <2>1, <2>4
  <2> HIDE DEF tries
  <2> QED
    BY <2>1, <2>4, <2>5, <2>7, <2>8, <2>9 DEF tries
<1>4. L = A \ F
  <2>1. \A t \in A : t \in F <=> AttemptOf(t).kind # Null
    BY DEF FailedAttempts
  <2> QED
    BY <1>2, <1>3, <2>1
<1> HIDE DEF A, F, L
<1>5. Cardinality(A) = Cardinality(F) + Cardinality(A \ F)
  BY <1>1, <1>2, SizeWithout
<1>6. Cardinality(F) + Cardinality(L) = Cardinality(A)
  BY <1>4, <1>5
<1> QED
  BY <1>6 DEF A, F, L

LEMMA FailuresAlwaysAgree == ASSUME LogInv PROVE FailuresAgree
BY RowsFail, KeysAddUp, RateIsPercent, AttemptsAddUp DEF FailuresAgree

-----------------------------------------------------------------------------
(* The time series.                                                        *)
LEMMA BucketsTellTheSame ==
    ASSUME LogInv, NEW S \in SUBSET Rows
    PROVE  /\ Bucket(S).requests = StatusBucket(S).total
           /\ Bucket(S).success = StatusBucket(S).s2xx
           /\ Bucket(S).failed = StatusBucket(S).s4xx + StatusBucket(S).s5xx + StatusBucket(S).none
<1> DEFINE within(a, b) == {i \in S : log[i].status # Null /\ log[i].status >= a /\ log[i].status < b}
           F == S \ Below400(S)
           A == within(400, 500)
           B == within(500, 600)
           N == S \ within(200, 600)
<1>1. \A i \in S : log[i].status # Null => log[i].status \in 200..599
  <2> TAKE i \in S
  <2>1. log[i] \in LogRow
    BY RowsAre
  <2> QED
    BY <2>1 DEF LogRow, StatusColumn
<1>2. within(200, 400) = Below400(S)
  BY <1>1 DEF Below400
<1>3. A \in SUBSET F /\ B \in SUBSET (F \ A) /\ N = (F \ A) \ B
  <2>1. \A i \in S : /\ i \in A <=> log[i].status # Null /\ log[i].status >= 400 /\ log[i].status < 500
                     /\ i \in B <=> log[i].status # Null /\ log[i].status >= 500 /\ log[i].status < 600
                     /\ i \in N <=> ~(log[i].status # Null /\ log[i].status >= 200 /\ log[i].status < 600)
                     /\ i \in F <=> ~(log[i].status # Null /\ log[i].status < 400)
    BY DEF Below400
  <2>2. A \in SUBSET S /\ B \in SUBSET S /\ N \in SUBSET S /\ F \in SUBSET S
    OBVIOUS
  <2> HIDE DEF A, B, F, N
  <2>3. \A i \in S : /\ i \in A => i \in F
                     /\ i \in B => i \in F /\ i \notin A
                     /\ i \in N <=> i \in F /\ i \notin A /\ i \notin B
    BY <1>1, <2>1, SMTT(30)
  <2> QED
    BY <2>2, <2>3
<1>4. IsFiniteSet(F) /\ IsFiniteSet(F \ A)
  BY RowsAre
<1>5. /\ Bucket(S).requests = Cardinality(S) /\ StatusBucket(S).total = Cardinality(S)
      /\ Bucket(S).success = Cardinality(Below400(S)) /\ StatusBucket(S).s2xx = Cardinality(within(200, 400))
      /\ Bucket(S).failed = Cardinality(F) /\ StatusBucket(S).s4xx = Cardinality(A)
      /\ StatusBucket(S).s5xx = Cardinality(B) /\ StatusBucket(S).none = Cardinality(N)
  BY DEF Bucket, StatusBucket
<1> HIDE DEF A, B, F, N, within
<1>6. Cardinality(F) = Cardinality(A) + Cardinality(F \ A) /\ Cardinality(A) \in Nat
  BY <1>3, <1>4, SizeWithout
<1>7. /\ Cardinality(F \ A) = Cardinality(B) + Cardinality((F \ A) \ B)
      /\ Cardinality(B) \in Nat /\ Cardinality((F \ A) \ B) \in Nat
  BY <1>3, <1>4, SizeWithout
<1>8. Cardinality(N) = Cardinality((F \ A) \ B)
  BY <1>3
<1>9. Cardinality(F) = Cardinality(A) + Cardinality(B) + Cardinality(N)
  BY <1>6, <1>7, <1>8
<1> QED
  BY <1>2, <1>5, <1>9

(* The oldest rows: at most so many are older than one that is taken, and  *)
(* at least so many than one that is not.                                  *)
LEMMA OldestAreTaken ==
    ASSUME LogInv, NEW W \in SUBSET Rows, NEW max \in Nat,
           NEW j \in W, j \notin Oldest(W, max)
    PROVE  Cardinality(W) > max /\ \A i \in Oldest(W, max) : i < j
<1> DEFINE Before(i) == {x \in W : x < i}
<1>1. W \subseteq Nat /\ IsFiniteSet(W)
  BY RowsAre
<1>2. \A i : Before(i) \in SUBSET W /\ IsFiniteSet(Before(i)) /\ Cardinality(Before(i)) \in Nat
  BY RowsAre
<1>3. ~(Cardinality(Before(j)) < max)
  BY DEF Oldest
<1>4. \A i \in Oldest(W, max) : i \in W /\ Cardinality(Before(i)) < max
  BY DEF Oldest
<1>5. ASSUME NEW i \in Oldest(W, max), ~(i < j) PROVE FALSE
  <2>1. i \in Nat /\ j \in Nat
    BY <1>1, <1>4
  <2>2. Before(j) \in SUBSET Before(i)
    <3>1. \A x \in W : x \in Nat
      BY <1>1
    <3>2. \A x \in W : x < j => x < i
      BY <1>5, <2>1, <3>1
    <3> QED
      BY <3>2
  <2> HIDE DEF Before
  <2>3. Cardinality(Before(j)) <= Cardinality(Before(i))
    BY <1>2, <2>2, FS_Subset
  <2> QED
    BY <1>2, <1>3, <1>4, <2>3
<1>6. Cardinality(W) > max
  <2>1. j \notin Before(j)
    BY <1>1
  <2> HIDE DEF Before
  <2>2. Cardinality(Before(j)) <= Cardinality(W) /\ Cardinality(Before(j)) # Cardinality(W)
    BY <1>1, <1>2, <2>1, FS_Subset
  <2>3. Cardinality(W) \in Nat
    BY <1>1, FS_CardinalityType
  <2> QED
    BY <1>2, <1>3, <2>2, <2>3
<1> QED
  BY <1>5, <1>6

LEMMA SeriesIs ==
    ASSUME LogInv, NEW max \in Nat, NEW width \in Nat \ {0}
    PROVE  LET series == SeriesOf(width, 2, max)
               first == FirstBucket(width, 2)
               W == {i \in Rows : log[i].at >= clock - 2 * width}
           IN  /\ DOMAIN series = 0..1 /\ first \in Int
               /\ series[0] = {i \in Oldest(W, max) : log[i].at >= first /\ log[i].at < first + width}
               /\ series[1] = {i \in Oldest(W, max) : log[i].at >= first /\ ~(log[i].at < first + width)}
               /\ \A i \in Rows : log[i].at >= first => i \in W
               /\ W \in SUBSET Rows
<1> DEFINE q == clock \div width
           P == q * width
           first == FirstBucket(width, 2)
           W == {i \in Rows : log[i].at >= clock - 2 * width}
           V == {i \in Rows : log[i].at >= clock - width * 2}
           series == SeriesOf(width, 2, max)
           taken == Oldest(W, max)
           b0 == first + 0 * width
           b1 == first + 1 * width
<1>1. clock \in Nat
  BY DEF LogInv
<1>2. q \in Nat /\ q * width <= clock /\ ~((q + 1) * width <= clock)
  <2>1. q \in Nat /\ (q * width <= clock <=> q <= q) /\ ((q + 1) * width <= clock <=> q + 1 <= q)
    <3>1. q \in Nat /\ \A a \in Nat : a * width <= clock <=> a <= q
      BY <1>1, Quotient
    <3> HIDE DEF q
    <3>2. q \in Nat /\ q + 1 \in Nat
      BY <3>1
    <3> QED
      BY <3>1, <3>2
  <2> HIDE DEF q
  <2> QED
    BY <2>1
<1>3. P \in Nat /\ P <= clock /\ clock < P + width /\ first = P - width
  <2>1. first = (q - 1) * width
    <3>1. 2 - 1 = 1
      OBVIOUS
    <3> QED
      BY <3>1 DEF FirstBucket
  <2> HIDE DEF q, first
  <2>2. (q + 1) * width = q * width + width /\ (q - 1) * width = q * width - width
        /\ q * width \in Nat
    BY <1>2
  <2> QED
    BY <1>1, <1>2, <2>1, <2>2
<1> HIDE DEF P
<1>4. b0 = first /\ b1 = first + width /\ b1 = P /\ b0 + width = P /\ first \in Int
  <2> HIDE DEF first
  <2> QED
    BY <1>3
<1>5. V = W
  <2>1. width * 2 = 2 * width
    OBVIOUS
  <2> QED
    BY <2>1
<1>6. series = [b \in 0..1 |-> {i \in taken : /\ log[i].at >= first + b * width
                                              /\ log[i].at < first + b * width + width}]
  <2>1. 2 - 1 = 1
    OBVIOUS
  <2>2. series = [b \in 0..(2 - 1) |-> {i \in Oldest(V, max) :
                     /\ log[i].at >= first + b * width
                     /\ log[i].at < first + b * width + width}]
    BY DEF SeriesOf
  <2> HIDE DEF V, W, first, series
  <2> QED
    BY <1>5, <2>1, <2>2
<1>7. /\ series[0] = {i \in taken : log[i].at >= b0 /\ log[i].at < b0 + width}
      /\ series[1] = {i \in taken : log[i].at >= b1 /\ log[i].at < b1 + width}
      /\ DOMAIN series = 0..1
  <2> HIDE DEF series, first, taken
  <2> QED
    BY <1>6
<1>8. W \in SUBSET Rows /\ taken \in SUBSET W
  BY DEF Oldest
<1>9. \A i \in Rows : log[i].at \in Nat /\ log[i].at <= clock
  BY RowsAre DEF LogRow
<1>10. \A i \in Rows : log[i].at >= first => i \in W
  <2> TAKE i \in Rows
  <2> HAVE log[i].at >= first
  <2> HIDE DEF first
  <2>1. log[i].at >= clock - 2 * width
    BY <1>1, <1>3, <1>9
  <2> QED
    BY <2>1
<1> HIDE DEF series, taken, first, W
<1>11. series[0] = {i \in taken : log[i].at >= first /\ log[i].at < first + width}
  BY <1>4, <1>7
<1>12. series[1] = {i \in taken : log[i].at >= first /\ ~(log[i].at < first + width)}
  <2>1. \A i \in taken : /\ log[i].at >= b1 <=> ~(log[i].at < first + width)
                         /\ log[i].at < b1 + width
                         /\ log[i].at >= b1 => log[i].at >= first
    <3> TAKE i \in taken
    <3>1. log[i].at \in Nat /\ log[i].at <= clock
      BY <1>8, <1>9
    <3> HIDE DEF b1
    <3> QED
      BY <1>1, <1>3, <1>4, <3>1
  <2> HIDE DEF b1
  <2> QED
    BY <1>7, <2>1
<1> QED
  BY <1>4, <1>7, <1>8, <1>10, <1>11, <1>12 DEF series, taken, first, W

LEMMA SeriesAlwaysAgree == ASSUME LogInv PROVE SeriesAgree
<1> SUFFICES ASSUME NEW max \in 1..MaxRows, NEW width \in {1, DayTicks}
             PROVE
        LET series == SeriesOf(width, 2, max)
            shown == UNION {series[b] : b \in DOMAIN series}
            missing == {i \in Rows : log[i].at >= FirstBucket(width, 2)} \ shown
        IN /\ \A b \in DOMAIN series :
                 LET B == Bucket(series[b])  T == StatusBucket(series[b]) IN
                 /\ B.requests = T.total /\ B.success = T.s2xx
                 /\ B.failed = T.s4xx + T.s5xx + T.none
           /\ Cardinality(shown) = Sizes(series)
           /\ \A i \in shown, j \in missing : i < j
           /\ missing # {} => Cardinality({i \in Rows : log[i].at >= clock - 2 * width}) > max
  BY DEF SeriesAgree
<1> DEFINE series == SeriesOf(width, 2, max)
           first == FirstBucket(width, 2)
           W == {i \in Rows : log[i].at >= clock - 2 * width}
           taken == Oldest(W, max)
           shown == UNION {series[b] : b \in DOMAIN series}
           missing == {i \in Rows : log[i].at >= first} \ shown
           c == [i \in shown |-> IF log[i].at < first + width THEN 0 ELSE 1]
           sizes == [b \in DOMAIN series |-> Cardinality(series[b])]
<1>1. max \in Nat /\ width \in Nat \ {0}
  BY ReportsAssumption
<1>2. /\ DOMAIN series = 0..1 /\ first \in Int
      /\ series[0] = {i \in taken : log[i].at >= first /\ log[i].at < first + width}
      /\ series[1] = {i \in taken : log[i].at >= first /\ ~(log[i].at < first + width)}
      /\ \A i \in Rows : log[i].at >= first => i \in W
      /\ W \in SUBSET Rows
  BY <1>1, SeriesIs
<1>3. taken \in SUBSET W
  BY DEF Oldest
<1> HIDE DEF series, first, W, taken
<1>4. shown = {i \in taken : log[i].at >= first}
  <2>1. \A b : b \in DOMAIN series <=> b = 0 \/ b = 1
    BY <1>2
  <2>2. shown = series[0] \cup series[1]
    BY <2>1
  <2> HIDE DEF shown
  <2> QED
    BY <1>2, <2>2
<1>5. \A b \in 0..1 : series[b] \in SUBSET Rows
  BY <1>2, <1>3
<1>6. \A b \in DOMAIN series :
          /\ Bucket(series[b]).requests = StatusBucket(series[b]).total
          /\ Bucket(series[b]).success = StatusBucket(series[b]).s2xx
          /\ Bucket(series[b]).failed = StatusBucket(series[b]).s4xx + StatusBucket(series[b]).s5xx
                                        + StatusBucket(series[b]).none
  BY <1>2, <1>5, BucketsTellTheSame
<1> HIDE DEF shown
<1>7. \A b \in 0..1 : series[b] = Group(c, shown, b)
  BY <1>2, <1>4 DEF Group
<1>8. \A j \in missing : j \in W /\ j \notin taken
  BY <1>2, <1>4
<1>9. Sizes(series) = SumFunction(sizes) /\ DOMAIN sizes = 0..1
  BY <1>2 DEF Sizes
<1>10. \A i \in shown : c[i] \in 0..1
  OBVIOUS
<1>11. \A b \in 0..1 : sizes[b] = Cardinality(Group(c, shown, b))
  BY <1>2, <1>7
<1>12. IsFiniteSet(shown) /\ IsFiniteSet(0..1)
  <2>1. shown \in SUBSET Rows
    BY <1>2, <1>3, <1>4
  <2>2. IsFiniteSet(shown)
    BY <2>1, RowsAre
  <2>3. 0 \in Int /\ 1 \in Int
    OBVIOUS
  <2>4. IsFiniteSet(0..1)
    BY <2>3, FS_Interval, Zenon
  <2> QED
    BY <2>2, <2>4
<1>13. Cardinality(shown) = Sizes(series)
  <2> DEFINE D == 0..1
  <2>1. IsFiniteSet(D) /\ (\A i \in shown : c[i] \in D)
        /\ \A b \in D : sizes[b] = Cardinality(Group(c, shown, b))
    BY <1>10, <1>11, <1>12
  <2>2. SumFunction(sizes) = SumOver(sizes, D)
    BY <1>9, SumIs
  <2> HIDE DEF c, sizes, D
  <2>3. SumOver(sizes, D) = Cardinality(shown)
    BY <1>12, <2>1, SizePartition
  <2> QED
    BY <1>9, <2>2, <2>3
<1>14. \A j \in missing : Cardinality(W) > max /\ \A i \in shown : i < j
  <2> TAKE j \in missing
  <2>1. j \in W /\ j \notin taken
    BY <1>8
  <2>2. Cardinality(W) > max /\ \A i \in taken : i < j
    BY <1>1, <1>2, <2>1, OldestAreTaken DEF taken
  <2> QED
    BY <1>4, <2>2
<1> HIDE DEF missing
<1>15. /\ \A i \in shown, j \in missing : i < j
       /\ missing # {} => Cardinality(W) > max
  BY <1>14
<1> QED
  BY <1>6, <1>13, <1>15 DEF series, shown, missing, first, W

-----------------------------------------------------------------------------
(* What the reports say of one log fits together, whatever the rows that   *)
(* were written, whenever the answers came, and whoever is asked: VkReport,*)
(* VkCost, the leaderboard, the dashboard and its series, Prometheus,      *)
(* /v1/usage, the weekly report, BudgetService, usage_daily and the        *)
(* analysis of attempts.  Where the id of a request was used again they    *)
(* differ by those rows, and by no others.                                 *)
THEOREM ReportsAlwaysAgree == ReportsInit /\ [][ReportsNext]_reportVars => []ReportsAgree
<1>1. LogInv => ReportsAgree
  BY MonthsAlwaysAddUp, EveryRequestIsReported, SpendAlwaysAgrees, FailuresAlwaysAgree,
     SeriesAlwaysAgree DEF ReportsAgree
<1> QED
  BY <1>1, LogInitInv, LogStepInv, PTL
=============================================================================
