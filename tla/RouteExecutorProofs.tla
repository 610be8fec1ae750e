------------------------ MODULE RouteExecutorProofs ------------------------
(***************************************************************************)
(* For any number of requests, any plans, retry policy and store, with     *)
(* refused creates and failing queries at any moment: the type invariant   *)
(* of RouteExecutor and its per-request safety properties.  Then, for a    *)
(* store that accepts every write, that execute implements RouteContract,  *)
(* and that the log row tells the answer; and, for the production foreign  *)
(* key, who owes a half-open model its report.                             *)
(***************************************************************************)
EXTENDS RouteExecutor, CooldownEngineProofs

Before == {"loop", "gateModel", "gateProvider"}
After == {"okModel", "okProvider", "failModel", "failProvider", "catchModel"}

(* From the first gate to the last report the loop index is a candidate.   *)
IndexOK(q) ==
    pc[q] \in {"gateModel", "gateProvider", "calling"} \cup After => i[q] <= Limit(cands[q])

CallsOK(q) ==
    /\ \A n \in 1..Len(called[q]) : called[q][n] <= Limit(cands[q]) /\ called[q][n] <= i[q]
    /\ \A n \in 2..Len(called[q]) : called[q][n - 1] < called[q][n]
    /\ pc[q] \in Before => \A n \in 1..Len(called[q]) : called[q][n] < i[q]
    /\ pc[q] \in {"calling"} \cup After =>
          Len(called[q]) > 0 /\ called[q][Len(called[q])] = i[q]

ReportsOK(q) ==
    /\ \A r \in 1..Len(attempts[q]) :
          /\ attempts[q][r].ordinal <= i[q]
          /\ pc[q] \in Before \cup {"calling"} => attempts[q][r].ordinal < i[q]
          /\ (\E n \in 1..Len(called[q]) : called[q][n] = attempts[q][r].ordinal)
                <=> attempts[q][r].kind \notin {"cooldown_active", "unregistered"}
    /\ \A n \in 1..(i[q] - 1) :
          \E r \in 1..Len(attempts[q]) : attempts[q][r].ordinal = n
    /\ pc[q] \in After =>
          \E r \in 1..Len(attempts[q]) : attempts[q][r].ordinal = i[q]
    /\ \A r1, r2 \in 1..Len(attempts[q]) :
          r1 < r2 => \/ attempts[q][r1].ordinal < attempts[q][r2].ordinal
                     \/ attempts[q][r2].kind = "thrown"

(* The call that just succeeded is the last one called and reported.       *)
LastCallOk(q) ==
    /\ outcome[q] = "ok"
    /\ Len(attempts[q]) > 0
    /\ attempts[q][Len(attempts[q])] = [ordinal |-> i[q], kind |-> "ok"]
    /\ called[q][Len(called[q])] = i[q]

AnswerOK(q) ==
    /\ pc[q] \notin {"persist", "answered"} => answer[q] = "none"
    /\ pc[q] \in {"okModel", "okProvider"} \/ answer[q] = "response" => LastCallOk(q)

RequestOK(q) == IndexOK(q) /\ CallsOK(q) /\ ReportsOK(q) /\ AnswerOK(q)

IInv == TypeOK /\ EngineInv /\ \A q \in Caller : RequestOK(q)

-----------------------------------------------------------------------------

LEMMA AppendFacts ==
    ASSUME NEW T, NEW s \in Seq(T), NEW e \in T
    PROVE  /\ Append(s, e) \in Seq(T)
           /\ Len(s) \in Nat
           /\ Len(Append(s, e)) = Len(s) + 1
           /\ \A n \in 1..Len(s) : Append(s, e)[n] = s[n]
           /\ Append(s, e)[Len(s) + 1] = e
OBVIOUS

LEMMA ExecTypes ==
    ASSUME TypeOK, NEW q \in Caller
    PROVE  /\ pc[q] \in PC /\ cands[q] \in Seq(Model) /\ i[q] \in Nat \ {0}
           /\ attempts[q] \in Seq(Report) /\ called[q] \in Seq(Nat \ {0})
           /\ outcome[q] \in Outcome /\ answer[q] \in Answer /\ logged[q] \in Log
           /\ Len(attempts[q]) \in Nat /\ Len(called[q]) \in Nat /\ Len(cands[q]) \in Nat
           /\ Limit(cands[q]) \in Nat /\ Limit(cands[q]) <= Len(cands[q])
           /\ \A r \in 1..Len(attempts[q]) : attempts[q][r].ordinal \in Nat
           /\ \A n \in 1..Len(called[q]) : called[q][n] \in Nat
<1>1. /\ pc[q] \in PC /\ cands[q] \in Seq(Model) /\ i[q] \in Nat \ {0}
      /\ attempts[q] \in Seq(Report) /\ called[q] \in Seq(Nat \ {0})
      /\ outcome[q] \in Outcome /\ answer[q] \in Answer /\ logged[q] \in Log
  BY DEF TypeOK
<1>2. \A r \in 1..Len(attempts[q]) : attempts[q][r] \in Report
  BY <1>1
<1>3. \A r \in 1..Len(attempts[q]) : attempts[q][r].ordinal \in Nat
  BY <1>2 DEF Report
<1>4. Len(cands[q]) \in Nat
  BY <1>1
<1>5. Limit(cands[q]) \in Nat /\ Limit(cands[q]) <= Len(cands[q])
  BY <1>4, ExecutorAssumption DEF Limit
<1> QED
  BY <1>1, <1>3, <1>5

(* The model and the provider of a candidate are cooldown keys.            *)
LEMMA CandidateKeys ==
    ASSUME TypeOK, NEW q \in Caller, i[q] <= Limit(cands[q])
    PROVE  TheModel(q) \in Key /\ TheProvider(q) \in Key
<1>1. TheModel(q) \in Model
  BY ExecTypes DEF TheModel
<1> QED
  BY <1>1, ExecutorAssumption DEF TheProvider

-----------------------------------------------------------------------------
(***************************************************************************)
(* The invariant of one request, by what a step does to its fields.        *)
(***************************************************************************)

(* The step moves pc, and perhaps settles outcome or answer.               *)
LEMMA MoveOnly ==
    ASSUME TypeOK, NEW q \in Caller, RequestOK(q),
           cands'[q] = cands[q], i'[q] = i[q], attempts'[q] = attempts[q],
           called'[q] = called[q], outcome'[q] = outcome[q],
           pc'[q] \in Before => pc[q] \in Before,
           pc'[q] = "calling" => pc[q] = "calling",
           pc'[q] \in After => pc[q] \in After,
           pc'[q] \in {"gateModel", "gateProvider", "calling"} \cup After
              => i[q] <= Limit(cands[q]),
           pc'[q] \notin {"persist", "answered"} => answer'[q] = "none",
           pc'[q] \in {"okModel", "okProvider"} => pc[q] \in {"okModel", "okProvider"},
           answer'[q] = "response" => pc[q] = "okProvider" \/ answer[q] = "response"
    PROVE  RequestOK(q)'
<1>1. IndexOK(q)' /\ CallsOK(q)'
  BY DEF RequestOK, IndexOK, CallsOK, Limit
<1>2. ReportsOK(q)'
  BY DEF RequestOK, ReportsOK
<1>3. AnswerOK(q)'
  BY DEF RequestOK, AnswerOK, LastCallOk
<1> QED
  BY <1>1, <1>2, <1>3 DEF RequestOK

(* A gate's report: the candidate is passed over.                          *)
LEMMA PassOver ==
    ASSUME TypeOK, NEW q \in Caller, RequestOK(q), pc[q] \in Before, pc'[q] = "loop",
           NEW kind \in {"cooldown_active", "unregistered"},
           attempts'[q] = Append(attempts[q], [ordinal |-> i[q], kind |-> kind]),
           i'[q] = i[q] + 1, cands'[q] = cands[q], called'[q] = called[q],
           outcome'[q] = outcome[q], answer'[q] = answer[q]
    PROVE  RequestOK(q)'
<1> DEFINE e == [ordinal |-> i[q], kind |-> kind]
<1>1. i[q] \in Nat \ {0} /\ e \in Report
  BY ExecTypes DEF Report
<1>2. /\ Len(attempts'[q]) = Len(attempts[q]) + 1 /\ Len(attempts[q]) \in Nat
      /\ \A n \in 1..Len(attempts[q]) : attempts'[q][n] = attempts[q][n]
      /\ attempts'[q][Len(attempts[q]) + 1] = e
  BY <1>1, ExecTypes, AppendFacts
<1>3. /\ \A n \in 1..Len(called[q]) : called[q][n] <= Limit(cands[q]) /\ called[q][n] < i[q]
      /\ Len(called[q]) \in Nat /\ \A n \in 1..Len(called[q]) : called[q][n] \in Nat
  BY ExecTypes DEF RequestOK, CallsOK
<1>4. IndexOK(q)' /\ CallsOK(q)'
  BY <1>1, <1>3 DEF RequestOK, IndexOK, CallsOK, Before, After, Limit
<1>5. \A r \in 1..Len(attempts[q]) : /\ attempts[q][r].ordinal < i[q]
                                     /\ attempts[q][r].ordinal \in Nat
  BY ExecTypes DEF RequestOK, ReportsOK
<1>6. ReportsOK(q)'
  <2>1. ASSUME NEW r \in 1..Len(attempts'[q])
        PROVE  /\ attempts'[q][r].ordinal < i'[q]
               /\ (\E n \in 1..Len(called'[q]) : called'[q][n] = attempts'[q][r].ordinal)
                     <=> attempts'[q][r].kind \notin {"cooldown_active", "unregistered"}
    <3>1. CASE r \in 1..Len(attempts[q])
      BY <1>1, <1>2, <1>5, <3>1 DEF RequestOK, ReportsOK
    <3>2. CASE r = Len(attempts[q]) + 1
      <4>1. attempts'[q][r].ordinal = i[q] /\ attempts'[q][r].kind = kind
        BY <1>2, <3>2
      <4>2. \A n \in 1..Len(called[q]) : called[q][n] # i[q]
        <5> SUFFICES ASSUME NEW n \in 1..Len(called[q])
                     PROVE  called[q][n] # i[q]
          OBVIOUS
        <5>1. called[q][n] < i[q] /\ called[q][n] \in Nat /\ i[q] \in Nat
          BY <1>1, <1>3
        <5> QED
          BY <5>1
      <4> QED
        BY <1>1, <4>1, <4>2
    <3> QED
      BY <1>2, <2>1, <3>1, <3>2
  <2>2. ASSUME NEW n \in 1..(i'[q] - 1)
        PROVE  \E r \in 1..Len(attempts'[q]) : attempts'[q][r].ordinal = n
    <3>1. CASE n = i[q]
      BY <1>2, <3>1
    <3>2. CASE n # i[q]
      <4>0. n \in 1..(i[q] - 1)
        BY <1>1, <3>2
      <4>1. PICK r \in 1..Len(attempts[q]) : attempts[q][r].ordinal = n
        BY <4>0 DEF RequestOK, ReportsOK
      <4> QED
        BY <1>2, <4>1
    <3> QED
      BY <3>1, <3>2
  <2>3. ASSUME NEW r1 \in 1..Len(attempts'[q]), NEW r2 \in 1..Len(attempts'[q]), r1 < r2
        PROVE  \/ attempts'[q][r1].ordinal < attempts'[q][r2].ordinal
               \/ attempts'[q][r2].kind = "thrown"
    <3>1. r1 \in 1..Len(attempts[q])
      BY <1>2, <2>3
    <3>2. CASE r2 \in 1..Len(attempts[q])
      BY <1>2, <2>3, <3>1, <3>2 DEF RequestOK, ReportsOK
    <3>3. CASE r2 = Len(attempts[q]) + 1
      BY <1>2, <1>5, <3>1, <3>3
    <3> QED
      BY <1>2, <3>2, <3>3
  <2>4. \A r \in 1..Len(attempts'[q]) : attempts'[q][r].ordinal <= i'[q]
    <3>1. \A r \in 1..Len(attempts'[q]) : attempts'[q][r].ordinal \in Nat
      BY <1>1, <1>2, <1>5
    <3> QED
      BY <1>1, <2>1, <3>1
  <2> QED
    BY <2>1, <2>2, <2>3, <2>4 DEF ReportsOK, After
<1>7. AnswerOK(q)'
  BY DEF RequestOK, AnswerOK, Before
<1> QED
  BY <1>4, <1>6, <1>7 DEF RequestOK

(* The upstream call starts.                                               *)
LEMMA StartCall ==
    ASSUME TypeOK, NEW q \in Caller, RequestOK(q), pc[q] = "gateProvider",
           pc'[q] = "calling", called'[q] = Append(called[q], i[q]),
           i'[q] = i[q], cands'[q] = cands[q], attempts'[q] = attempts[q],
           answer'[q] = answer[q]
    PROVE  RequestOK(q)'
<1>1. i[q] \in Nat \ {0} /\ i[q] <= Limit(cands[q]) /\ Len(attempts[q]) \in Nat
  BY ExecTypes DEF RequestOK, IndexOK
<1>2. /\ Len(called'[q]) = Len(called[q]) + 1 /\ Len(called[q]) \in Nat
      /\ \A n \in 1..Len(called[q]) : called'[q][n] = called[q][n]
      /\ called'[q][Len(called[q]) + 1] = i[q]
  BY <1>1, ExecTypes, AppendFacts
<1>3. \A n \in 1..Len(called[q]) : /\ called[q][n] <= Limit(cands[q])
                                   /\ called[q][n] < i[q] /\ called[q][n] \in Nat
  BY ExecTypes DEF RequestOK, CallsOK, Before
<1>4. IndexOK(q)'
  BY <1>1 DEF IndexOK, Limit
<1>5. CallsOK(q)'
  <2>1. \A n \in 1..Len(called'[q]) : called'[q][n] <= Limit(cands[q]) /\ called'[q][n] <= i[q]
    BY <1>1, <1>2, <1>3
  <2>2. ASSUME NEW n \in 2..Len(called'[q]) PROVE called'[q][n - 1] < called'[q][n]
    <3>1. CASE n \in 2..Len(called[q])
      BY <1>2, <3>1 DEF RequestOK, CallsOK
    <3>2. CASE n = Len(called[q]) + 1
      BY <1>2, <1>3, <2>2, <3>2
    <3> QED
      BY <1>2, <2>2, <3>1, <3>2
  <2> QED
    BY <1>1, <1>2, <2>1, <2>2 DEF CallsOK, Before, Limit
<1>6. \A r \in 1..Len(attempts[q]) :
         /\ attempts[q][r].ordinal < i[q] /\ attempts[q][r].ordinal \in Nat
         /\ (\E n \in 1..Len(called'[q]) : called'[q][n] = attempts[q][r].ordinal)
              <=> (\E n \in 1..Len(called[q]) : called[q][n] = attempts[q][r].ordinal)
  <2>1. \A r \in 1..Len(attempts[q]) :
           attempts[q][r].ordinal < i[q] /\ attempts[q][r].ordinal \in Nat
    BY ExecTypes DEF RequestOK, ReportsOK, Before
  <2> QED
    BY <1>1, <1>2, <2>1
<1>7. ReportsOK(q)'
  <2>1. \A r \in 1..Len(attempts[q]) :
           /\ attempts[q][r].ordinal <= i[q]
           /\ attempts[q][r].ordinal < i[q]
           /\ (\E n \in 1..Len(called'[q]) : called'[q][n] = attempts[q][r].ordinal)
                 <=> attempts[q][r].kind \notin {"cooldown_active", "unregistered"}
    BY <1>6 DEF RequestOK, ReportsOK
  <2>2. /\ \A n \in 1..(i[q] - 1) :
              \E r \in 1..Len(attempts[q]) : attempts[q][r].ordinal = n
        /\ \A r1, r2 \in 1..Len(attempts[q]) :
              r1 < r2 => \/ attempts[q][r1].ordinal < attempts[q][r2].ordinal
                         \/ attempts[q][r2].kind = "thrown"
    BY DEF RequestOK, ReportsOK
  <2> QED
    BY <2>1, <2>2 DEF ReportsOK, After
<1>8. AnswerOK(q)'
  BY DEF RequestOK, AnswerOK, Before
<1> QED
  BY <1>4, <1>5, <1>7, <1>8 DEF RequestOK

(* The call's report, or that of an exception after it.                    *)
LEMMA ReportCall ==
    ASSUME TypeOK, NEW q \in Caller, RequestOK(q), pc'[q] \in After,
           NEW kind \in {"ok", "thrown"} \cup FailureClass,
           attempts'[q] = Append(attempts[q], [ordinal |-> i[q], kind |-> kind]),
           outcome'[q] = kind,
           \/ pc[q] = "calling"
           \/ pc[q] \in After /\ kind = "thrown",
           pc'[q] \in {"okModel", "okProvider"} => kind = "ok",
           i'[q] = i[q], cands'[q] = cands[q], called'[q] = called[q],
           answer'[q] = answer[q]
    PROVE  RequestOK(q)'
<1> DEFINE e == [ordinal |-> i[q], kind |-> kind]
<1>1. i[q] \in Nat \ {0} /\ e \in Report /\ kind \notin {"cooldown_active", "unregistered"}
  BY ExecTypes DEF Report, FailureClass
<1>2. /\ Len(attempts'[q]) = Len(attempts[q]) + 1 /\ Len(attempts[q]) \in Nat
      /\ \A n \in 1..Len(attempts[q]) : attempts'[q][n] = attempts[q][n]
      /\ attempts'[q][Len(attempts[q]) + 1] = e
  BY <1>1, ExecTypes, AppendFacts
<1>3. /\ i[q] <= Limit(cands[q]) /\ Len(called[q]) > 0 /\ called[q][Len(called[q])] = i[q]
      /\ Len(called[q]) \in Nat
  BY ExecTypes DEF RequestOK, IndexOK, CallsOK
<1>4. IndexOK(q)' /\ CallsOK(q)'
  BY <1>3 DEF RequestOK, IndexOK, CallsOK, Before, After, Limit
<1>5. \A r \in 1..Len(attempts[q]) :
         /\ attempts[q][r].ordinal <= i[q] /\ attempts[q][r].ordinal \in Nat
         /\ pc[q] = "calling" => attempts[q][r].ordinal < i[q]
  BY ExecTypes DEF RequestOK, ReportsOK
<1>6. ReportsOK(q)'
  <2>1. ASSUME NEW r \in 1..Len(attempts'[q])
        PROVE  /\ attempts'[q][r].ordinal <= i'[q]
               /\ (\E n \in 1..Len(called'[q]) : called'[q][n] = attempts'[q][r].ordinal)
                     <=> attempts'[q][r].kind \notin {"cooldown_active", "unregistered"}
    <3>1. CASE r \in 1..Len(attempts[q])
      BY <1>2, <1>5, <3>1 DEF RequestOK, ReportsOK
    <3>2. CASE r = Len(attempts[q]) + 1
      BY <1>1, <1>2, <1>3, <3>2
    <3> QED
      BY <1>2, <2>1, <3>1, <3>2
  <2>2. ASSUME NEW n \in 1..(i'[q] - 1)
        PROVE  \E r \in 1..Len(attempts'[q]) : attempts'[q][r].ordinal = n
    <3>1. PICK r \in 1..Len(attempts[q]) : attempts[q][r].ordinal = n
      BY DEF RequestOK, ReportsOK
    <3> QED
      BY <1>2, <3>1
  <2>3. ASSUME NEW r1 \in 1..Len(attempts'[q]), NEW r2 \in 1..Len(attempts'[q]), r1 < r2
        PROVE  \/ attempts'[q][r1].ordinal < attempts'[q][r2].ordinal
               \/ attempts'[q][r2].kind = "thrown"
    <3>1. r1 \in 1..Len(attempts[q])
      BY <1>2, <2>3
    <3>2. CASE r2 \in 1..Len(attempts[q])
      BY <1>2, <2>3, <3>1, <3>2 DEF RequestOK, ReportsOK
    <3>3. CASE r2 = Len(attempts[q]) + 1
      BY <1>2, <1>5, <3>1, <3>3
    <3> QED
      BY <1>2, <3>2, <3>3
  <2>4. \E r \in 1..Len(attempts'[q]) : attempts'[q][r].ordinal = i'[q]
    BY <1>2
  <2> QED
    BY <2>1, <2>2, <2>3, <2>4 DEF ReportsOK, Before, After
<1>7. AnswerOK(q)'
  <2>1. answer[q] = "none"
    BY DEF RequestOK, AnswerOK, After
  <2>2. pc'[q] \in {"okModel", "okProvider"} => LastCallOk(q)'
    BY <1>2, <1>3 DEF LastCallOk
  <2> QED
    BY <2>1, <2>2 DEF AnswerOK, After
<1> QED
  BY <1>4, <1>6, <1>7 DEF RequestOK

(* After a retriable failure the loop goes on with the next candidate.     *)
LEMMA NextCandidate ==
    ASSUME TypeOK, NEW q \in Caller, RequestOK(q), pc[q] \in After, pc'[q] = "loop",
           i'[q] = i[q] + 1, cands'[q] = cands[q], attempts'[q] = attempts[q],
           called'[q] = called[q], answer'[q] = answer[q]
    PROVE  RequestOK(q)'
<1>1. /\ i[q] \in Nat \ {0} /\ Len(called[q]) \in Nat /\ Len(attempts[q]) \in Nat
      /\ \A n \in 1..Len(called[q]) : called[q][n] \in Nat
      /\ \A r \in 1..Len(attempts[q]) : attempts[q][r].ordinal \in Nat
  BY ExecTypes
<1>2. IndexOK(q)' /\ CallsOK(q)'
  BY <1>1 DEF RequestOK, IndexOK, CallsOK, After, Limit
<1>3. ASSUME NEW n \in 1..(i'[q] - 1)
      PROVE  \E r \in 1..Len(attempts[q]) : attempts[q][r].ordinal = n
  <2>1. n = i[q] \/ n \in 1..(i[q] - 1)
    BY <1>1
  <2> QED
    BY <2>1 DEF RequestOK, ReportsOK
<1>4. ReportsOK(q)'
  <2>1. \A r \in 1..Len(attempts[q]) : attempts[q][r].ordinal < i'[q]
    BY <1>1 DEF RequestOK, ReportsOK
  <2>2. \A r \in 1..Len(attempts[q]) : attempts[q][r].ordinal <= i'[q]
    BY <1>1, <2>1
  <2>3. /\ \A r \in 1..Len(attempts[q]) :
              (\E n \in 1..Len(called[q]) : called[q][n] = attempts[q][r].ordinal)
                 <=> attempts[q][r].kind \notin {"cooldown_active", "unregistered"}
        /\ \A r1, r2 \in 1..Len(attempts[q]) :
              r1 < r2 => \/ attempts[q][r1].ordinal < attempts[q][r2].ordinal
                         \/ attempts[q][r2].kind = "thrown"
    BY DEF RequestOK, ReportsOK
  <2> QED
    BY <1>3, <2>1, <2>2, <2>3 DEF ReportsOK, After
<1>5. AnswerOK(q)'
  BY DEF RequestOK, AnswerOK, After
<1> QED
  BY <1>2, <1>4, <1>5 DEF RequestOK

(* A new request, or the first one.                                        *)
LEMMA Fresh ==
    ASSUME NEW q \in Caller, pc'[q] \in {"idle", "loop"}, called'[q] = <<>>,
           attempts'[q] = <<>>, i'[q] = 1, answer'[q] = "none"
    PROVE  RequestOK(q)'
BY DEF RequestOK, IndexOK, CallsOK, ReportsOK, AnswerOK, After

-----------------------------------------------------------------------------
(***************************************************************************)
(* The steps of execute, one case per action.                              *)
(***************************************************************************)
RequestStep(q) == Begin(q) \/ ExecuteStep(q)

Others(q) ==
    \A d \in Caller \ {q} :
        /\ pc'[d] = pc[d] /\ cands'[d] = cands[d] /\ i'[d] = i[d]
        /\ attempts'[d] = attempts[d] /\ called'[d] = called[d]
        /\ outcome'[d] = outcome[d] /\ answer'[d] = answer[d]

(* A request's step leaves the other requests' fields alone.               *)
LEMMA StepOthers ==
    ASSUME TypeOK, NEW q \in Caller, RequestStep(q)
    PROVE  Others(q)
<1> USE DEF TypeOK, Others, Goto, Push
<1>1. CASE Begin(q) \/ NoRoute(q) \/ Exhausted(q) \/ SkipUnregistered(q) \/ CheckModel(q)
  BY <1>1 DEF Begin, NoRoute, Exhausted, SkipUnregistered, CheckModel
<1>2. CASE SkipCooling(q) \/ CheckProvider(q) \/ CallUpstream(q) \/ UpstreamOk(q)
  BY <1>2 DEF SkipCooling, CheckProvider, CallUpstream, UpstreamOk
<1>3. CASE SuccessModelDone(q) \/ SuccessProviderDone(q) \/ UpstreamFail(q)
  BY <1>3 DEF SuccessModelDone, SuccessProviderDone, UpstreamFail
<1>4. CASE FailureModelDone(q) \/ FailureDone(q) \/ Catch(q) \/ CatchDone(q)
  BY <1>4 DEF FailureModelDone, FailureDone, Catch, CatchDone, NextOrBreak
<1>5. CASE Rejected(q) \/ Persist(q)
  BY <1>5 DEF Rejected, Persist
<1> QED
  BY <1>1, <1>2, <1>3, <1>4, <1>5 DEF RequestStep, ExecuteStep

(* Starting and ending an engine operation keeps the engine's invariant.   *)
LEMMA OpChange ==
    ASSUME EngineInv, NEW q \in Caller, rows' = rows,
           \/ op' = op
           \/ EndOp(q)
           \/ \E fn \in {"check", "failure", "success"}, k \in Key : StartOp(q, fn, k)
    PROVE  EngineInv'
<1>1. IdleOp.at = "idle"
  BY DEF IdleOp
<1>2. CASE op' = op
  BY <1>2 DEF EngineInv, EngineTypeOK, OpOK
<1>3. CASE EndOp(q)
  BY <1>1, <1>3, IdleOpType DEF EndOp, EngineInv, EngineTypeOK, OpOK
<1>4. CASE \E fn \in {"check", "failure", "success"}, k \in Key : StartOp(q, fn, k)
  BY <1>4, CallType DEF StartOp, EngineInv, EngineTypeOK, OpOK
<1> QED
  BY <1>2, <1>3, <1>4

LEMMA StepEngine ==
    ASSUME IInv, NEW q \in Caller, RequestStep(q)
    PROVE  EngineInv'
<1>1. TypeOK /\ EngineInv /\ IndexOK(q)
  BY DEF IInv, RequestOK
<1>2. \/ rows' = rows /\ (op' = op \/ EndOp(q))
      \/ CheckModel(q) \/ CheckProvider(q) \/ UpstreamOk(q) \/ SuccessModelDone(q)
      \/ UpstreamFail(q) \/ FailureModelDone(q) \/ Catch(q)
  BY DEF RequestStep, ExecuteStep, Begin, NoRoute, Exhausted, SkipUnregistered, SkipCooling,
     CallUpstream, SuccessProviderDone, FailureDone, CatchDone, NextOrBreak, Rejected, Persist
<1>3. CASE rows' = rows /\ (op' = op \/ EndOp(q))
  BY <1>1, <1>3, OpChange
<1>4. CASE CheckModel(q) \/ CheckProvider(q) \/ UpstreamOk(q) \/ SuccessModelDone(q)
           \/ UpstreamFail(q) \/ FailureModelDone(q) \/ Catch(q)
  <2>1. i[q] <= Limit(cands[q])
    BY <1>1, <1>4 DEF IndexOK, After, At, CheckModel, CheckProvider, UpstreamOk,
       SuccessModelDone, UpstreamFail, FailureModelDone, Catch
  <2>2. TheModel(q) \in Key /\ TheProvider(q) \in Key
    BY <1>1, <2>1, CandidateKeys
  <2>3. rows' = rows /\ \E fn \in {"check", "failure", "success"} :
                           StartOp(q, fn, TheModel(q)) \/ StartOp(q, fn, TheProvider(q))
    BY <1>4 DEF CheckModel, CheckProvider, UpstreamOk, SuccessModelDone, UpstreamFail,
       FailureModelDone, Catch
  <2> QED
    BY <1>1, <2>2, <2>3, OpChange
<1> QED
  BY <1>2, <1>3, <1>4

LEMMA ReportType ==
    ASSUME TypeOK, NEW q \in Caller,
           NEW kind \in {"ok", "cooldown_active", "unregistered", "thrown"} \cup FailureClass,
           Push(q, kind)
    PROVE  attempts' \in [Caller -> Seq(Report)]
<1>1. [ordinal |-> i[q], kind |-> kind] \in Report
  BY ExecTypes DEF Report
<1> QED
  BY <1>1 DEF TypeOK, Push

LEMMA LogType ==
    ASSUME TypeOK, NEW q \in Caller, NEW n \in 0..3
    PROVE  LogAfter(q, n) \in Log
<1>1. Len(attempts[q]) \in Nat /\ attempts[q] \in Seq(Report)
  BY ExecTypes
<1> QED
  BY <1>1 DEF LogAfter, Log

(* The fields of TypeOK that are not the engine's.                         *)
LEMMA StepTypes ==
    ASSUME TypeOK, NEW q \in Caller, RequestStep(q)
    PROVE  /\ pc' \in [Caller -> PC]
           /\ cands' \in [Caller -> Seq(Model)]
           /\ i' \in [Caller -> Nat \ {0}]
           /\ attempts' \in [Caller -> Seq(Report)]
           /\ called' \in [Caller -> Seq(Nat \ {0})]
           /\ outcome' \in [Caller -> Outcome]
           /\ answer' \in [Caller -> Answer]
           /\ logged' \in [Caller -> Log]
           /\ faults' \in Nat
<1> USE DEF TypeOK, Goto, PC, Answer, Outcome
<1>1. i[q] + 1 \in Nat \ {0} /\ Append(called[q], i[q]) \in Seq(Nat \ {0})
  BY ExecTypes
<1>2. CASE Begin(q)
  BY <1>2, ExecutorAssumption DEF Begin, NoLog, Log
<1>3. CASE NoRoute(q) \/ Exhausted(q) \/ CheckModel(q) \/ CheckProvider(q)
  BY <1>3 DEF NoRoute, Exhausted, CheckModel, CheckProvider
<1>4. CASE SkipUnregistered(q)
  BY <1>1, <1>4, ReportType DEF SkipUnregistered
<1>5. CASE SkipCooling(q)
  BY <1>1, <1>5, ReportType DEF SkipCooling
<1>6. CASE CallUpstream(q)
  BY <1>1, <1>6 DEF CallUpstream
<1>7. CASE UpstreamOk(q)
  BY <1>7, ReportType DEF UpstreamOk
<1>8. CASE SuccessModelDone(q) \/ SuccessProviderDone(q) \/ FailureModelDone(q) \/ Rejected(q)
  BY <1>8 DEF SuccessModelDone, SuccessProviderDone, FailureModelDone, Rejected
<1>9. CASE UpstreamFail(q)
  BY <1>9, ReportType DEF UpstreamFail
<1>10. CASE FailureDone(q) \/ CatchDone(q)
  BY <1>1, <1>10, ZenonT(30) DEF FailureDone, CatchDone, NextOrBreak
<1>11. CASE Catch(q)
  BY <1>11, ReportType DEF Catch
<1>12. CASE Persist(q)
  BY <1>12, LogType DEF Persist
<1> QED
  BY <1>2, <1>3, <1>4, <1>5, <1>6, <1>7, <1>8, <1>9, <1>10, <1>11, <1>12
  DEF RequestStep, ExecuteStep

LEMMA StepRequest ==
    ASSUME IInv, NEW q \in Caller, RequestStep(q)
    PROVE  RequestOK(q)'
<1>1. TypeOK /\ RequestOK(q)
  BY DEF IInv
<1>2. /\ pc[q] \notin {"persist", "answered"} => answer[q] = "none"
      /\ pc[q] \in {"gateModel", "gateProvider", "calling"} \cup After => i[q] <= Limit(cands[q])
  BY <1>1 DEF RequestOK, AnswerOK, IndexOK
<1> USE <1>1 DEF TypeOK, At, Goto
<1>3. CASE Begin(q)
  BY <1>3, Fresh DEF Begin
<1>4. CASE NoRoute(q) \/ Exhausted(q)
  BY <1>2, <1>4, MoveOnly DEF NoRoute, Exhausted, Before, After
<1>5. CASE SkipUnregistered(q)
  BY <1>5, PassOver DEF SkipUnregistered, Push, Before
<1>6. CASE CheckModel(q) \/ CheckProvider(q)
  BY <1>2, <1>6, MoveOnly DEF CheckModel, CheckProvider, Before, After
<1>7. CASE SkipCooling(q)
  BY <1>7, PassOver DEF SkipCooling, Push, Before
<1>8. CASE CallUpstream(q)
  BY <1>8, StartCall DEF CallUpstream
<1>9. CASE UpstreamOk(q)
  BY <1>9, ReportCall DEF UpstreamOk, Push, After
<1>10. CASE UpstreamFail(q)
  BY <1>10, ReportCall DEF UpstreamFail, Push, After
<1>11. CASE Catch(q)
  BY <1>11, ReportCall DEF Catch, Push, After
<1>12. CASE SuccessModelDone(q) \/ FailureModelDone(q)
  BY <1>2, <1>12, MoveOnly DEF SuccessModelDone, FailureModelDone, Before, After
<1>13. CASE SuccessProviderDone(q)
  BY <1>2, <1>13, MoveOnly DEF SuccessProviderDone, Before, After
<1>14. CASE FailureDone(q) \/ CatchDone(q)
  <2>1. pc[q] \in {"failModel", "failProvider", "catchModel"} /\ NextOrBreak(q)
    BY <1>14 DEF FailureDone, CatchDone
  <2>2. CASE outcome[q] \in RetryOn
    BY <2>1, <2>2, NextCandidate DEF NextOrBreak, After
  <2>3. CASE outcome[q] \notin RetryOn
    BY <1>2, <2>1, <2>3, MoveOnly DEF NextOrBreak, Before, After
  <2> QED
    BY <2>2, <2>3
<1>15. CASE Rejected(q)
  BY <1>2, <1>15, MoveOnly DEF Rejected, Before, After
<1>16. CASE Persist(q)
  BY <1>2, <1>16, MoveOnly DEF Persist, Before, After
<1> QED
  BY <1>3, <1>4, <1>5, <1>6, <1>7, <1>8, <1>9, <1>10, <1>11, <1>12, <1>13, <1>14,
     <1>15, <1>16 DEF RequestStep, ExecuteStep

-----------------------------------------------------------------------------

LEMMA InitIInv == Init => IInv
<1> SUFFICES ASSUME Init PROVE IInv
  OBVIOUS
<1>1. EngineTypeOK /\ \A c \in Caller : op[c] = IdleOp
  BY IdleOpType, NoRowAssumption DEF Init, EngineInit, EngineTypeOK, Table
<1>2. EngineInv
  <2>1. IdleOp.at = "idle"
    BY DEF IdleOp
  <2> QED
    BY <1>1, <2>1 DEF EngineInv, OpOK
<1>3. TypeOK
  BY <1>1 DEF TypeOK, Init, PC, Outcome, Answer, Log, NoLog
<1>4. ASSUME NEW q \in Caller PROVE RequestOK(q)
  BY DEF Init, RequestOK, IndexOK, CallsOK, ReportsOK, AnswerOK, Before, After
<1> QED
  BY <1>2, <1>3, <1>4 DEF IInv

(* Steps of the engine, of the database and of the environment.            *)
LEMMA SameRequests ==
    ASSUME IInv, EngineInv', UNCHANGED execVars, faults' \in Nat
    PROVE  IInv'
<1>1. TypeOK'
  BY DEF IInv, TypeOK, EngineInv, execVars
<1>2. ASSUME NEW q \in Caller PROVE RequestOK(q)'
  BY DEF IInv, RequestOK, IndexOK, CallsOK, ReportsOK, AnswerOK, LastCallOk, Limit, execVars
<1> QED
  BY <1>1, <1>2 DEF IInv

LEMMA NextIInv == IInv /\ [Next]_vars => IInv'
<1> SUFFICES ASSUME IInv, [Next]_vars PROVE IInv'
  OBVIOUS
<1>1. TypeOK /\ EngineInv /\ \A q \in Caller : RequestOK(q)
  BY DEF IInv
<1>2. ASSUME NEW q \in Caller, RequestStep(q) PROVE IInv'
  <2>1. EngineInv'
    BY <1>2, StepEngine
  <2>2. TypeOK'
    BY <1>1, <1>2, <2>1, StepTypes DEF TypeOK, EngineInv
  <2>3. ASSUME NEW d \in Caller \ {q} PROVE RequestOK(d)'
    <3>1. /\ pc'[d] = pc[d] /\ cands'[d] = cands[d] /\ i'[d] = i[d]
          /\ attempts'[d] = attempts[d] /\ called'[d] = called[d]
          /\ outcome'[d] = outcome[d] /\ answer'[d] = answer[d]
      BY <1>1, <1>2, StepOthers DEF Others
    <3> QED
      BY <1>1, <3>1
      DEF RequestOK, IndexOK, CallsOK, ReportsOK, AnswerOK, LastCallOk, Limit
  <2> QED
    BY <1>2, <2>1, <2>2, <2>3, StepRequest DEF IInv
<1>3. ASSUME NEW q \in Caller, Engine(q) PROVE IInv'
  BY <1>1, <1>3, EngineStepInv, SameRequests DEF Engine, TypeOK
<1>4. ASSUME NEW q \in Caller, DbFault(q) PROVE IInv'
  <2>1. [op[q] EXCEPT !.at = "threw"] \in Op /\ [op[q] EXCEPT !.at = "threw"].at = "threw"
    BY <1>1 DEF EngineInv, EngineTypeOK, Op, Stage
  <2>2. EngineInv'
    BY <1>1, <1>4, <2>1 DEF DbFault, EngineInv, EngineTypeOK, OpOK
  <2> QED
    BY <1>1, <1>4, <2>2, SameRequests DEF DbFault, TypeOK
<1>5. CASE Environment
  BY <1>1, <1>5, EnvironmentInv, SameRequests DEF Environment, TypeOK
<1>6. CASE UNCHANGED vars
  BY <1>1, <1>6, SameRequests DEF vars, EngineInv, EngineTypeOK, OpOK, TypeOK
<1> QED
  BY <1>2, <1>3, <1>4, <1>5, <1>6 DEF Next, RequestStep

(* The inductive invariant, under every store, refusal and fault.          *)
THEOREM Invariance == Spec => []IInv
BY InitIInv, NextIInv, PTL DEF Spec

(* Every field of every request, log and engine operation keeps its type.  *)
THEOREM TypeCorrect == Spec => []TypeOK
<1>1. IInv => TypeOK
  BY DEF IInv
<1> QED
  BY <1>1, Invariance, PTL

(* No provider is called twice for one candidate, out of the plan's order  *)
(* or beyond maxAttempts, even if cooldown writes fail after a call.       *)
THEOREM CallsAlwaysFollowPlan == Spec => []CallsFollowPlan
<1>1. IInv => CallsFollowPlan
  BY DEF IInv, RequestOK, CallsOK, CallsFollowPlan
<1> QED
  BY <1>1, Invariance, PTL

(* The reports persisted and returned tell exactly which upstreams were    *)
(* called, in order, with a second report only for an exception.           *)
THEOREM ReportsAlwaysMatchCalls == Spec => []ReportsMatchCalls
<1>1. ASSUME IInv, NEW q \in Caller
      PROVE  /\ \A r \in 1..Len(attempts[q]) :
                   attempts[q][r].ordinal \in Called(q)
                      <=> attempts[q][r].kind \notin {"cooldown_active", "unregistered"}
             /\ \A n \in 1..(i[q] - 1) : Reports(q, n) # {}
             /\ \A r1, r2 \in 1..Len(attempts[q]) :
                   r1 < r2 => \/ attempts[q][r1].ordinal < attempts[q][r2].ordinal
                              \/ attempts[q][r2].kind = "thrown"
  <2>1. ReportsOK(q)
    BY <1>1 DEF IInv, RequestOK
  <2>2. \A r \in 1..Len(attempts[q]) :
           attempts[q][r].ordinal \in Called(q)
              <=> attempts[q][r].kind \notin {"cooldown_active", "unregistered"}
    BY <2>1 DEF ReportsOK, Called
  <2>3. \A n \in 1..(i[q] - 1) : Reports(q, n) # {}
    BY <2>1 DEF ReportsOK, Reports
  <2> QED
    BY <2>1, <2>2, <2>3 DEF ReportsOK
<1>2. IInv => ReportsMatchCalls
  BY <1>1 DEF ReportsMatchCalls
<1> QED
  BY <1>2, Invariance, PTL

(* A response is never returned for another call than the last, nor after  *)
(* its report was superseded by an exception's.                            *)
THEOREM ResponseAlwaysLastCall == Spec => []ResponseIsLastCall
<1>1. IInv => ResponseIsLastCall
  BY DEF IInv, RequestOK, AnswerOK, LastCallOk, ResponseIsLastCall
<1> QED
  BY <1>1, Invariance, PTL

-----------------------------------------------------------------------------
(* execute implements RouteContract when no cooldown write is refused or   *)
(* fails: every state of the loop maps to a state of the contract, the     *)
(* gates, the cooldown writes and the persistence to stutters.  The        *)
(* assumption is needed: with a failing write the loop calls a further     *)
(* upstream after a success.                                               *)

(* The outcome that goes with each await.                                  *)
OutcomeOK(q) ==
    /\ pc[q] = "calling" <=> outcome[q] = "pending"
    /\ pc[q] \in Before => outcome[q] \in {"none"} \cup RetryOn
    /\ pc[q] \in {"failModel", "failProvider", "catchModel"} =>
          outcome[q] \in FailureClass \cup {"thrown"}
    /\ pc[q] = "persist" => /\ answer[q] \in {"none", "response"}
                            /\ answer[q] = "response" <=> outcome[q] = "ok"
    /\ pc[q] \notin {"idle", "loop", "answered"} => cands[q] # <<>>
    /\ pc[q] = "loop" /\ cands[q] = <<>> => outcome[q] = "none"

NoThrow == faults = 0 /\ \A c \in Caller : op[c].at # "threw"

RInv == IInv /\ NoThrow /\ \A q \in Caller : OutcomeOK(q)

-----------------------------------------------------------------------------

(* A store that accepts every write lets no operation throw.               *)
LEMMA EngineNoThrow ==
    ASSUME ForeignKeyOK = Key, EngineInv, NoThrow, NEW c \in Caller, EngineStep(c),
           faults' = faults
    PROVE  NoThrow'
<1>1. /\ op \in [Caller -> Op] /\ op[c] \in Op /\ op[c].key \in Key
      /\ \A d \in Caller : op[d].at # "threw"
  BY DEF EngineInv, EngineTypeOK, Op, NoThrow
<1>2. \A v \in Verdict : Finish(c, v).at = "done"
  BY <1>1, FinishType
<1>3. Written(c).at = "done"
  BY <1>2 DEF Written, Verdict
<1>4. SUFFICES \E o : op' = [op EXCEPT ![c] = o] /\ o.at # "threw"
  BY <1>1 DEF NoThrow
<1>5. CASE Find(c)
  <2>1. \A at2, seen : [op[c] EXCEPT !.at = "upsertFind", !.seen = seen].at = "upsertFind"
    BY <1>1 DEF Op
  <2>2. \A id : [op[c] EXCEPT !.at = "reset", !.target = id].at = "reset"
    BY <1>1 DEF Op
  <2>3. ASSUME NEW seen \in Row \cup {NoRow}, NEW id PROVE AfterFind(c, seen, id).at # "threw"
    <3>1. CASE seen = NoRow
      BY <1>1, <1>2, <2>1, <2>2, <3>1 DEF AfterFind, Verdict
    <3>2. CASE seen # NoRow
      <4>1. seen.expiry \in Expiry /\ seen.halfOpen \in BOOLEAN
        BY <3>2 DEF Row
      <4>2. CASE op[c].fn = "check" /\ (seen.expiry = "future" \/ seen.halfOpen)
        BY <1>2, <3>2, <4>2 DEF AfterFind, Verdict
      <4>3. CASE op[c].fn = "check" /\ seen.expiry # "future" /\ ~seen.halfOpen
        BY <2>1, <3>2, <4>3 DEF AfterFind
      <4>4. CASE op[c].fn # "check"
        BY <1>1, <2>1, <2>2, <3>2, <4>4 DEF AfterFind
      <4> QED
        BY <4>1, <4>2, <4>3, <4>4
    <3> QED
      BY <3>1, <3>2
  <2>4. \A r \in FindActive(rows, op[c].key) : rows[r] \in Row
    BY DEF FindActive, RowsOf, EngineInv, EngineTypeOK, Table
  <2> QED
    BY <1>5, <2>3, <2>4 DEF Find
<1>6. CASE UpsertFind(c)
  <2>1. \E t : op' = [op EXCEPT ![c] = [op[c] EXCEPT !.at = "upsertWrite", !.target = t]]
    BY <1>6 DEF UpsertFind
  <2>2. \A t : [op[c] EXCEPT !.at = "upsertWrite", !.target = t].at = "upsertWrite"
    BY <1>1 DEF Op
  <2> QED
    BY <2>1, <2>2
<1>7. CASE UpsertUpdate(c) \/ UpsertCreate(c) \/ MemoryUpsert(c)
  BY <1>3, <1>7 DEF UpsertUpdate, UpsertCreate, MemoryUpsert
<1>8. CASE UpsertRefused(c)
  BY <1>1, <1>8 DEF UpsertRefused
<1>9. CASE Reset(c)
  BY <1>2, <1>9 DEF Reset, Verdict
<1> QED
  BY <1>5, <1>6, <1>7, <1>8, <1>9 DEF EngineStep

-----------------------------------------------------------------------------

LEMMA StepOutcome ==
    ASSUME RInv, NEW q \in Caller, RequestStep(q)
    PROVE  OutcomeOK(q)'
<1>1. /\ OutcomeOK(q) /\ AnswerOK(q) /\ op[q].at # "threw" /\ TypeOK
      /\ pc[q] \in PC /\ outcome[q] \in Outcome /\ IndexOK(q)
  BY DEF RInv, IInv, RequestOK, NoThrow, TypeOK
<1>2. /\ RetryOn \subseteq FailureClass \cup {"thrown"}
      /\ "pending" \notin FailureClass /\ "none" \notin FailureClass
      /\ "ok" \notin FailureClass
  BY ExecutorAssumption DEF FailureClass
<1>3. /\ pc[q] \notin {"persist", "answered"} => answer[q] = "none"
      /\ pc[q] \in {"okModel", "okProvider"} => outcome[q] = "ok"
  BY <1>1 DEF AnswerOK, LastCallOk
<1>4. i[q] <= Limit(cands[q]) => cands[q] # <<>>
  <2>1. i[q] \in Nat \ {0} /\ Limit(cands[q]) <= Len(cands[q]) /\ Limit(cands[q]) \in Nat
    BY <1>1, ExecTypes
  <2> QED
    BY <2>1
<1> USE DEF At, Goto, OutcomeOK, Before, TypeOK
<1>5. CASE Begin(q)
  BY <1>1, <1>5 DEF Begin
<1>6. CASE NoRoute(q) \/ Persist(q)
  BY <1>1, <1>2, <1>6 DEF NoRoute, Persist
<1>7. CASE Exhausted(q)
  BY <1>1, <1>2, <1>3, <1>7 DEF Exhausted
<1>8. CASE SkipUnregistered(q) \/ CheckModel(q)
  BY <1>1, <1>2, <1>4, <1>8 DEF SkipUnregistered, CheckModel
<1>9. CASE SkipCooling(q) \/ CheckProvider(q)
  BY <1>1, <1>2, <1>9 DEF SkipCooling, CheckProvider
<1>10. CASE CallUpstream(q)
  BY <1>1, <1>10 DEF CallUpstream
<1>11. CASE UpstreamOk(q)
  BY <1>1, <1>11 DEF UpstreamOk
<1>12. CASE SuccessModelDone(q) \/ SuccessProviderDone(q)
  BY <1>1, <1>3, <1>12 DEF SuccessModelDone, SuccessProviderDone
<1>13. CASE UpstreamFail(q)
  BY <1>1, <1>2, <1>13 DEF UpstreamFail
<1>14. CASE FailureModelDone(q)
  BY <1>1, <1>14 DEF FailureModelDone
<1>15. CASE FailureDone(q) \/ CatchDone(q)
  <2>1. pc[q] \in {"failModel", "failProvider", "catchModel"} /\ NextOrBreak(q)
    BY <1>15 DEF FailureDone, CatchDone
  <2> QED
    BY <1>1, <1>2, <1>3, <2>1 DEF NextOrBreak
<1>16. CASE Catch(q)
  BY <1>1, <1>16 DEF Catch, OpThrew
<1>17. CASE Rejected(q)
  BY <1>1, <1>17 DEF Rejected, OpThrew
<1> QED
  BY <1>5, <1>6, <1>7, <1>8, <1>9, <1>10, <1>11, <1>12, <1>13, <1>14, <1>15, <1>16, <1>17
  DEF RequestStep, ExecuteStep

(* No step of execute throws, and only a fault would be counted.           *)
LEMMA StepNoThrow ==
    ASSUME MaxDbFaults = 0, RInv, NEW q \in Caller, RequestStep(q)
    PROVE  NoThrow'
<1>1. faults = 0 /\ op \in [Caller -> Op] /\ (\A c \in Caller : op[c].at # "threw")
  BY DEF RInv, NoThrow, IInv, EngineInv, EngineTypeOK
<1>2. IdleOp.at = "idle" /\ \A fn, k : Call(fn, k).at = "find"
  BY DEF IdleOp, Call
<1>3. faults' = faults
  <2>1. CASE Persist(q)
    BY <1>1, <2>1 DEF Persist
  <2> QED
    BY <2>1 DEF RequestStep, ExecuteStep, Begin, NoRoute, Exhausted, SkipUnregistered,
       CheckModel, SkipCooling, CheckProvider, CallUpstream, UpstreamOk, SuccessModelDone,
       SuccessProviderDone, UpstreamFail, FailureModelDone, FailureDone, Catch, CatchDone,
       NextOrBreak, Rejected
<1>4. op' = op \/ EndOp(q) \/ \E fn, k : StartOp(q, fn, k)
  BY DEF RequestStep, ExecuteStep, Begin, NoRoute, Exhausted, SkipUnregistered,
     CheckModel, SkipCooling, CheckProvider, CallUpstream, UpstreamOk, SuccessModelDone,
     SuccessProviderDone, UpstreamFail, FailureModelDone, FailureDone, Catch, CatchDone,
     NextOrBreak, Rejected, Persist
<1> QED
  BY <1>1, <1>2, <1>3, <1>4 DEF EndOp, StartOp, NoThrow

LEMMA NextRInv ==
    ASSUME ForeignKeyOK = Key, MaxDbFaults = 0
    PROVE  RInv /\ [Next]_vars => RInv'
<1> SUFFICES ASSUME RInv, [Next]_vars PROVE RInv'
  OBVIOUS
<1>1. IInv /\ IInv' /\ NoThrow /\ \A q \in Caller : OutcomeOK(q)
  BY NextIInv DEF RInv
<1>2. ASSUME NEW q \in Caller, RequestStep(q) PROVE RInv'
  <2>1. ASSUME NEW d \in Caller \ {q} PROVE OutcomeOK(d)'
    <3>1. /\ pc'[d] = pc[d] /\ cands'[d] = cands[d] /\ outcome'[d] = outcome[d]
          /\ answer'[d] = answer[d]
      BY <1>1, <1>2, StepOthers DEF Others, IInv
    <3> QED
      BY <1>1, <3>1 DEF OutcomeOK
  <2> QED
    BY <1>1, <1>2, <2>1, StepOutcome, StepNoThrow DEF RInv
<1>3. ASSUME UNCHANGED execVars PROVE \A q \in Caller : OutcomeOK(q)'
  BY <1>1, <1>3 DEF OutcomeOK, execVars
<1>4. ASSUME NEW q \in Caller, Engine(q) PROVE RInv'
  BY <1>1, <1>3, <1>4, EngineNoThrow DEF Engine, RInv, IInv
<1>5. ASSUME NEW q \in Caller, DbFault(q) PROVE FALSE
  BY <1>1, <1>5 DEF DbFault, NoThrow
<1>6. CASE Environment
  BY <1>1, <1>3, <1>6, EnvironmentInv DEF Environment, RInv, IInv, NoThrow
<1>7. CASE UNCHANGED vars
  BY <1>1, <1>3, <1>7 DEF vars, RInv, NoThrow
<1> QED
  BY <1>2, <1>4, <1>5, <1>6, <1>7 DEF Next, RequestStep

LEMMA InitRInv == Init => RInv
<1> SUFFICES ASSUME Init PROVE RInv
  OBVIOUS
<1>1. NoThrow
  <2>1. IdleOp.at = "idle"
    BY DEF IdleOp
  <2> QED
    BY <2>1 DEF Init, EngineInit, NoThrow
<1>2. \A q \in Caller : OutcomeOK(q)
  BY DEF Init, OutcomeOK, Before
<1> QED
  BY <1>1, <1>2, InitIInv DEF RInv

-----------------------------------------------------------------------------
(***************************************************************************)
(* The mapping.                                                            *)
(***************************************************************************)
SameView ==
    /\ cands' = cands
    /\ called' = called
    /\ \A q \in Caller : /\ PhaseOf(q)' = PhaseOf(q)
                         /\ FateOf(q)' = FateOf(q)
                         /\ AnswerOf(q)' = AnswerOf(q)

LEMMA SameViewStutters == SameView => UNCHANGED Contract!contractVars
BY DEF SameView, Contract!contractVars

(* An await between two steps of the contract.                             *)
LEMMA Hidden ==
    ASSUME TypeOK, NEW q \in Caller, Others(q), cands' = cands, called' = called,
           outcome' = outcome,
           pc[q] \notin {"idle", "answered"}, pc'[q] \notin {"idle", "answered"}
    PROVE  SameView
BY DEF SameView, Others, PhaseOf, FateOf, AnswerOf

(* What the other requests look like to the contract does not change.      *)
LEMMA OthersView ==
    ASSUME TypeOK, NEW q \in Caller, Others(q)
    PROVE  \A d \in Caller \ {q} : /\ PhaseOf(d)' = PhaseOf(d)
                                   /\ FateOf(d)' = FateOf(d)
                                   /\ AnswerOf(d)' = AnswerOf(d)
BY DEF Others, PhaseOf, FateOf, AnswerOf

LEMMA FateCases ==
    ASSUME NEW q \in Caller
    PROVE  /\ outcome[q] \in {"none", "pending", "ok"} => FateOf(q) = outcome[q]
           /\ outcome[q] \in RetryOn => FateOf(q) = "retriable"
           /\ outcome[q] \notin {"none", "pending", "ok"} =>
                 FateOf(q) \in {"retriable", "fatal"}
BY ExecutorAssumption DEF FateOf, FailureClass

LEMMA FateCasesNext ==
    ASSUME NEW q \in Caller
    PROVE  /\ outcome'[q] \in {"none", "pending", "ok"} => FateOf(q)' = outcome'[q]
           /\ outcome'[q] \notin {"none", "pending", "ok"} =>
                 FateOf(q)' \in {"retriable", "fatal"}
<1>1. CASE outcome'[q] \in {"none", "pending", "ok"}
  BY <1>1, ExecutorAssumption DEF FateOf, FailureClass
<1>2. CASE outcome'[q] \notin {"none", "pending", "ok"} /\ outcome'[q] \in RetryOn
  BY <1>2 DEF FateOf
<1>3. CASE outcome'[q] \notin {"none", "pending", "ok"} /\ outcome'[q] \notin RetryOn
  BY <1>3 DEF FateOf
<1> QED
  BY <1>1, <1>2, <1>3

LEMMA StepView ==
    ASSUME RInv, RInv', NEW q \in Caller, RequestStep(q)
    PROVE  Contract!Next \/ SameView
<1>1. /\ TypeOK /\ TypeOK' /\ RequestOK(q) /\ OutcomeOK(q) /\ op[q].at # "threw"
      /\ OutcomeOK(q)' /\ pc[q] \in PC /\ outcome[q] \in Outcome
      /\ called \in [Caller -> Seq(Nat \ {0})] /\ cands \in [Caller -> Seq(Model)]
  BY DEF RInv, IInv, NoThrow, TypeOK
<1>2. /\ Others(q)
      /\ \A d \in Caller \ {q} : /\ PhaseOf(d)' = PhaseOf(d)
                                 /\ FateOf(d)' = FateOf(d)
                                 /\ AnswerOf(d)' = AnswerOf(d)
  BY <1>1, StepOthers, OthersView
<1>4. CASE Begin(q)
  <2>1. /\ PhaseOf(q) # "routing" /\ PhaseOf(q)' = "routing"
        /\ FateOf(q)' = "none" /\ AnswerOf(q)' = "none"
    <3>1. /\ pc[q] \in {"idle", "answered"} /\ pc'[q] = "loop" /\ outcome'[q] = "none"
      BY <1>1, <1>4 DEF Begin, Goto, TypeOK
    <3> QED
      BY <3>1, FateCasesNext DEF PhaseOf, AnswerOf
  <2>2. Contract!Accept(q)
    BY <1>2, <1>4, <2>1 DEF Contract!Accept, Begin
  <2> QED
    BY <2>2 DEF Contract!Next
<1>5. CASE NoRoute(q)
  <2>1. /\ PhaseOf(q) = "routing" /\ PhaseOf(q)' = "answered" /\ cands[q] = <<>>
        /\ FateOf(q) = "none" /\ FateOf(q)' = FateOf(q)
        /\ AnswerOf(q)' = "no_route_available" /\ cands' = cands /\ called' = called
    <3>1. /\ pc[q] = "loop" /\ pc'[q] = "answered" /\ outcome[q] = "none"
          /\ outcome' = outcome /\ cands[q] = <<>> /\ cands' = cands /\ called' = called
          /\ answer'[q] = "no_route_available"
      BY <1>1, <1>5 DEF NoRoute, At, Goto, TypeOK, OutcomeOK
    <3> QED
      BY <3>1, FateCases, FateCasesNext DEF PhaseOf, AnswerOf
  <2>2. Contract!Reply(q)
    BY <1>2, <2>1 DEF Contract!Reply
  <2> QED
    BY <2>2 DEF Contract!Next
<1>6. CASE CallUpstream(q)
  <2>1. /\ i[q] \in Nat \ {0} /\ i[q] <= Limit(cands[q]) /\ Limit(cands[q]) \in Nat
        /\ \A n \in 1..Len(called[q]) : called[q][n] < i[q]
        /\ outcome[q] \in {"none"} \cup RetryOn
    BY <1>1, <1>6, ExecTypes
    DEF CallUpstream, At, RequestOK, IndexOK, CallsOK, Before, After, OutcomeOK
  <2>2. FateOf(q) \in {"none", "retriable"}
    BY <2>1, FateCases
  <2>3. /\ PhaseOf(q) = "routing" /\ PhaseOf(q)' = "routing" /\ FateOf(q)' = "pending"
        /\ AnswerOf(q)' = AnswerOf(q) /\ cands' = cands
        /\ called' = [called EXCEPT ![q] = Append(@, i[q])]
    <3>1. /\ pc[q] = "gateProvider" /\ pc'[q] = "calling" /\ outcome'[q] = "pending"
          /\ answer' = answer /\ cands' = cands
          /\ called' = [called EXCEPT ![q] = Append(@, i[q])]
      BY <1>1, <1>6 DEF CallUpstream, At, Goto, TypeOK
    <3> QED
      BY <3>1, FateCasesNext DEF PhaseOf, AnswerOf
  <2>4. i[q] \in 1..Contract!Limit(cands[q])
    BY <2>1 DEF Limit, Contract!Limit
  <2>5. Contract!Try(q)
    BY <1>2, <2>1, <2>2, <2>3, <2>4 DEF Contract!Try
  <2> QED
    BY <2>5 DEF Contract!Next
<1>7. CASE UpstreamOk(q) \/ UpstreamFail(q) \/ (Catch(q) /\ pc[q] = "calling")
  <2>1. /\ FateOf(q) = "pending" /\ PhaseOf(q) = "routing" /\ PhaseOf(q)' = "routing"
        /\ AnswerOf(q)' = AnswerOf(q) /\ cands' = cands /\ called' = called
        /\ outcome'[q] \in {"ok", "thrown"} \cup FailureClass
    <3>1. /\ pc[q] = "calling" /\ pc'[q] \in {"okModel", "failModel", "catchModel"}
          /\ outcome[q] = "pending" /\ outcome'[q] \in {"ok", "thrown"} \cup FailureClass
          /\ cands' = cands /\ called' = called
      BY <1>1, <1>7 DEF UpstreamOk, UpstreamFail, Catch, At, Goto, TypeOK, OutcomeOK
    <3> QED
      BY <3>1, FateCases DEF PhaseOf, AnswerOf
  <2>2. FateOf(q)' \in {"ok", "retriable", "fatal"}
    BY <2>1 DEF FateOf, FailureClass
  <2>3. Contract!Settle(q)
    BY <1>2, <2>1, <2>2 DEF Contract!Settle
  <2> QED
    BY <2>3 DEF Contract!Next
<1>8. CASE Persist(q)
  <2>1. /\ PhaseOf(q) = "routing" /\ PhaseOf(q)' = "answered" /\ cands[q] # <<>>
        /\ FateOf(q)' = FateOf(q) /\ cands' = cands /\ called' = called
        /\ outcome[q] # "pending"
        /\ AnswerOf(q)' = IF outcome[q] = "ok" THEN "response" ELSE "all_attempts_failed"
    BY <1>1, <1>8 DEF Persist, At, Goto, PhaseOf, FateOf, AnswerOf, TypeOK, OutcomeOK
  <2>2. FateOf(q) # "pending" /\ (FateOf(q) = "ok" <=> outcome[q] = "ok")
    BY <2>1, FateCases
  <2>3. Contract!Reply(q)
    BY <1>2, <2>1, <2>2 DEF Contract!Reply
  <2> QED
    BY <2>3 DEF Contract!Next
<1>9. CASE Exhausted(q) \/ SkipUnregistered(q) \/ CheckModel(q) \/ SkipCooling(q)
           \/ CheckProvider(q)
  BY <1>1, <1>2, <1>9, Hidden
  DEF Exhausted, SkipUnregistered, CheckModel, SkipCooling, CheckProvider, At, Goto, TypeOK
<1>10. CASE SuccessModelDone(q) \/ SuccessProviderDone(q) \/ FailureModelDone(q)
            \/ FailureDone(q) \/ CatchDone(q)
  BY <1>1, <1>2, <1>10, Hidden
  DEF SuccessModelDone, SuccessProviderDone, FailureModelDone, FailureDone, CatchDone,
      NextOrBreak, At, Goto, TypeOK
<1>11. ~Rejected(q) /\ (Catch(q) => pc[q] = "calling")
  BY <1>1 DEF Rejected, Catch, At, OpThrew
<1> QED
  BY <1>4, <1>5, <1>6, <1>7, <1>8, <1>9, <1>10, <1>11 DEF RequestStep, ExecuteStep

(* With a store that accepts every write, execute answers each request     *)
(* once, calls its candidates in order, goes on only after a retriable     *)
(* failure, and returns the last call's response exactly if it succeeded.  *)
THEOREM ExecuteImplementsContract ==
    ASSUME ForeignKeyOK = Key, MaxDbFaults = 0
    PROVE  Spec => Implements
<1>1. Init => Contract!Init
  <2> SUFFICES ASSUME Init PROVE Contract!Init
    OBVIOUS
  <2>1. \A q \in Caller : PhaseOf(q) = "idle" /\ FateOf(q) = "none" /\ AnswerOf(q) = "none"
    BY FateCases DEF Init, PhaseOf, AnswerOf
  <2> QED
    BY <2>1 DEF Init, Contract!Init
<1>2. RInv /\ RInv' /\ [Next]_vars => [Contract!Next]_(Contract!contractVars)
  <2> SUFFICES ASSUME RInv, RInv', [Next]_vars
               PROVE  Contract!Next \/ UNCHANGED Contract!contractVars
    OBVIOUS
  <2>1. ASSUME NEW q \in Caller, RequestStep(q)
        PROVE  Contract!Next \/ UNCHANGED Contract!contractVars
    BY <2>1, StepView, SameViewStutters
  <2>2. ASSUME UNCHANGED execVars PROVE UNCHANGED Contract!contractVars
    BY <2>2, SameViewStutters DEF execVars, SameView, PhaseOf, FateOf, AnswerOf
  <2>3. ASSUME NEW q \in Caller, Engine(q) \/ DbFault(q) PROVE UNCHANGED execVars
    BY <2>3 DEF Engine, DbFault
  <2>4. Environment => UNCHANGED execVars
    BY DEF Environment
  <2> QED
    BY <2>1, <2>2, <2>3, <2>4 DEF Next, RequestStep, vars
<1>3. RInv /\ [Next]_vars => RInv'
  BY NextRInv
<1> QED
  BY <1>1, <1>2, <1>3, InitRInv, PTL DEF Spec, Implements, Contract!Spec

-----------------------------------------------------------------------------
(***************************************************************************)
(* The log row.  An "ok" among the reports is the outcome of the last call,*)
(* and nothing is logged before the answer is settled.                     *)
(***************************************************************************)
LogSays(q) ==
    /\ logged[q].status = "200" <=> answer[q] = "response"
    /\ logged[q].attempts = Len(attempts[q])
    /\ logged[q].reports \in {<<>>, attempts[q]}

LogOK(q) ==
    /\ FirstOk(attempts[q]) <=> outcome[q] = "ok"
    /\ pc[q] # "answered" => logged[q].status = "none"
    /\ pc[q] = "answered" /\ logged[q].status # "none" => LogSays(q)

LEMMA OkPushed ==
    ASSUME TypeOK, NEW q \in Caller, NEW kind, Push(q, kind)
    PROVE  FirstOk(attempts'[q]) <=> FirstOk(attempts[q]) \/ kind = "ok"
<1> DEFINE s == attempts[q]
           e == [ordinal |-> i[q], kind |-> kind]
<1>1. s \in Seq(Report) /\ attempts'[q] = Append(s, e) /\ e.kind = kind
  BY DEF TypeOK, Push
<1> HIDE DEF s, e
<1>2. /\ DOMAIN Append(s, e) = 1..(Len(s) + 1) /\ DOMAIN s = 1..Len(s) /\ Len(s) \in Nat
      /\ \A n \in 1..Len(s) : Append(s, e)[n] = s[n]
      /\ Append(s, e)[Len(s) + 1] = e
  BY <1>1
<1>3. FirstOk(Append(s, e)) <=> FirstOk(s) \/ kind = "ok"
  BY <1>1, <1>2 DEF FirstOk
<1> QED
  BY <1>1, <1>3 DEF s

LEMMA StepLog ==
    ASSUME RInv, NEW q \in Caller, LogOK(q), RequestStep(q)
    PROVE  LogOK(q)'
<1>1. /\ TypeOK /\ OutcomeOK(q) /\ AnswerOK(q) /\ op[q].at # "threw" /\ pc[q] \in PC
      /\ pc \in [Caller -> PC] /\ logged \in [Caller -> Log] /\ answer \in [Caller -> Answer]
      /\ outcome \in [Caller -> Outcome] /\ attempts \in [Caller -> Seq(Report)]
  BY DEF RInv, IInv, RequestOK, NoThrow, TypeOK
<1>2. RetryOn \subseteq FailureClass \cup {"thrown"} /\ "ok" \notin FailureClass
  BY ExecutorAssumption DEF FailureClass
<1>3. FirstOk(attempts[q]) <=> outcome[q] = "ok"
  BY DEF LogOK
<1> USE DEF At, Goto
<1>4. CASE Begin(q)
  <2>1. pc'[q] = "loop" /\ attempts'[q] = <<>> /\ outcome'[q] = "none" /\ logged'[q] = NoLog
    BY <1>1, <1>4 DEF Begin
  <2>2. ~FirstOk(<<>>)
    BY DEF FirstOk
  <2> QED
    BY <2>1, <2>2 DEF LogOK, NoLog
<1>5. CASE \/ NoRoute(q) \/ Exhausted(q) \/ CheckModel(q) \/ CheckProvider(q)
           \/ SuccessModelDone(q) \/ SuccessProviderDone(q) \/ FailureModelDone(q)
           \/ FailureDone(q) \/ CatchDone(q)
  <2>1. /\ attempts' = attempts /\ outcome' = outcome /\ logged' = logged /\ pc[q] # "answered"
    BY <1>5 DEF NoRoute, Exhausted, CheckModel, CheckProvider, SuccessModelDone,
       SuccessProviderDone, FailureModelDone, FailureDone, CatchDone, NextOrBreak
  <2> QED
    BY <2>1 DEF LogOK, LogSays
<1>6. ASSUME NEW kind, Push(q, kind), outcome'[q] = "ok" <=> outcome[q] = "ok" \/ kind = "ok",
             logged' = logged, pc[q] # "answered", pc'[q] # "answered"
      PROVE  LogOK(q)'
  <2>1. FirstOk(attempts'[q]) <=> outcome'[q] = "ok"
    BY <1>1, <1>3, <1>6, OkPushed
  <2> QED
    BY <1>6, <2>1 DEF LogOK
<1>7. CASE SkipUnregistered(q) \/ SkipCooling(q)
  <2>1. \E kind \in {"unregistered", "cooldown_active"} : Push(q, kind)
    BY <1>7 DEF SkipUnregistered, SkipCooling
  <2>2. /\ outcome' = outcome /\ logged' = logged /\ pc[q] # "answered" /\ pc'[q] # "answered"
    BY <1>1, <1>7 DEF SkipUnregistered, SkipCooling
  <2> QED
    BY <1>6, <2>1, <2>2
<1>8. CASE CallUpstream(q)
  <2>1. /\ attempts' = attempts /\ outcome'[q] = "pending" /\ logged' = logged
        /\ pc[q] = "gateProvider" /\ pc'[q] = "calling"
    BY <1>1, <1>8 DEF CallUpstream
  <2>2. outcome[q] # "ok"
    BY <1>1, <1>2, <2>1 DEF OutcomeOK, Before
  <2> QED
    BY <1>3, <2>1, <2>2 DEF LogOK
<1>9. CASE UpstreamOk(q)
  <2>1. /\ Push(q, "ok") /\ outcome'[q] = "ok" /\ logged' = logged
        /\ pc[q] # "answered" /\ pc'[q] # "answered"
    BY <1>1, <1>9 DEF UpstreamOk
  <2> QED
    BY <1>6, <2>1
<1>10. CASE UpstreamFail(q) \/ Catch(q)
  <2>1. \E kind \in FailureClass \cup {"thrown"} : Push(q, kind) /\ outcome'[q] = kind
    BY <1>1, <1>10 DEF UpstreamFail, Catch
  <2>2. logged' = logged /\ pc[q] = "calling" /\ pc'[q] # "answered"
    BY <1>1, <1>10 DEF UpstreamFail, Catch, OpThrew
  <2>3. outcome[q] = "pending"
    BY <1>1, <2>2 DEF OutcomeOK
  <2> QED
    BY <1>2, <1>6, <2>1, <2>2, <2>3
<1>11. ~Rejected(q)
  BY <1>1 DEF Rejected, OpThrew
<1>12. CASE Persist(q)
  <2>1. PICK n \in 0..3 : logged' = [logged EXCEPT ![q] = LogAfter(q, n)]
    BY <1>12 DEF Persist
  <2>2. /\ logged'[q] = LogAfter(q, n) /\ attempts' = attempts /\ outcome' = outcome
        /\ pc[q] = "persist" /\ pc'[q] = "answered"
        /\ answer'[q] = IF answer[q] = "none" THEN "all_attempts_failed" ELSE answer[q]
    BY <1>1, <1>12, <2>1 DEF Persist
  <2>3. answer'[q] = "response" <=> FirstOk(attempts[q])
    BY <1>1, <1>3, <2>2 DEF OutcomeOK
  <2>4. /\ LogAfter(q, n).status = "none" \/ LogAfter(q, n).attempts = Len(attempts[q])
        /\ LogAfter(q, n).status = "none"
              \/ (LogAfter(q, n).status = "200" <=> FirstOk(attempts[q]))
        /\ LogAfter(q, n).reports \in {<<>>, attempts[q]}
    BY DEF LogAfter
  <2> QED
    BY <1>3, <2>2, <2>3, <2>4 DEF LogOK, LogSays
<1> QED
  BY <1>4, <1>5, <1>7, <1>8, <1>9, <1>10, <1>11, <1>12 DEF RequestStep, ExecuteStep

LEMMA NextLog ==
    ASSUME RInv, \A q \in Caller : LogOK(q), [Next]_vars
    PROVE  \A q \in Caller : LogOK(q)'
<1>1. ASSUME NEW q \in Caller, RequestStep(q), NEW d \in Caller \ {q} PROVE LogOK(d)'
  <2>1. Others(q) /\ TypeOK
    BY <1>1, StepOthers DEF RInv, IInv
  <2>2. logged'[d] = logged[d]
    BY <1>1, <2>1 DEF TypeOK, RequestStep, ExecuteStep, Begin, NoRoute, Exhausted, SkipUnregistered,
       CheckModel, SkipCooling, CheckProvider, CallUpstream, UpstreamOk, SuccessModelDone,
       SuccessProviderDone, UpstreamFail, FailureModelDone, FailureDone, Catch, CatchDone,
       NextOrBreak, Rejected, Persist
  <2>3. /\ pc'[d] = pc[d] /\ attempts'[d] = attempts[d] /\ outcome'[d] = outcome[d]
        /\ answer'[d] = answer[d]
    BY <2>1 DEF Others
  <2> QED
    BY <2>2, <2>3 DEF LogOK, LogSays
<1>2. ASSUME UNCHANGED execVars PROVE \A q \in Caller : LogOK(q)'
  BY <1>2 DEF execVars, LogOK, LogSays
<1>3. \/ UNCHANGED execVars
      \/ \E q \in Caller : RequestStep(q)
  BY DEF Next, Engine, DbFault, Environment, RequestStep, vars
<1> QED
  BY <1>1, <1>2, <1>3, StepLog

(* With a database that refuses nothing, what persistAttempts leaves is    *)
(* what the caller got (persistAttempts; execute's return).  With a fault  *)
(* a lost success makes the two disagree: the log says 200, the caller     *)
(* got an error.                                                           *)
THEOREM LogAlwaysTellsAnswer ==
    ASSUME ForeignKeyOK = Key, MaxDbFaults = 0
    PROVE  Spec => []LogTellsAnswer
<1> DEFINE Logs == \A q \in Caller : LogOK(q)
<1>1. Init => Logs
  BY DEF Init, LogOK, NoLog, FirstOk
<1>2. RInv /\ Logs /\ [Next]_vars => Logs'
  BY NextLog
<1>3. RInv /\ [Next]_vars => RInv'
  BY NextRInv
<1>4. Logs => LogTellsAnswer
  BY DEF LogOK, LogSays, LogTellsAnswer
<1> HIDE DEF Logs
<1> QED
  BY <1>1, <1>2, <1>3, <1>4, InitRInv, PTL DEF Spec

-----------------------------------------------------------------------------
(***************************************************************************)
(* Half-open models under the production foreign key.  Which operation     *)
(* runs at each await, on which key, tells who still owes a report; a      *)
(* provider never has a row, so its gate lets everyone in and no request   *)
(* leaves between the gate of a model and the report on it.                *)
(***************************************************************************)
Production == Store = "prisma" /\ ForeignKeyOK = Model /\ MaxDbFaults = 0

Runs(q, fn, key, stages) == op[q].fn = fn /\ op[q].key = key /\ op[q].at \in stages

Querying(q) ==
    /\ pc[q] \in {"idle", "loop", "calling", "persist", "answered"} => op[q].at = "idle"
    /\ pc[q] = "gateModel" =>
          Runs(q, "check", TheModel(q), {"find", "upsertFind", "upsertWrite", "done"})
    /\ pc[q] = "gateProvider" =>
          /\ Runs(q, "check", TheProvider(q), {"find", "done"})
          /\ op[q].at = "done" => op[q].verdict = "allowed"
    /\ pc[q] = "okModel" => Runs(q, "success", TheModel(q), {"find", "reset", "done"})
    /\ pc[q] = "okProvider" => Runs(q, "success", TheProvider(q), {"find", "done"})
    /\ pc[q] \in {"failModel", "catchModel"} =>
          Runs(q, "failure", TheModel(q), {"find", "upsertFind", "upsertWrite", "done"})
    /\ pc[q] = "failProvider" =>
          Runs(q, "failure", TheProvider(q), {"find", "upsertFind", "upsertWrite", "done", "threw"})

(* What an operation has read, and the row it is about to write, are of    *)
(* its key.                                                                *)
Aiming(q) ==
    /\ op[q].at \in {"upsertFind", "upsertWrite"} /\ op[q].fn = "check" =>
          op[q].seen.key = op[q].key
    /\ op[q].at = "reset" \/ (op[q].at = "upsertWrite" /\ op[q].target # NoId) =>
          /\ op[q].target \in RowId
          /\ rows[op[q].target] # NoRow /\ rows[op[q].target].key = op[q].key

ModelRows == \A r \in RowId : rows[r] # NoRow => rows[r].key \in Model

Owing(q, m) ==
    /\ i[q] <= Limit(cands[q])
    /\ TheModel(q) = m
    /\ \/ pc[q] = "gateModel" /\ op[q].at = "done" /\ op[q].verdict = "probe"
       \/ pc[q] \in {"gateProvider", "calling"}
       \/ pc[q] \in {"okModel", "failModel", "catchModel"} /\ op[q].at # "done"

OwedModels ==
    UniqueRows => \A m \in Model : HalfOpen(m) => \E q \in Caller : Owing(q, m)

PInv == ModelRows /\ OwedModels /\ \A q \in Caller : Querying(q) /\ Aiming(q)

LEMMA OwingOwes == OwedModels => ModelProbeOwed
BY DEF OwedModels, Owing, ModelProbeOwed, OwesModel, Resting, Admitted, OpDone

-----------------------------------------------------------------------------

(* No row goes away, and none changes hands.                               *)
RowsKept ==
    \A r \in RowId : rows[r] # NoRow => rows'[r] # NoRow /\ rows'[r].key = rows[r].key

LEMMA KeptUnique == RowsKept => (UniqueRows' => UniqueRows)
BY DEF RowsKept, UniqueRows

LEMMA CandidateSides ==
    ASSUME TypeOK, NEW q \in Caller, i[q] <= Limit(cands[q])
    PROVE  /\ TheModel(q) \in Model /\ TheProvider(q) \in Provider
           /\ TheProvider(q) \notin Model
           /\ TheModel(q) \in Key /\ TheProvider(q) \in Key
<1>1. TheModel(q) \in Model
  BY ExecTypes DEF TheModel
<1> QED
  BY <1>1, ExecutorAssumption DEF TheProvider

(* A step of q keeps the invariant if it does so where q is concerned: a   *)
(* model that is half-open and not owed by q after it was so before.       *)
LEMMA StepOfOne ==
    ASSUME PInv, NEW q \in Caller, RowsKept, ModelRows', Querying(q)', Aiming(q)',
           \A d \in Caller \ {q} : /\ op'[d] = op[d] /\ pc'[d] = pc[d]
                                   /\ cands'[d] = cands[d] /\ i'[d] = i[d],
           \A m \in Model : UniqueRows' /\ HalfOpen(m)' /\ ~Owing(q, m)'
                               => HalfOpen(m) /\ ~Owing(q, m)
    PROVE  PInv'
<1>1. ASSUME NEW d \in Caller \ {q} PROVE Querying(d)' /\ Aiming(d)'
  <2>1. Querying(d)'
    BY <1>1 DEF PInv, Querying, Runs, TheModel, TheProvider
  <2>2. op[d].at = "reset" \/ (op[d].at = "upsertWrite" /\ op[d].target # NoId)
           => op[d].target \in RowId /\ rows'[op[d].target] # NoRow
                 /\ rows'[op[d].target].key = op[d].key
    BY <1>1 DEF PInv, Aiming, RowsKept
  <2> QED
    BY <1>1, <2>1, <2>2 DEF PInv, Aiming
<1>2. ASSUME UniqueRows', NEW m \in Model, HalfOpen(m)' PROVE \E d \in Caller : Owing(d, m)'
  <2>1. CASE Owing(q, m)'
    BY <2>1
  <2>2. CASE ~Owing(q, m)'
    <3>1. UniqueRows /\ HalfOpen(m) /\ ~Owing(q, m)
      BY <1>2, <2>2, KeptUnique
    <3>2. PICK d \in Caller : Owing(d, m)
      BY <3>1 DEF PInv, OwedModels
    <3>3. d \in Caller \ {q}
      BY <3>1, <3>2
    <3>4. Owing(d, m)'
      BY <3>2, <3>3 DEF Owing, TheModel, Limit
    <3> QED
      BY <3>4
  <2> QED
    BY <2>1, <2>2
<1> QED
  BY <1>1, <1>2 DEF PInv, OwedModels

-----------------------------------------------------------------------------
(***************************************************************************)
(* Steps of execute.                                                       *)
(***************************************************************************)

(* What a step of execute does to the operation of its request.            *)
LEMMA RequestMoves ==
    ASSUME IInv, NEW q \in Caller, RequestStep(q)
    PROVE  /\ rows' = rows
           /\ \A d \in Caller \ {q} : /\ op'[d] = op[d] /\ pc'[d] = pc[d]
                                      /\ cands'[d] = cands[d] /\ i'[d] = i[d]
<1>1. TypeOK /\ op \in [Caller -> Op]
  BY DEF IInv, TypeOK, EngineTypeOK
<1>2. Others(q)
  BY <1>1, StepOthers
<1>3. rows' = rows /\ \A d \in Caller \ {q} : op'[d] = op[d]
  BY <1>1 DEF RequestStep, ExecuteStep, Begin, NoRoute, Exhausted, SkipUnregistered,
     CheckModel, SkipCooling, CheckProvider, CallUpstream, UpstreamOk, SuccessModelDone,
     SuccessProviderDone, UpstreamFail, FailureModelDone, FailureDone, Catch, CatchDone,
     NextOrBreak, Rejected, Persist, StartOp, EndOp
<1> QED
  BY <1>2, <1>3 DEF Others

(* A step that starts an operation, or ends one that owes nothing.         *)
LEMMA StepQuerying ==
    ASSUME Production, IInv, PInv, NEW q \in Caller, RequestStep(q)
    PROVE  /\ Querying(q)' /\ Aiming(q)'
           /\ \A m \in Model : Owing(q, m) => Owing(q, m)'
<1>1. /\ TypeOK /\ pc \in [Caller -> PC] /\ op \in [Caller -> Op] /\ i \in [Caller -> Nat \ {0}]
      /\ pc[q] \in PC /\ Querying(q) /\ Aiming(q) /\ rows' = rows /\ IndexOK(q)
      /\ cands \in [Caller -> Seq(Model)]
  BY RequestMoves DEF IInv, TypeOK, EngineTypeOK, PInv, RequestOK
<1>2. IdleOp.at = "idle"
  BY DEF IdleOp
<1>3. \A fn \in {"check", "failure", "success"}, k \in Key :
         Call(fn, k).at = "find" /\ Call(fn, k).fn = fn /\ Call(fn, k).key = k
  BY CallType
<1>k. pc[q] \in {"gateModel", "gateProvider", "calling"} \cup After =>
         TheModel(q) \in Key /\ TheProvider(q) \in Key
  BY <1>1, CandidateSides DEF IndexOK
<1> USE DEF At, Goto
<1>4. ASSUME op'[q].at \in {"idle", "find"} PROVE Aiming(q)'
  BY <1>4 DEF Aiming
<1>5. ASSUME op'[q] = op[q] PROVE Aiming(q)'
  BY <1>1, <1>5 DEF Aiming
<1>6. CASE Begin(q) \/ NoRoute(q) \/ Exhausted(q) \/ SkipUnregistered(q) \/ Persist(q)
  <2>1. /\ pc[q] \in {"idle", "loop", "persist", "answered"} /\ op'[q] = op[q]
        /\ pc'[q] \in {"idle", "loop", "persist", "answered"}
    BY <1>1, <1>6 DEF Begin, NoRoute, Exhausted, SkipUnregistered, Persist
  <2>2. Querying(q)'
    BY <1>1, <2>1 DEF Querying
  <2> QED
    BY <1>5, <2>1, <2>2 DEF Owing
<1>7. CASE CheckModel(q)
  <2>1. /\ pc[q] = "loop" /\ pc'[q] = "gateModel" /\ TheModel(q)' = TheModel(q)
        /\ op'[q] = Call("check", TheModel(q)) /\ i[q] <= Limit(cands[q])
    BY <1>1, <1>7 DEF CheckModel, StartOp, TheModel
  <2>2. /\ TheModel(q) \in Key
    BY <1>1, <2>1, CandidateSides
  <2>3. Querying(q)' /\ op'[q].at = "find"
    BY <1>3, <2>1, <2>2 DEF Querying, Runs
  <2> QED
    BY <1>4, <2>1, <2>3 DEF Owing
<1>8. CASE SkipCooling(q) \/ Rejected(q)
  <2>1. /\ pc'[q] \in {"loop", "answered"} /\ op'[q] = IdleOp
        /\ \/ pc[q] \in {"gateModel", "gateProvider"} /\ op[q].at = "done" /\ op[q].verdict = "denied"
           \/ pc[q] \in {"gateModel", "gateProvider", "catchModel"} /\ op[q].at = "threw"
    BY <1>1, <1>8 DEF SkipCooling, Rejected, EndOp, Denied, OpDone, OpThrew
  <2>2. pc[q] = "gateModel" /\ op[q].verdict = "denied"
    BY <1>1, <2>1 DEF Querying, Runs
  <2>3. Querying(q)' /\ op'[q].at = "idle"
    BY <1>2, <2>1 DEF Querying
  <2> QED
    BY <1>4, <2>2, <2>3 DEF Owing
<1>9. CASE CheckProvider(q)
  <2>1. /\ pc[q] = "gateModel" /\ pc'[q] = "gateProvider" /\ i' = i /\ cands' = cands
        /\ op'[q] = Call("check", TheProvider(q))
    BY <1>1, <1>9 DEF CheckProvider, StartOp
  <2>2. Querying(q)' /\ op'[q].at = "find"
    BY <1>3, <1>k, <2>1 DEF Querying, Runs, TheModel, TheProvider
  <2> QED
    BY <1>4, <2>1, <2>2 DEF Owing, TheModel, Limit
<1>10. CASE CallUpstream(q)
  <2>1. /\ pc[q] = "gateProvider" /\ pc'[q] = "calling" /\ i' = i /\ cands' = cands
        /\ op'[q] = IdleOp
    BY <1>1, <1>10 DEF CallUpstream, EndOp
  <2>2. Querying(q)' /\ op'[q].at = "idle"
    BY <1>2, <2>1 DEF Querying
  <2> QED
    BY <1>4, <2>1, <2>2 DEF Owing, TheModel, Limit
<1>11. CASE UpstreamOk(q) \/ UpstreamFail(q) \/ Catch(q)
  <2>1. /\ pc[q] \in {"calling"} \cup After
        /\ i' = i /\ cands' = cands
        /\ \/ pc'[q] = "okModel" /\ op'[q] = Call("success", TheModel(q))
           \/ pc'[q] \in {"failModel", "catchModel"} /\ op'[q] = Call("failure", TheModel(q))
    BY <1>1, <1>11 DEF UpstreamOk, UpstreamFail, Catch, StartOp, After
  <2>2. Querying(q)' /\ op'[q].at = "find"
    BY <1>3, <1>k, <2>1 DEF Querying, Runs, TheModel, TheProvider
  <2> QED
    BY <1>4, <2>1, <2>2 DEF Owing, TheModel, Limit
<1>12. CASE SuccessModelDone(q) \/ FailureModelDone(q)
  <2>1. /\ pc[q] \in {"okModel", "failModel"} /\ op[q].at = "done"
        /\ i' = i /\ cands' = cands
        /\ \/ pc'[q] = "okProvider" /\ op'[q] = Call("success", TheProvider(q))
           \/ pc'[q] = "failProvider" /\ op'[q] = Call("failure", TheProvider(q))
    BY <1>1, <1>12 DEF SuccessModelDone, FailureModelDone, StartOp, OpDone
  <2>2. Querying(q)' /\ op'[q].at = "find"
    BY <1>3, <1>k, <2>1 DEF Querying, Runs, TheModel, TheProvider, After
  <2> QED
    BY <1>4, <2>1, <2>2 DEF Owing
<1>13. CASE SuccessProviderDone(q) \/ FailureDone(q) \/ CatchDone(q)
  <2>1. /\ pc'[q] \in {"loop", "persist"} /\ op'[q] = IdleOp /\ op[q].at = "done"
        /\ pc[q] \in {"okProvider", "failModel", "failProvider", "catchModel"}
    BY <1>1, <1>13 DEF SuccessProviderDone, FailureDone, CatchDone, NextOrBreak, EndOp, OpDone
  <2>2. Querying(q)' /\ op'[q].at = "idle"
    BY <1>2, <2>1 DEF Querying
  <2> QED
    BY <1>4, <2>1, <2>2 DEF Owing
<1> QED
  BY <1>6, <1>7, <1>8, <1>9, <1>10, <1>11, <1>12, <1>13 DEF RequestStep, ExecuteStep

LEMMA RequestPInv ==
    ASSUME Production, IInv, PInv, NEW q \in Caller, RequestStep(q)
    PROVE  PInv'
<1>1. /\ rows' = rows
      /\ \A d \in Caller \ {q} : /\ op'[d] = op[d] /\ pc'[d] = pc[d]
                                 /\ cands'[d] = cands[d] /\ i'[d] = i[d]
  BY RequestMoves
<1>2. RowsKept /\ ModelRows'
  BY <1>1 DEF RowsKept, PInv, ModelRows
<1>3. \A m \in Model : HalfOpen(m)' <=> HalfOpen(m)
  BY <1>1 DEF HalfOpen, RowsOf
<1>4. /\ Querying(q)' /\ Aiming(q)'
      /\ \A m \in Model : Owing(q, m) => Owing(q, m)'
  BY StepQuerying
<1> QED
  BY <1>1, <1>2, <1>3, <1>4, StepOfOne

-----------------------------------------------------------------------------
(***************************************************************************)
(* The queries of an engine operation.                                     *)
(***************************************************************************)
LEMMA NoProviderRow ==
    ASSUME ModelRows, NEW k, k \notin Model
    PROVE  RowsOf(rows, k) = {} /\ FindActive(rows, k) = {} /\ ~HalfOpen(k)
BY DEF ModelRows, RowsOf, FindActive, HalfOpen

(* The awaits at which a query runs, and the key it runs on.               *)
LEMMA QueryPlaces ==
    ASSUME IInv, PInv, NEW q \in Caller, op[q].at \notin {"idle", "done", "threw"}
    PROVE  /\ pc[q] \in {"gateModel", "gateProvider"} \cup After
           /\ i[q] <= Limit(cands[q])
           /\ TheModel(q) \in Model /\ TheProvider(q) \notin Model
           /\ TheModel(q) \in Key /\ TheProvider(q) \in Key
<1>1. TypeOK /\ pc[q] \in PC /\ Querying(q) /\ IndexOK(q)
  BY DEF IInv, TypeOK, PInv, RequestOK
<1>2. pc[q] \in {"gateModel", "gateProvider"} \cup After
  BY <1>1 DEF PC, After, Querying
<1> QED
  BY <1>1, <1>2, CandidateSides DEF IndexOK

LEMMA FindPInv ==
    ASSUME Production, IInv, PInv, NEW q \in Caller, Find(q), UNCHANGED execVars
    PROVE  PInv'
<1>1. /\ op \in [Caller -> Op] /\ op[q] \in Op /\ op[q].at = "find" /\ rows \in Table
      /\ Querying(q) /\ Aiming(q) /\ ModelRows /\ rows' = rows /\ op[q].key \in Key
  BY DEF IInv, TypeOK, EngineTypeOK, PInv, Find, Op
<1>2. /\ pc[q] \in {"gateModel", "gateProvider"} \cup After
      /\ TheModel(q) \in Model /\ TheProvider(q) \notin Model
  BY <1>1, QueryPlaces
<1>3. pc' = pc /\ cands' = cands /\ i' = i /\ TheModel(q)' = TheModel(q)
      /\ TheProvider(q)' = TheProvider(q)
  BY DEF execVars, TheModel, TheProvider
<1>4. RowsKept /\ ModelRows' /\ \A m \in Model : HalfOpen(m)' <=> HalfOpen(m)
  BY <1>1 DEF RowsKept, ModelRows, HalfOpen, RowsOf
<1>5. \A v \in Verdict : /\ Finish(q, v).at = "done" /\ Finish(q, v).fn = op[q].fn
                         /\ Finish(q, v).key = op[q].key /\ Finish(q, v).verdict = v
  BY <1>1, FinishType
<1>6. PICK seen \in Row \cup {NoRow}, id \in RowId \cup {NoId} :
         /\ op' = [op EXCEPT ![q] = AfterFind(q, seen, id)]
         /\ seen = NoRow => FindActive(rows, op[q].key) = {}
         /\ seen # NoRow => id \in RowId /\ rows[id] = seen /\ seen.key = op[q].key
  <2>1. CASE FindActive(rows, op[q].key) = {} /\ op' = [op EXCEPT ![q] = AfterFind(q, NoRow, NoId)]
    BY <2>1
  <2>2. CASE \E r \in FindActive(rows, op[q].key) : op' = [op EXCEPT ![q] = AfterFind(q, rows[r], r)]
    BY <1>1, <2>2 DEF FindActive, RowsOf, Table
  <2> QED
    BY <2>1, <2>2 DEF Find
<1>7. op'[q] = AfterFind(q, seen, id) /\ \A d \in Caller \ {q} : op'[d] = op[d]
  BY <1>1, <1>6
<1>8. seen = NoRow => RowsOf(rows, op[q].key) = {} /\ ~HalfOpen(op[q].key)
  BY <1>1, <1>6, FindActiveEmpty DEF HalfOpen
<1>9. seen # NoRow => op[q].key \in Model
  BY <1>1, <1>6 DEF ModelRows
<1>10. seen # NoRow => seen.halfOpen \in BOOLEAN
  BY <1>6 DEF Row
<1>11. CASE op[q].fn = "check"
  <2>1. /\ op'[q].fn = "check" /\ op'[q].key = op[q].key
        /\ \/ seen = NoRow /\ op'[q].at = "done" /\ op'[q].verdict = "allowed"
           \/ seen # NoRow /\ op'[q].at = "done"
           \/ seen # NoRow /\ op'[q].at = "upsertFind" /\ op'[q].seen = seen
    <3>1. CASE seen = NoRow
      BY <1>5, <1>7, <1>11, <3>1 DEF AfterFind, Verdict
    <3>2. CASE seen # NoRow /\ (seen.expiry = "future" \/ seen.halfOpen)
      BY <1>5, <1>7, <1>11, <3>2 DEF AfterFind, Verdict
    <3>3. CASE seen # NoRow /\ seen.expiry # "future" /\ ~seen.halfOpen
      BY <1>1, <1>7, <1>11, <3>3 DEF AfterFind, Op
    <3> QED
      BY <1>10, <3>1, <3>2, <3>3
  <2>2. pc[q] \in {"gateModel", "gateProvider"}
    BY <1>1, <1>2, <1>11 DEF Querying, Runs, After
  <2>3. Querying(q)' /\ Aiming(q)'
    BY <1>1, <1>2, <1>3, <1>6, <1>9, <2>1, <2>2 DEF Querying, Runs, Aiming
  <2>4. \A m \in Model : Owing(q, m) => Owing(q, m)'
    BY <1>1, <1>3, <2>2 DEF Owing, Limit
  <2> QED
    BY <1>3, <1>4, <1>7, <2>3, <2>4, StepOfOne
<1>12. CASE op[q].fn = "failure"
  <2>1. op'[q].fn = "failure" /\ op'[q].key = op[q].key /\ op'[q].at = "upsertFind"
    BY <1>1, <1>7, <1>12 DEF AfterFind, Op
  <2>2. Querying(q)' /\ Aiming(q)'
    BY <1>1, <1>2, <1>3, <1>12, <2>1 DEF Querying, Runs, Aiming, After
  <2>3. \A m \in Model : Owing(q, m) => Owing(q, m)'
    BY <1>1, <1>3, <2>1 DEF Owing, Limit
  <2> QED
    BY <1>3, <1>4, <1>7, <2>2, <2>3, StepOfOne
<1>13. CASE op[q].fn = "success"
  <2>1. /\ op'[q].fn = "success" /\ op'[q].key = op[q].key
        /\ \/ seen = NoRow /\ op'[q].at = "done"
           \/ seen # NoRow /\ op'[q].at = "reset" /\ op'[q].target = id
    <3>1. CASE seen = NoRow
      BY <1>5, <1>7, <1>13, <3>1 DEF AfterFind, Verdict
    <3>2. CASE seen # NoRow
      BY <1>1, <1>7, <1>13, <3>2 DEF AfterFind, Op
    <3> QED
      BY <3>1, <3>2
  <2>2. pc[q] \in {"okModel", "okProvider"}
    BY <1>1, <1>2, <1>13 DEF Querying, Runs, After
  <2>3. Querying(q)' /\ Aiming(q)'
    BY <1>1, <1>2, <1>3, <1>6, <1>9, <2>1, <2>2 DEF Querying, Runs, Aiming
  <2>4. ASSUME NEW m \in Model, HalfOpen(m), Owing(q, m) PROVE Owing(q, m)'
    <3>1. pc[q] = "okModel" /\ m = op[q].key
      BY <1>1, <2>2, <2>4 DEF Owing, Querying, Runs
    <3>2. op'[q].at = "reset"
      BY <1>8, <2>1, <2>4, <3>1
    <3> QED
      BY <1>3, <2>4, <3>1, <3>2 DEF Owing, Limit
  <2> QED
    BY <1>3, <1>4, <1>7, <2>3, <2>4, StepOfOne
<1> QED
  BY <1>1, <1>2, <1>11, <1>12, <1>13 DEF Querying, Runs, After

LEMMA UpsertFindPInv ==
    ASSUME Production, IInv, PInv, NEW q \in Caller, UpsertFind(q), UNCHANGED execVars
    PROVE  PInv'
<1>1. /\ op \in [Caller -> Op] /\ op[q] \in Op /\ op[q].at = "upsertFind" /\ rows \in Table
      /\ Querying(q) /\ Aiming(q) /\ ModelRows /\ rows' = rows
  BY DEF IInv, TypeOK, EngineTypeOK, PInv, UpsertFind
<1>2. /\ pc[q] \in {"gateModel", "gateProvider"} \cup After
      /\ TheModel(q) \in Model /\ TheProvider(q) \notin Model
  BY <1>1, QueryPlaces
<1>3. pc' = pc /\ cands' = cands /\ i' = i /\ TheModel(q)' = TheModel(q)
      /\ TheProvider(q)' = TheProvider(q)
  BY DEF execVars, TheModel, TheProvider
<1>4. RowsKept /\ ModelRows' /\ \A m \in Model : HalfOpen(m)' <=> HalfOpen(m)
  BY <1>1 DEF RowsKept, ModelRows, HalfOpen, RowsOf
<1>5. PICK t \in RowId \cup {NoId} :
         /\ op' = [op EXCEPT ![q] = [op[q] EXCEPT !.at = "upsertWrite", !.target = t]]
         /\ t # NoId => t \in RowsOf(rows, op[q].key)
  BY <1>1 DEF UpsertFind, RowsOf
<1>6. /\ op'[q].fn = op[q].fn /\ op'[q].key = op[q].key /\ op'[q].seen = op[q].seen
      /\ op'[q].at = "upsertWrite" /\ op'[q].target = t
      /\ \A d \in Caller \ {q} : op'[d] = op[d]
  BY <1>1, <1>5 DEF Op
<1>7. Querying(q)' /\ Aiming(q)'
  BY <1>1, <1>2, <1>3, <1>5, <1>6 DEF Querying, Runs, Aiming, After, RowsOf
<1>8. \A m \in Model : Owing(q, m) => Owing(q, m)'
  BY <1>1, <1>3, <1>6 DEF Owing, Limit
<1> QED
  BY <1>3, <1>4, <1>6, <1>7, <1>8, StepOfOne

(* A write: the flip of a check is owed by the check, the row of a failure *)
(* is not half-open.                                                       *)
LEMMA WritePInv ==
    ASSUME Production, IInv, PInv, NEW q \in Caller, UNCHANGED execVars,
           op[q].at = "upsertWrite", op[q].key \in Model, NEW r \in RowId,
           rows[r] = NoRow \/ rows[r].key = op[q].key,
           rows' = [rows EXCEPT ![r] = NewRow(q)], op' = [op EXCEPT ![q] = Written(q)]
    PROVE  PInv'
<1>1. /\ op \in [Caller -> Op] /\ op[q] \in Op /\ rows \in Table
      /\ Querying(q) /\ Aiming(q) /\ ModelRows /\ OpOK(q) /\ op[q].seen \in Row \cup {NoRow}
      /\ op[q].key \in Key
  BY DEF IInv, TypeOK, EngineInv, EngineTypeOK, PInv, Op
<1>2. /\ pc[q] \in {"gateModel", "gateProvider"} \cup After /\ i[q] <= Limit(cands[q])
      /\ TheModel(q) \in Model /\ TheProvider(q) \notin Model
  BY QueryPlaces
<1>3. pc' = pc /\ cands' = cands /\ i' = i /\ TheModel(q)' = TheModel(q)
      /\ TheProvider(q)' = TheProvider(q)
  BY DEF execVars, TheModel, TheProvider
<1>4. \/ pc[q] = "gateModel" /\ op[q].fn = "check"
      \/ pc[q] \in {"failModel", "catchModel"} /\ op[q].fn = "failure"
  BY <1>1, <1>2 DEF Querying, Runs, After
<1>5. op[q].key = TheModel(q)
  BY <1>1, <1>4 DEF Querying, Runs
<1>6. /\ NewRow(q) \in Row /\ NewRow(q).key = op[q].key
      /\ op[q].fn = "failure" => ~NewRow(q).halfOpen
  <2>1. CASE op[q].fn = "failure"
    BY <1>1, <2>1, RowTypes DEF NewRow, FailureRow
  <2>2. CASE op[q].fn = "check"
    <3>1. op[q].seen \in Row /\ op[q].seen.key = op[q].key
      BY <1>1, <2>2 DEF OpOK, Aiming
    <3> QED
      BY <2>2, <3>1, RowTypes DEF NewRow, FlipRow, Row
  <2> QED
    BY <1>4, <2>1, <2>2
<1>7. /\ rows'[r] = NewRow(q) /\ rows'[r] # NoRow
      /\ \A s \in RowId \ {r} : rows'[s] = rows[s]
  BY <1>1, <1>6, NoRowAssumption DEF Table
<1>8. RowsKept /\ ModelRows'
  BY <1>1, <1>6, <1>7 DEF RowsKept, ModelRows
<1>9. /\ op'[q].fn = op[q].fn /\ op'[q].key = op[q].key /\ op'[q].at = "done"
      /\ op[q].fn = "check" => op'[q].verdict = "probe"
      /\ \A d \in Caller \ {q} : op'[d] = op[d]
  <2>1. op'[q] = Written(q) /\ \A d \in Caller \ {q} : op'[d] = op[d]
    BY <1>1
  <2>2. Written(q) = Finish(q, IF op[q].fn = "check" THEN "probe" ELSE "none")
    BY DEF Written
  <2> QED
    BY <1>1, <2>1, <2>2, FinishType DEF Verdict
<1>10. Querying(q)' /\ Aiming(q)'
  BY <1>3, <1>4, <1>5, <1>9 DEF Querying, Runs, Aiming
<1>11. ASSUME NEW m \in Model, UniqueRows', HalfOpen(m)', ~Owing(q, m)'
       PROVE  HalfOpen(m) /\ ~Owing(q, m)
  <2>1. PICK s \in RowId : rows'[s] # NoRow /\ rows'[s].key = m /\ rows'[s].halfOpen
    BY <1>11 DEF HalfOpen, RowsOf
  <2>2. m # TheModel(q)
    <3>1. CASE pc[q] = "gateModel"
      BY <1>2, <1>3, <1>4, <1>9, <1>11, <3>1 DEF Owing, Limit
    <3>2. CASE op[q].fn = "failure"
      BY <1>5, <1>6, <1>7, <1>11, <2>1, <3>2 DEF UniqueRows
    <3> QED
      BY <1>4, <3>1, <3>2
  <2>3. s # r
    BY <1>5, <1>6, <1>7, <2>1, <2>2
  <2> QED
    BY <1>7, <2>1, <2>2, <2>3 DEF HalfOpen, RowsOf, Owing
<1> QED
  BY <1>3, <1>8, <1>9, <1>10, <1>11, StepOfOne

LEMMA UpsertWritePInv ==
    ASSUME Production, IInv, PInv, NEW q \in Caller, UpsertUpdate(q) \/ UpsertCreate(q),
           UNCHANGED execVars
    PROVE  PInv'
<1>1. Aiming(q) /\ ModelRows /\ op[q].at = "upsertWrite"
  BY DEF PInv, UpsertUpdate, UpsertCreate
<1>2. CASE UpsertUpdate(q)
  <2>1. /\ op[q].target \in RowId /\ rows[op[q].target].key = op[q].key /\ op[q].key \in Model
    BY <1>1, <1>2 DEF UpsertUpdate, Aiming, ModelRows
  <2> QED
    BY <1>1, <1>2, <2>1, WritePInv DEF UpsertUpdate
<1>3. CASE UpsertCreate(q)
  <2>1. op[q].key \in Model
    BY <1>3 DEF UpsertCreate, Production
  <2> QED
    BY <1>1, <1>3, <2>1, WritePInv DEF UpsertCreate
<1> QED
  BY <1>2, <1>3

(* Only the report on a provider can be refused.                           *)
LEMMA RefusedPInv ==
    ASSUME Production, IInv, PInv, NEW q \in Caller, UpsertRefused(q), UNCHANGED execVars
    PROVE  PInv'
<1>1. /\ op \in [Caller -> Op] /\ op[q] \in Op /\ op[q].at = "upsertWrite"
      /\ Querying(q) /\ ModelRows /\ rows' = rows /\ op[q].key \notin Model
  BY DEF IInv, TypeOK, EngineTypeOK, PInv, UpsertRefused, Production
<1>2. /\ pc[q] \in {"gateModel", "gateProvider"} \cup After /\ TheModel(q) \in Model
  BY <1>1, QueryPlaces
<1>3. pc' = pc /\ cands' = cands /\ i' = i /\ TheProvider(q)' = TheProvider(q)
  BY DEF execVars, TheModel, TheProvider
<1>4. RowsKept /\ ModelRows' /\ \A m \in Model : HalfOpen(m)' <=> HalfOpen(m)
  BY <1>1 DEF RowsKept, ModelRows, HalfOpen, RowsOf
<1>5. pc[q] = "failProvider"
  BY <1>1, <1>2 DEF Querying, Runs, After
<1>6. /\ op'[q].fn = op[q].fn /\ op'[q].key = op[q].key /\ op'[q].at = "threw"
      /\ \A d \in Caller \ {q} : op'[d] = op[d]
  BY <1>1 DEF UpsertRefused, Op
<1>7. Querying(q)' /\ Aiming(q)'
  BY <1>1, <1>3, <1>5, <1>6 DEF Querying, Runs, Aiming
<1>8. \A m \in Model : ~Owing(q, m)
  BY <1>5 DEF Owing
<1> QED
  BY <1>3, <1>4, <1>6, <1>7, <1>8, StepOfOne

LEMMA ResetEffect ==
    ASSUME Store = "prisma"
    PROVE  /\ ResetRow(NoRow) = NoRow
           /\ \A row \in Row : /\ ResetRow(row) # NoRow
                               /\ ResetRow(row).key = row.key
                               /\ ~ResetRow(row).halfOpen
BY NoRowAssumption, RowTypes, ZenonT(30) DEF ResetRow, Row, Expiry

LEMMA ResetPInv ==
    ASSUME Production, IInv, PInv, NEW q \in Caller, Reset(q), UNCHANGED execVars
    PROVE  PInv'
<1>1. /\ op \in [Caller -> Op] /\ op[q] \in Op /\ op[q].at = "reset" /\ rows \in Table
      /\ Querying(q) /\ Aiming(q) /\ ModelRows
  BY DEF IInv, TypeOK, EngineTypeOK, PInv, Reset
<1>2. /\ pc[q] \in {"gateModel", "gateProvider"} \cup After
      /\ TheModel(q) \in Model /\ TheProvider(q) \notin Model
  BY <1>1, QueryPlaces
<1>3. pc' = pc /\ cands' = cands /\ i' = i /\ TheModel(q)' = TheModel(q)
      /\ TheProvider(q)' = TheProvider(q)
  BY DEF execVars, TheModel, TheProvider
<1> DEFINE t == op[q].target
<1>4. /\ t \in RowId /\ rows[t] # NoRow /\ rows[t].key = op[q].key
      /\ \A s \in RowId : rows'[s] = IF s = t THEN ResetRow(rows[s]) ELSE rows[s]
      /\ \A s \in RowId : rows[s] \in Row \cup {NoRow}
  BY <1>1 DEF Reset, ResetIds, Production, Aiming, Table
<1>5. pc[q] = "okModel" /\ op[q].key = TheModel(q)
  BY <1>1, <1>2 DEF Querying, Runs, After
<1> HIDE DEF t
<1>6. /\ \A s \in RowId \ {t} : rows'[s] = rows[s]
      /\ rows'[t] # NoRow /\ rows'[t].key = op[q].key /\ ~rows'[t].halfOpen
  BY <1>4, ResetEffect DEF Production
<1>7. RowsKept /\ ModelRows'
  BY <1>1, <1>4, <1>6 DEF RowsKept, ModelRows
<1>8. /\ op'[q].fn = op[q].fn /\ op'[q].key = op[q].key /\ op'[q].at = "done"
      /\ \A d \in Caller \ {q} : op'[d] = op[d]
  <2>1. op'[q] = Finish(q, "none") /\ \A d \in Caller \ {q} : op'[d] = op[d]
    BY <1>1 DEF Reset
  <2> QED
    BY <1>1, <2>1, FinishType DEF Verdict
<1>9. Querying(q)' /\ Aiming(q)'
  BY <1>1, <1>3, <1>5, <1>8 DEF Querying, Runs, Aiming
<1>10. ASSUME NEW m \in Model, UniqueRows', HalfOpen(m)' PROVE HalfOpen(m) /\ ~Owing(q, m)
  <2>1. PICK s \in RowId : rows'[s] # NoRow /\ rows'[s].key = m /\ rows'[s].halfOpen
    BY <1>10 DEF HalfOpen, RowsOf
  <2>2. s # t
    BY <1>6, <2>1
  <2>3. m # TheModel(q)
    BY <1>4, <1>5, <1>6, <1>10, <2>1, <2>2 DEF UniqueRows
  <2> QED
    BY <1>6, <2>1, <2>2, <2>3 DEF HalfOpen, RowsOf, Owing
<1> QED
  BY <1>3, <1>7, <1>8, <1>9, <1>10, StepOfOne

LEMMA EnginePInv ==
    ASSUME Production, IInv, PInv, NEW q \in Caller, Engine(q)
    PROVE  PInv'
<1>1. UNCHANGED execVars /\ EngineStep(q)
  BY DEF Engine
<1>2. ~MemoryUpsert(q)
  BY DEF MemoryUpsert, Production
<1> QED
  BY <1>1, <1>2, FindPInv, UpsertFindPInv, UpsertWritePInv, RefusedPInv, ResetPInv
  DEF EngineStep

-----------------------------------------------------------------------------
(* Time, and the administrator's reset: nothing becomes half-open.         *)
LEMMA EnvironmentPInv ==
    ASSUME Production, IInv, PInv, Environment
    PROVE  PInv'
<1>1. PICK r \in RowId : Expire(r) \/ AdminReset(r)
  BY DEF Environment
<1>2. op' = op /\ UNCHANGED execVars /\ rows \in Table /\ rows[r] \in Row
  BY <1>1 DEF Environment, Expire, AdminReset, IInv, TypeOK, EngineTypeOK, Table
<1>3. PICK row : rows' = [rows EXCEPT ![r] = row] /\ row # NoRow /\ row.key = rows[r].key
                 /\ (row.halfOpen => rows[r].halfOpen)
  <2>1. CASE Expire(r)
    <3>1. [rows[r] EXCEPT !.expiry = "past"] \in Row
      BY <1>2 DEF Row, Expiry
    <3>2. rows' = [rows EXCEPT ![r] = [rows[r] EXCEPT !.expiry = "past"]]
      BY <2>1 DEF Expire
    <3> QED
      BY <1>2, <3>1, <3>2, NoRowAssumption DEF Row
  <2>2. CASE AdminReset(r)
    BY <1>2, <2>2, ResetEffect DEF AdminReset, Production
  <2> QED
    BY <1>1, <2>1, <2>2
<1>4. /\ \A s \in RowId : rows'[s] # NoRow <=> rows[s] # NoRow
      /\ \A s \in RowId : rows'[s].key = rows[s].key
      /\ \A s \in RowId : rows'[s].halfOpen => rows[s].halfOpen
  BY <1>2, <1>3, NoRowAssumption DEF Table
<1>5. ModelRows' /\ RowsKept /\ \A m \in Model : HalfOpen(m)' => HalfOpen(m)
  BY <1>4 DEF PInv, ModelRows, RowsKept, HalfOpen, RowsOf
<1>6. \A q \in Caller : Querying(q)' /\ \A m \in Model : Owing(q, m) => Owing(q, m)'
  BY <1>2 DEF PInv, Querying, Runs, Owing, TheModel, TheProvider, Limit, execVars
<1>7. \A q \in Caller : Aiming(q)'
  BY <1>2, <1>4 DEF PInv, Aiming
<1>8. OwedModels'
  BY <1>5, <1>6, KeptUnique DEF PInv, OwedModels
<1> QED
  BY <1>5, <1>6, <1>7, <1>8 DEF PInv

LEMMA InitPInv == Init => PInv
<1> SUFFICES ASSUME Init PROVE PInv
  OBVIOUS
<1>1. \A q \in Caller : op[q] = IdleOp /\ pc[q] = "idle"
  BY DEF Init, EngineInit
<1>2. IdleOp.at = "idle"
  BY DEF IdleOp
<1>3. \A r \in RowId : rows[r] = NoRow
  BY DEF Init, EngineInit
<1>4. \A q \in Caller : Querying(q) /\ Aiming(q)
  BY <1>1, <1>2 DEF Querying, Aiming
<1> QED
  BY <1>3, <1>4 DEF PInv, ModelRows, OwedModels, HalfOpen, RowsOf

LEMMA NextPInv ==
    ASSUME Production, IInv, PInv, [Next]_vars
    PROVE  PInv'
<1>1. ASSUME NEW q \in Caller, DbFault(q) PROVE FALSE
  BY <1>1 DEF DbFault, Production, IInv, TypeOK
<1>2. CASE UNCHANGED vars
  BY <1>2 DEF vars, execVars, PInv, ModelRows, OwedModels, UniqueRows, HalfOpen, RowsOf, Owing,
     Querying, Runs, Aiming, TheModel, TheProvider, Limit
<1> QED
  BY <1>1, <1>2, RequestPInv, EnginePInv, EnvironmentPInv DEF Next, RequestStep

(* With the production foreign key and no failing query: while no model    *)
(* has two rows, a half-open model always has a request in flight that     *)
(* will report on it, for any models, providers, plans, policies and       *)
(* requests.  A query that fails between the flip and the report, or a     *)
(* provider with a row whose gate denies there, would leave the mark.      *)
THEOREM ModelProbeAlwaysOwed ==
    ASSUME Store = "prisma", ForeignKeyOK = Model, MaxDbFaults = 0
    PROVE  Spec => []ModelProbeOwed
<1>1. Production
  BY DEF Production
<1>2. IInv /\ PInv /\ [Next]_vars => PInv'
  BY <1>1, NextPInv
<1>3. PInv => ModelProbeOwed
  BY OwingOwes DEF PInv
<1> QED
  BY <1>2, <1>3, InitPInv, Invariance, PTL DEF Spec
=============================================================================
