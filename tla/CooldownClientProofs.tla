------------------------ MODULE CooldownClientProofs ------------------------
(***************************************************************************)
(* For any set of keys, callers and rows, and for both stores: the type    *)
(* invariant of CooldownClient, and HalfOpenOwed.                          *)
(***************************************************************************)
EXTENDS CooldownClient, CooldownEngineProofs

(* An operation's fields agree with the phase of its caller.               *)
OpShapeOf(c) ==
    /\ phase[c] = "idle" => op[c].at = "idle"
    /\ phase[c] = "checking" => op[c].fn = "check"
    /\ phase[c] = "calling" => op[c].at = "done"
    /\ phase[c] = "reporting" => op[c].fn \in {"failure", "success"}
    /\ op[c].at \in {"upsertFind", "upsertWrite"} /\ op[c].fn = "check" =>
          op[c].seen # NoRow /\ op[c].seen.key = op[c].key
    /\ op[c].at \in {"upsertFind", "upsertWrite"} => op[c].fn \in {"check", "failure"}

OpShape == \A c \in Caller : OpShapeOf(c)

(* The row an operation is about to write is a row of its key.             *)
TargetOf(c) ==
    /\ op[c].at = "upsertWrite" => Store = "prisma"
    /\ (op[c].at = "upsertWrite" /\ op[c].target # NoId) \/ op[c].at = "reset" =>
          /\ op[c].target \in RowId
          /\ Store = "prisma" => /\ rows[op[c].target] # NoRow
                                 /\ rows[op[c].target].key = op[c].key

TargetOK == \A c \in Caller : TargetOf(c)

StoreOK ==
    /\ Store = "memory" => UniqueRows
    /\ Store = "prisma" =>
          \A r \in RowId : rows[r] # NoRow => rows[r].key \in ForeignKeyOK

IInv == TypeOK /\ OpShape /\ TargetOK /\ StoreOK /\ HalfOpenOwed

-----------------------------------------------------------------------------

LEMMA InitIInv == Init => IInv
<1> SUFFICES ASSUME Init PROVE IInv
  OBVIOUS
<1> USE DEF Init, EngineInit
<1>1. TypeOK
  BY IdleOpType, NoRowAssumption DEF TypeOK, EngineTypeOK, Table, Phase
<1>2. \A c \in Caller : op[c].at = "idle"
  BY DEF IdleOp
<1> QED
  BY <1>1, <1>2
  DEF IInv, OpShape, OpShapeOf, TargetOK, TargetOf, StoreOK, HalfOpenOwed, UniqueRows, HalfOpen, RowsOf

-----------------------------------------------------------------------------
(***************************************************************************)
(* The steps of the client, which leave the table alone.                   *)
(***************************************************************************)
ClientStep(c) ==
    \/ \E k \in Key : Check(c, k)
    \/ Admitted(c)
    \/ Denied(c)
    \/ Report(c, "success")
    \/ Report(c, "failure")
    \/ Reported(c)

LEMMA ClientStepIInv ==
    ASSUME IInv, NEW c \in Caller, ClientStep(c)
    PROVE  IInv'
<1>1. rows' = rows
  BY DEF ClientStep, Check, Admitted, Denied, Report, Reported, Leave, engineVars
<1>2. TypeOK /\ OpShape /\ TargetOK
  BY DEF IInv
<1>3. /\ op[c] \in Op
      /\ \A fn \in {"check", "failure", "success"}, k \in Key : Call(fn, k) \in Op
  BY <1>2, IdleOpType DEF TypeOK, EngineTypeOK, Call, Op, Fn, Stage
<1>4. TypeOK'
  BY <1>1, <1>2, <1>3, IdleOpType
  DEF ClientStep, Check, Admitted, Denied, Report, Reported, Leave, engineVars,
      TypeOK, EngineTypeOK, Op, Phase
<1>5. \A d \in Caller \ {c} : op'[d] = op[d] /\ phase'[d] = phase[d]
  BY <1>2 DEF ClientStep, Check, Admitted, Denied, Report, Reported, Leave, engineVars,
      TypeOK, EngineTypeOK
<1>c. ASSUME NEW fn, NEW k PROVE /\ Call(fn, k).fn = fn
                                 /\ Call(fn, k).key = k
                                 /\ Call(fn, k).at = "find"
  BY DEF Call, IdleOp
<1>d. IdleOp.at = "idle"
  BY DEF IdleOp
<1>e. \/ /\ phase[c] = "idle" /\ phase'[c] = "checking"
         /\ \E k \in Key : op'[c] = Call("check", k)
      \/ /\ phase[c] = "checking" /\ op[c].at = "done" /\ op[c].verdict \in {"allowed", "probe"}
         /\ phase'[c] = "calling" /\ op'[c] = op[c]
      \/ /\ phase[c] = "checking" /\ op[c].at = "done" /\ op[c].verdict = "denied"
         /\ phase'[c] = "idle" /\ op'[c] = IdleOp
      \/ /\ phase[c] = "calling" /\ phase'[c] = "reporting"
         /\ \E fn \in {"failure", "success"} : op'[c] = Call(fn, op[c].key)
      \/ /\ phase[c] = "reporting" /\ op[c].at \in {"done", "threw"}
         /\ phase'[c] = "idle" /\ op'[c] = IdleOp
  <2>t. op \in [Caller -> Op] /\ phase \in [Caller -> Phase]
    BY <1>2 DEF TypeOK, EngineTypeOK
  <2>1. CASE \E k \in Key : Check(c, k)
    BY <2>t, <2>1 DEF Check
  <2>2. CASE Admitted(c)
    BY <2>t, <2>2 DEF Admitted, engineVars
  <2>3. CASE Denied(c)
    BY <2>t, <2>3 DEF Denied, Leave
  <2>4. CASE Report(c, "success") \/ Report(c, "failure")
    BY <2>t, <2>4 DEF Report
  <2>5. CASE Reported(c)
    BY <2>t, <2>5 DEF Reported, Leave
  <2> QED
    BY <2>1, <2>2, <2>3, <2>4, <2>5 DEF ClientStep
<1>6. /\ phase'[c] = "idle" => op'[c].at = "idle"
      /\ phase'[c] = "checking" => op'[c].fn = "check"
      /\ phase'[c] = "calling" => op'[c].at = "done"
      /\ phase'[c] = "reporting" => op'[c].fn \in {"failure", "success"}
      /\ op'[c].at \in {"idle", "find", "done"}
  BY <1>c, <1>d, <1>e
<1>7. OpShape' /\ TargetOK'
  BY <1>1, <1>2, <1>5, <1>6 DEF OpShape, OpShapeOf, TargetOK, TargetOf
<1>8. StoreOK'
  BY <1>1 DEF IInv, StoreOK, UniqueRows
<1>9. ASSUME NEW k \in Key, Owes(c, k) PROVE Owes(c, k)'
  BY <1>c, <1>d, <1>e, <1>9 DEF Owes
<1>10. HalfOpenOwed'
  BY <1>1, <1>5, <1>9 DEF IInv, HalfOpenOwed, UniqueRows, HalfOpen, RowsOf, Owes
<1> QED
  BY <1>4, <1>7, <1>8, <1>10 DEF IInv

-----------------------------------------------------------------------------
(***************************************************************************)
(* The queries of an engine operation.                                     *)
(***************************************************************************)
LEMMA FindIInv ==
    ASSUME IInv, NEW c \in Caller, Find(c), UNCHANGED phase
    PROVE  IInv'
<1>1. rows' = rows /\ op[c].at = "find"
  BY DEF Find
<1>2. TypeOK /\ OpShape /\ TargetOK
  BY DEF IInv
<1>3. op[c] \in Op /\ op[c].key \in Key
  BY <1>2 DEF TypeOK, EngineTypeOK, Op
<1>4. PICK seen \in Row \cup {NoRow}, id \in RowId \cup {NoId} :
         /\ op' = [op EXCEPT ![c] = AfterFind(c, seen, id)]
         /\ seen = NoRow => RowsOf(rows, op[c].key) = {}
         /\ seen # NoRow => seen.key = op[c].key /\ id \in RowId /\ rows[id] = seen
  <2>1. CASE FindActive(rows, op[c].key) = {}
    <3>1. \/ op' = [op EXCEPT ![c] = AfterFind(c, NoRow, NoId)]
          \/ \E r \in {} : op' = [op EXCEPT ![c] = AfterFind(c, rows[r], r)]
      BY <2>1 DEF Find
    <3>2. RowsOf(rows, op[c].key) = {}
      BY <1>2, <1>3, <2>1, FindActiveEmpty DEF TypeOK, EngineTypeOK
    <3> QED
      BY <3>1, <3>2
  <2>2. CASE FindActive(rows, op[c].key) # {}
    <3>1. PICK r \in FindActive(rows, op[c].key) :
             op' = [op EXCEPT ![c] = AfterFind(c, rows[r], r)]
      BY <2>2 DEF Find
    <3>2. r \in RowId /\ rows[r] # NoRow /\ rows[r].key = op[c].key /\ rows[r] \in Row
      BY <1>2 DEF FindActive, RowsOf, TypeOK, EngineTypeOK, Table
    <3> QED
      BY <3>1, <3>2
  <2> QED
    BY <2>1, <2>2
<1>5. op'[c] = AfterFind(c, seen, id) /\ \A d \in Caller \ {c} : op'[d] = op[d]
  BY <1>2, <1>4 DEF TypeOK, EngineTypeOK
<1>6. /\ op'[c] \in Op
      /\ op'[c].key = op[c].key
      /\ op'[c].fn = op[c].fn
      /\ op'[c].at \in {"done", "upsertFind", "reset", "find"}
      /\ op'[c].at = "upsertFind" => /\ op[c].fn \in {"check", "failure"}
                                     /\ op'[c].seen = seen
                                     /\ op[c].fn = "check" => seen # NoRow
      /\ op'[c].at = "reset" => seen # NoRow /\ op'[c].target = id
      /\ op[c].fn \in {"success", "failure"} /\ op'[c].at = "done" => seen = NoRow
  <2>1. CASE op[c].fn = "check" /\ seen = NoRow
    BY <1>1, <1>3, <1>5, <2>1, ZenonT(30) DEF AfterFind, Finish, Op, Stage, Verdict
  <2>2. CASE op[c].fn = "check" /\ seen # NoRow
    <3>1. seen.expiry \in Expiry /\ seen.halfOpen \in BOOLEAN
      BY <2>2 DEF Row
    <3>2. CASE seen.expiry = "future" \/ seen.halfOpen
      <4>1. op'[c] = Finish(c, "denied")
        BY <1>5, <2>2, <3>2 DEF AfterFind
      <4> QED
        BY <1>1, <1>3, <2>2, <4>1 DEF Finish, Op, Stage, Verdict
    <3>3. CASE seen.expiry # "future" /\ ~seen.halfOpen
      <4>1. op'[c] = [op[c] EXCEPT !.at = "upsertFind", !.seen = seen]
        BY <1>5, <2>2, <3>3 DEF AfterFind
      <4> QED
        BY <1>1, <1>3, <2>2, <4>1 DEF Op, Stage
    <3> QED
      BY <3>1, <3>2, <3>3
  <2>3. CASE op[c].fn = "failure"
    BY <1>1, <1>3, <1>5, <2>3 DEF AfterFind, Op, Stage
  <2>4. CASE op[c].fn = "success" /\ seen = NoRow
    BY <1>1, <1>3, <1>5, <2>4, ZenonT(30) DEF AfterFind, Finish, Op, Stage, Verdict
  <2>5. CASE op[c].fn = "success" /\ seen # NoRow
    <3>1. op'[c] = [op[c] EXCEPT !.at = "reset", !.target = id]
      BY <1>5, <2>5 DEF AfterFind
    <3> QED
      BY <1>1, <1>3, <2>5, <3>1 DEF Op, Stage
  <2>6. CASE op[c].fn = "none"
    BY <1>1, <1>3, <1>5, <2>6 DEF AfterFind, Op
  <2> QED
    BY <1>3, <2>1, <2>2, <2>3, <2>4, <2>5, <2>6 DEF Op, Fn
<1>7. TypeOK'
  BY <1>1, <1>2, <1>4, <1>6 DEF TypeOK, EngineTypeOK
<1>8. OpShape'
  BY <1>1, <1>2, <1>4, <1>5, <1>6 DEF OpShape, OpShapeOf
<1>9. TargetOK'
  BY <1>1, <1>2, <1>4, <1>5, <1>6 DEF TargetOK, TargetOf
<1>10. StoreOK'
  BY <1>1 DEF IInv, StoreOK, UniqueRows
<1>11. ASSUME NEW k \in Key, Owes(c, k), HalfOpen(k) PROVE Owes(c, k)'
  BY <1>1, <1>2, <1>4, <1>6, <1>11 DEF Owes, OpShape, OpShapeOf, HalfOpen, RowsOf
<1>12. HalfOpenOwed'
  BY <1>1, <1>5, <1>11 DEF IInv, HalfOpenOwed, UniqueRows, HalfOpen, RowsOf, Owes
<1> QED
  BY <1>7, <1>8, <1>9, <1>10, <1>12 DEF IInv

LEMMA UpsertFindIInv ==
    ASSUME IInv, NEW c \in Caller, UpsertFind(c), UNCHANGED phase
    PROVE  IInv'
<1>1. rows' = rows /\ op[c].at = "upsertFind" /\ Store = "prisma"
  BY DEF UpsertFind
<1>2. TypeOK /\ OpShape /\ TargetOK
  BY DEF IInv
<1>3. op[c] \in Op
  BY <1>2 DEF TypeOK, EngineTypeOK
<1>4. PICK t \in RowId \cup {NoId} :
         /\ op' = [op EXCEPT ![c].at = "upsertWrite", ![c].target = t]
         /\ t # NoId => t \in RowId /\ rows[t] # NoRow /\ rows[t].key = op[c].key
  BY DEF UpsertFind, RowsOf
<1>5. \A d \in Caller \ {c} : op'[d] = op[d]
  BY <1>2, <1>4 DEF TypeOK, EngineTypeOK
<1>6. /\ op'[c] \in Op /\ op'[c].at = "upsertWrite" /\ op'[c].target = t
      /\ op'[c].key = op[c].key /\ op'[c].fn = op[c].fn /\ op'[c].seen = op[c].seen
  <2>1. op'[c] = [op[c] EXCEPT !.at = "upsertWrite", !.target = t]
    BY <1>2, <1>4 DEF TypeOK, EngineTypeOK
  <2> QED
    BY <1>3, <2>1 DEF Op, Stage
<1>a. t # NoId => t \in RowId /\ rows[t] # NoRow /\ rows[t].key = op[c].key
  BY <1>4
<1>7. TypeOK'
  BY <1>1, <1>2, <1>4, <1>6 DEF TypeOK, EngineTypeOK
<1>8. OpShape'
  <2> SUFFICES ASSUME NEW d \in Caller PROVE OpShapeOf(d)'
    BY DEF OpShape
  <2>1. CASE d = c
    BY <1>1, <1>2, <1>6, <2>1 DEF OpShape, OpShapeOf
  <2>2. CASE d # c
    BY <1>2, <1>5, <2>2 DEF OpShape, OpShapeOf
  <2> QED
    BY <2>1, <2>2
<1>9. TargetOK'
  <2> SUFFICES ASSUME NEW d \in Caller PROVE TargetOf(d)'
    BY DEF TargetOK
  <2>1. CASE d = c
    BY <1>1, <1>6, <1>a, <2>1 DEF TargetOf
  <2>2. CASE d # c
    BY <1>1, <1>2, <1>5, <2>2 DEF TargetOK, TargetOf
  <2> QED
    BY <2>1, <2>2
<1>10. StoreOK'
  BY <1>1 DEF IInv, StoreOK, UniqueRows
<1>11. ASSUME NEW k \in Key, Owes(c, k) PROVE Owes(c, k)'
  BY <1>1, <1>6, <1>11 DEF Owes
<1>12. HalfOpenOwed'
  BY <1>1, <1>5, <1>11 DEF IInv, HalfOpenOwed, UniqueRows, HalfOpen, RowsOf, Owes
<1> QED
  BY <1>7, <1>8, <1>9, <1>10, <1>12 DEF IInv

(* A create that is refused concerns a key that has no row.                *)
LEMMA UpsertRefusedIInv ==
    ASSUME IInv, NEW c \in Caller, UpsertRefused(c), UNCHANGED phase
    PROVE  IInv'
<1>1. rows' = rows /\ op[c].at = "upsertWrite" /\ op[c].key \notin ForeignKeyOK
  BY DEF UpsertRefused
<1>2. TypeOK /\ OpShape /\ TargetOK /\ StoreOK
  BY DEF IInv
<1>3. \A d \in Caller \ {c} : op'[d] = op[d]
  BY <1>2 DEF UpsertRefused, TypeOK, EngineTypeOK
<1>4. op'[c] \in Op /\ op'[c].at = "threw" /\ op'[c].fn = op[c].fn
  <2>1. op[c] \in Op /\ op'[c] = [op[c] EXCEPT !.at = "threw"]
    BY <1>2 DEF UpsertRefused, TypeOK, EngineTypeOK
  <2> QED
    BY <2>1 DEF Op, Stage
<1>5. TypeOK'
  BY <1>1, <1>2, <1>4 DEF TypeOK, EngineTypeOK, UpsertRefused
<1>6. OpShape'
  BY <1>1, <1>2, <1>3, <1>4 DEF OpShape, OpShapeOf
<1>10. TargetOK'
  BY <1>1, <1>2, <1>3, <1>4 DEF TargetOK, TargetOf
<1>7. StoreOK'
  BY <1>1, <1>2 DEF StoreOK, UniqueRows
<1>8. ~HalfOpen(op[c].key)
  BY <1>1, <1>2 DEF HalfOpen, RowsOf, StoreOK, TargetOK, TargetOf
<1>9. HalfOpenOwed'
  BY <1>1, <1>3, <1>8 DEF IInv, HalfOpenOwed, UniqueRows, HalfOpen, RowsOf, Owes
<1> QED
  BY <1>5, <1>6, <1>7, <1>9, <1>10 DEF IInv

(***************************************************************************)
(* What every write of an upsert does, whichever row it goes to: the row   *)
(* now is one of the operation's key, half-open only if the caller is a    *)
(* probe that will report.                                                 *)
(***************************************************************************)
LEMMA WriteIInv ==
    ASSUME IInv, NEW c \in Caller, UNCHANGED phase, NEW r \in RowId,
           op[c].at \in {"upsertFind", "upsertWrite"},
           rows' = [rows EXCEPT ![r] = NewRow(c)],
           op' = [op EXCEPT ![c] = Written(c)],
           rows[r] # NoRow => rows[r].key = op[c].key,
           rows[r] = NoRow /\ Store = "prisma" => op[c].key \in ForeignKeyOK,
           rows[r] = NoRow /\ Store = "memory" => RowsOf(rows, op[c].key) = {}
    PROVE  IInv'
<1>1. TypeOK /\ OpShape /\ TargetOK /\ StoreOK /\ HalfOpenOwed
  BY DEF IInv
<1>2. op[c] \in Op /\ op[c].key \in Key /\ op[c].seen \in Row \cup {NoRow}
  BY <1>1 DEF TypeOK, EngineTypeOK, Op
<1>3. op[c].fn = "check" \/ op[c].fn = "failure"
  BY <1>1 DEF OpShape, OpShapeOf
<1>4. NewRow(c) \in Row /\ NewRow(c) # NoRow
  BY <1>1, <1>2, <1>3, RowTypes, NoRowAssumption DEF NewRow, OpShape, OpShapeOf
<1>5. NewRow(c).key = op[c].key /\ (NewRow(c).halfOpen => op[c].fn = "check")
  <2>1. CASE op[c].fn = "failure"
    BY <2>1 DEF NewRow, FailureRow
  <2>2. CASE op[c].fn = "check"
    <3>1. op[c].seen \in Row /\ op[c].seen.key = op[c].key
      BY <1>1, <1>2, <2>2 DEF OpShape, OpShapeOf
    <3> QED
      BY <2>2, <3>1 DEF NewRow, FlipRow, Row
  <2> QED
    BY <1>3, <2>1, <2>2
<1>6. /\ rows'[r] = NewRow(c)
      /\ \A q \in RowId \ {r} : rows'[q] = rows[q]
  BY <1>1 DEF TypeOK, EngineTypeOK, Table
<1>7. /\ op'[c] = Written(c)
      /\ \A d \in Caller \ {c} : op'[d] = op[d]
  BY <1>1 DEF TypeOK, EngineTypeOK
<1>8. /\ op'[c] \in Op /\ op'[c].at = "done"
      /\ op'[c].fn = op[c].fn /\ op'[c].key = op[c].key
      /\ op[c].fn = "check" => op'[c].verdict = "probe"
  <2>1. PICK v \in Verdict : op'[c] = Finish(c, v) /\ (op[c].fn = "check" => v = "probe")
    BY <1>7 DEF Written, Verdict
  <2> QED
    BY <1>2, <2>1, FinishType
<1>9. TypeOK'
  BY <1>1, <1>4, <1>8 DEF TypeOK, EngineTypeOK, Table
<1>10. OpShape'
  BY <1>1, <1>7, <1>8 DEF OpShape, OpShapeOf
<1>11. TargetOK'
  BY <1>1, <1>4, <1>5, <1>6, <1>7, <1>8 DEF TargetOK, TargetOf
<1>12. StoreOK'
  BY <1>1, <1>5, <1>6 DEF StoreOK, UniqueRows, RowsOf
<1>13. UniqueRows' => UniqueRows
  BY <1>4, <1>5, <1>6 DEF UniqueRows
<1>14. HalfOpenOwed'
  <2> SUFFICES ASSUME UniqueRows', NEW k \in Key, NEW q \in RowId,
                      rows'[q] # NoRow, rows'[q].key = k, rows'[q].halfOpen
               PROVE  \E d \in Caller : Owes(d, k)'
    BY DEF HalfOpenOwed, HalfOpen, RowsOf
  <2>1. CASE q = r
    <3>1. op[c].fn = "check" /\ op[c].key = k
      BY <1>5, <1>6, <2>1
    <3>2. phase[c] = "checking"
      BY <1>1, <3>1 DEF OpShape, OpShapeOf, TypeOK, Phase
    <3> QED
      BY <1>8, <3>1, <3>2 DEF Owes
  <2>2. CASE q # r
    <3>1. HalfOpen(k)
      BY <1>6, <2>2 DEF HalfOpen, RowsOf
    <3>2. PICK d \in Caller : Owes(d, k)
      BY <1>1, <1>13, <3>1 DEF HalfOpenOwed
    <3>3. op[c].key # k
      BY <1>4, <1>5, <1>6, <2>2 DEF UniqueRows
    <3> QED
      BY <1>7, <3>2, <3>3 DEF Owes
  <2> QED
    BY <2>1, <2>2
<1> QED
  BY <1>9, <1>10, <1>11, <1>12, <1>14 DEF IInv

LEMMA UpsertUpdateIInv ==
    ASSUME IInv, NEW c \in Caller, UpsertUpdate(c), UNCHANGED phase
    PROVE  IInv'
<1>1. /\ op[c].target \in RowId /\ Store = "prisma"
      /\ rows[op[c].target] # NoRow /\ rows[op[c].target].key = op[c].key
  BY DEF UpsertUpdate, IInv, TargetOK, TargetOf
<1> QED
  BY <1>1, WriteIInv DEF UpsertUpdate

LEMMA UpsertCreateIInv ==
    ASSUME IInv, NEW c \in Caller, UpsertCreate(c), UNCHANGED phase
    PROVE  IInv'
<1>1. PICK r \in RowId : rows[r] = NoRow /\ rows' = [rows EXCEPT ![r] = NewRow(c)]
  BY DEF UpsertCreate
<1>2. Store # "memory"
  BY DEF UpsertCreate, IInv, TargetOK, TargetOf
<1> QED
  BY <1>1, <1>2, WriteIInv DEF UpsertCreate

LEMMA MemoryUpsertIInv ==
    ASSUME IInv, NEW c \in Caller, MemoryUpsert(c), UNCHANGED phase
    PROVE  IInv'
<1>1. PICK r \in RowId :
         /\ IF RowsOf(rows, op[c].key) = {} THEN rows[r] = NoRow
                                            ELSE r \in RowsOf(rows, op[c].key)
         /\ rows' = [rows EXCEPT ![r] = NewRow(c)]
  BY DEF MemoryUpsert
<1>2. /\ rows[r] # NoRow => rows[r].key = op[c].key
      /\ rows[r] = NoRow => RowsOf(rows, op[c].key) = {}
  BY <1>1 DEF RowsOf
<1> QED
  BY <1>1, <1>2, WriteIInv DEF MemoryUpsert

-----------------------------------------------------------------------------
(***************************************************************************)
(* Resets and the passing of time.                                         *)
(***************************************************************************)
LEMMA ResetEffect ==
    /\ Store = "memory" => \A row \in Row \cup {NoRow} : ResetRow(row) = NoRow
    /\ Store = "prisma" => /\ ResetRow(NoRow) = NoRow
                           /\ \A row \in Row : /\ ResetRow(row) # NoRow
                                               /\ ResetRow(row).key = row.key
                                               /\ ~ResetRow(row).halfOpen
BY NoRowAssumption, RowTypes, ZenonT(30) DEF ResetRow, Row, Expiry

(* Rows in S are reset, by caller c's registerSuccess or the administrator. *)
ResetAll(S) == rows' = [r \in RowId |-> IF r \in S THEN ResetRow(rows[r]) ELSE rows[r]]

LEMMA ResetAllRows ==
    ASSUME IInv, NEW S, ResetAll(S)
    PROVE  /\ rows' \in Table
           /\ StoreOK'
           /\ UniqueRows' => UniqueRows
           /\ \A r \in RowId :
                 /\ rows'[r] # NoRow => rows[r] # NoRow /\ rows'[r].key = rows[r].key
                 /\ rows'[r] # NoRow /\ rows'[r].halfOpen => r \notin S /\ rows'[r] = rows[r]
                 /\ Store = "prisma" /\ rows[r] # NoRow => rows'[r] # NoRow
<1>1. rows \in Table /\ StoreOK
  BY DEF IInv, TypeOK, EngineTypeOK
<1>2. \A r \in RowId : rows[r] \in Row \cup {NoRow}
  BY <1>1 DEF Table
<1>3. Store = "memory" \/ Store = "prisma"
  BY TableAssumption
<1>4. \A r \in RowId : rows'[r] = IF r \in S THEN ResetRow(rows[r]) ELSE rows[r]
  BY DEF ResetAll
<1>5. rows' \in Table
  BY <1>2, <1>4, RowTypes DEF ResetAll, Table
<1>6. \A r \in RowId :
         /\ rows'[r] # NoRow => rows[r] # NoRow /\ rows'[r].key = rows[r].key
         /\ rows'[r] # NoRow /\ rows'[r].halfOpen => r \notin S /\ rows'[r] = rows[r]
         /\ Store = "prisma" /\ rows[r] # NoRow => rows'[r] # NoRow
  BY <1>2, <1>3, <1>4, ResetEffect
<1>7. StoreOK'
  BY <1>1, <1>6 DEF StoreOK, UniqueRows
<1>8. UniqueRows' => UniqueRows
  BY <1>1, <1>3, <1>6 DEF StoreOK, UniqueRows
<1> QED
  BY <1>5, <1>6, <1>7, <1>8

LEMMA ResetIInv ==
    ASSUME IInv, NEW c \in Caller, Reset(c), UNCHANGED phase
    PROVE  IInv'
<1>1. ResetAll(ResetIds(c)) /\ op[c].at = "reset"
  BY DEF Reset, ResetAll
<1>2. TypeOK /\ OpShape /\ TargetOK /\ HalfOpenOwed
  BY DEF IInv
<1>3. /\ op[c] \in Op
      /\ op'[c] = Finish(c, "none")
      /\ \A d \in Caller \ {c} : op'[d] = op[d]
  BY <1>2 DEF Reset, TypeOK, EngineTypeOK
<1>4. op'[c] \in Op /\ op'[c].at = "done" /\ op'[c].fn = op[c].fn
  BY <1>3 DEF Finish, Op, Stage, Verdict
<1>5. TypeOK'
  BY <1>1, <1>2, <1>4, ResetAllRows DEF TypeOK, EngineTypeOK, Reset
<1>6. OpShape'
  BY <1>1, <1>2, <1>3, <1>4 DEF OpShape, OpShapeOf
<1>7. TargetOK'
  BY <1>1, <1>2, <1>3, <1>4, ResetAllRows DEF TargetOK, TargetOf
<1>8. HalfOpenOwed'
  <2> SUFFICES ASSUME UniqueRows', NEW k \in Key, NEW q \in RowId,
                      rows'[q] # NoRow, rows'[q].key = k, rows'[q].halfOpen
               PROVE  \E d \in Caller : Owes(d, k)'
    BY DEF HalfOpenOwed, HalfOpen, RowsOf
  <2>1. UniqueRows /\ q \notin ResetIds(c) /\ rows'[q] = rows[q]
    BY <1>1, ResetAllRows
  <2>2. PICK d \in Caller : Owes(d, k)
    BY <1>2, <2>1 DEF HalfOpenOwed, HalfOpen, RowsOf
  <2>3. op[c].key # k
    <3>1. CASE Store = "memory"
      BY <2>1, <3>1 DEF ResetIds, RowsOf
    <3>2. CASE Store = "prisma"
      BY <1>1, <1>2, <2>1, <3>2 DEF ResetIds, TargetOK, TargetOf, UniqueRows
    <3> QED
      BY <3>1, <3>2, TableAssumption
  <2> QED
    BY <1>3, <2>2, <2>3 DEF Owes
<1> QED
  BY <1>1, <1>5, <1>6, <1>7, <1>8, ResetAllRows DEF IInv

LEMMA AdminResetIInv ==
    ASSUME IInv, NEW r \in RowId, AdminReset(r), UNCHANGED phase
    PROVE  IInv'
<1>1. TypeOK /\ OpShape /\ TargetOK /\ HalfOpenOwed /\ op' = op
  BY DEF IInv, AdminReset
<1>2. ResetAll({r})
  BY <1>1 DEF AdminReset, ResetAll, TypeOK, EngineTypeOK, Table
<1>3. TypeOK' /\ OpShape'
  BY <1>1, <1>2, ResetAllRows DEF TypeOK, EngineTypeOK, OpShape, OpShapeOf
<1>4. TargetOK'
  BY <1>1, <1>2, ResetAllRows DEF TargetOK, TargetOf
<1>5. HalfOpenOwed'
  BY <1>1, <1>2, ResetAllRows DEF HalfOpenOwed, HalfOpen, RowsOf, Owes
<1> QED
  BY <1>2, <1>3, <1>4, <1>5, ResetAllRows DEF IInv

LEMMA ExpireIInv ==
    ASSUME IInv, NEW r \in RowId, Expire(r), UNCHANGED phase
    PROVE  IInv'
<1>1. TypeOK /\ OpShape /\ TargetOK /\ StoreOK /\ HalfOpenOwed /\ op' = op
  BY DEF IInv, Expire
<1>2. rows[r] \in Row
  BY <1>1 DEF Expire, TypeOK, EngineTypeOK, Table
<1>3. rows' = [rows EXCEPT ![r] = [rows[r] EXCEPT !.expiry = "past"]]
  BY DEF Expire
<1>4. /\ [rows[r] EXCEPT !.expiry = "past"] \in Row
      /\ [rows[r] EXCEPT !.expiry = "past"].key = rows[r].key
      /\ [rows[r] EXCEPT !.expiry = "past"].halfOpen = rows[r].halfOpen
  BY <1>2 DEF Row, Expiry
<1>5. \A q \in RowId : /\ rows'[q] # NoRow <=> rows[q] # NoRow
                       /\ rows'[q].key = rows[q].key
                       /\ rows'[q].halfOpen = rows[q].halfOpen
  BY <1>1, <1>3, <1>4, NoRowAssumption DEF Expire, TypeOK, EngineTypeOK, Table
<1>6. TypeOK'
  BY <1>1, <1>3, <1>4 DEF TypeOK, EngineTypeOK, Table
<1>7. OpShape'
  BY <1>1 DEF OpShape, OpShapeOf
<1>8. TargetOK'
  BY <1>1, <1>5 DEF TargetOK, TargetOf
<1>9. StoreOK'
  BY <1>1, <1>5 DEF StoreOK, UniqueRows
<1>10. /\ UniqueRows' => UniqueRows
       /\ \A k \in Key : HalfOpen(k)' => HalfOpen(k)
       /\ \A k \in Key, c \in Caller : Owes(c, k) => Owes(c, k)'
  BY <1>1, <1>5 DEF UniqueRows, HalfOpen, RowsOf, Owes
<1>11. HalfOpenOwed'
  BY <1>1, <1>10 DEF HalfOpenOwed
<1> QED
  BY <1>6, <1>7, <1>8, <1>9, <1>11 DEF IInv

-----------------------------------------------------------------------------

LEMMA NextIInv == IInv /\ [Next]_vars => IInv'
<1> SUFFICES ASSUME IInv, [Next]_vars PROVE IInv'
  OBVIOUS
<1>1. ASSUME NEW c \in Caller, ClientStep(c) PROVE IInv'
  BY <1>1, ClientStepIInv
<1>2. ASSUME NEW c \in Caller, Engine(c) PROVE IInv'
  BY <1>2, FindIInv, UpsertFindIInv, UpsertUpdateIInv, UpsertCreateIInv,
     UpsertRefusedIInv, MemoryUpsertIInv, ResetIInv
  DEF Engine, EngineStep
<1>3. CASE Environment
  BY <1>3, ExpireIInv, AdminResetIInv DEF Environment
<1>4. CASE UNCHANGED vars
  BY <1>4 DEF vars, IInv, TypeOK, EngineTypeOK, OpShape, OpShapeOf, TargetOK, TargetOf, StoreOK, UniqueRows,
     HalfOpenOwed, HalfOpen, RowsOf, Owes
<1> QED
  BY <1>1, <1>2, <1>3, <1>4 DEF Next, CallerStep, ClientStep

(* The inductive invariant holds of every behaviour, whatever the store.   *)
THEOREM Invariance == Spec => []IInv
BY InitIInv, NextIInv, PTL DEF Spec

(* Every reachable table holds well-formed rows and every operation is at  *)
(* one of its awaits.                                                      *)
THEOREM TypeCorrect == Spec => []TypeOK
<1>1. IInv => TypeOK
  BY DEF IInv
<1> QED
  BY <1>1, Invariance, PTL

(* check never leaves a key half-open for nobody: as long as no key has    *)
(* two rows, a half-open row always has a caller in flight whose report    *)
(* will clear it, for any number of callers, keys and rows, on either      *)
(* store, and with foreign keys that refuse some of the creates.           *)
THEOREM HalfOpenAlwaysOwed == Spec => []HalfOpenOwed
<1>1. IInv => HalfOpenOwed
  BY DEF IInv
<1> QED
  BY <1>1, Invariance, PTL

(* On the memory store, a key whose timer has expired admits the next      *)
(* request once nothing is in flight: no schedule leaves a probe's mark    *)
(* behind.  (On the Prisma store duplicate rows break this.)               *)
THEOREM MemoryAdmits ==
    ASSUME Store = "memory"
    PROVE  Spec => []ExpiredKeyAdmits
<1>1. ASSUME IInv, \A c \in Caller : phase[c] = "idle", NEW k \in Key, TimerExpired(k)
      PROVE  Admits(k)
  <2>1. UniqueRows /\ HalfOpenOwed /\ OpShape
    BY <1>1 DEF IInv, StoreOK
  <2>2. \A c \in Caller : ~Owes(c, k)
    BY <1>1 DEF Owes
  <2>3. ~HalfOpen(k)
    BY <2>1, <2>2 DEF HalfOpenOwed
  <2> QED
    BY <1>1, <2>3 DEF TimerExpired, HalfOpen, Admits, FindActive
<1>2. IInv => ExpiredKeyAdmits
  BY <1>1 DEF ExpiredKeyAdmits
<1> QED
  BY <1>2, Invariance, PTL
=============================================================================
