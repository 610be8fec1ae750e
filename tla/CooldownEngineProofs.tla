------------------------ MODULE CooldownEngineProofs ------------------------
(***************************************************************************)
(* What every client of the cooldown engine can rely on: lemmas about the  *)
(* rows, and EngineInv, which the engine's own steps keep.                 *)
(***************************************************************************)
EXTENDS CooldownEngine, TLAPS

(* What an operation holds between its find and its write.                 *)
OpOK(c) ==
    /\ op[c].at \in {"upsertFind", "upsertWrite"} =>
          \/ op[c].fn = "failure"
          \/ op[c].fn = "check" /\ op[c].seen # NoRow
    /\ op[c].at = "reset" => op[c].target \in RowId

EngineInv == EngineTypeOK /\ \A c \in Caller : OpOK(c)

-----------------------------------------------------------------------------

(* findActive misses no key that has a row: one of the rows has the latest *)
(* expiresAt.                                                              *)
LEMMA FindActiveEmpty ==
    ASSUME rows \in Table, NEW k \in Key, FindActive(rows, k) = {}
    PROVE  RowsOf(rows, k) = {}
<1>1. \A r \in RowsOf(rows, k) : rows[r] \in Row
  BY DEF RowsOf, Table
<1>2. \A r \in RowsOf(rows, k) : Rank(rows[r]) \in 0..2
  BY <1>1 DEF Rank, Row, Expiry
<1>3. \A r \in RowsOf(rows, k) : Rank(rows[r]) # 2
  BY <1>2 DEF FindActive
<1>4. \A r \in RowsOf(rows, k) : Rank(rows[r]) # 1
  BY <1>2, <1>3 DEF FindActive
<1>5. \A r \in RowsOf(rows, k) : Rank(rows[r]) # 0
  BY <1>2, <1>3, <1>4 DEF FindActive
<1> QED
  BY <1>2, <1>3, <1>4, <1>5

LEMMA RowTypes ==
    /\ \A k \in Key, seen \in Row \cup {NoRow} : FailureRow(k, seen) \in Row
    /\ \A seen \in Row : FlipRow(seen) \in Row
    /\ \A row \in Row \cup {NoRow} : ResetRow(row) \in Row \cup {NoRow}
<1>1. \A n \in Nat \ {0} : Saturate(n) \in 1..AttemptsCap
  BY TableAssumption DEF Saturate
<1>2. ASSUME NEW k \in Key, NEW seen \in Row \cup {NoRow}
      PROVE  FailureRow(k, seen) \in Row
  <2>1. (IF seen = NoRow THEN 0 ELSE seen.attempts) + 1 \in Nat \ {0}
    BY TableAssumption DEF Row
  <2> QED
    BY <1>1, <2>1 DEF FailureRow, Row, Expiry
<1>3. \A seen \in Row : FlipRow(seen) \in Row
  BY DEF FlipRow, Row
<1>4. \A row \in Row \cup {NoRow} : ResetRow(row) \in Row \cup {NoRow}
  BY DEF ResetRow, Row, Expiry
<1> QED
  BY <1>2, <1>3, <1>4

LEMMA IdleOpType == IdleOp \in Op
BY TableAssumption DEF IdleOp, Op, Fn, Stage, Verdict

LEMMA FinishType ==
    ASSUME NEW c \in Caller, op[c] \in Op, NEW v \in Verdict
    PROVE  /\ Finish(c, v) \in Op
           /\ Finish(c, v).at = "done"
           /\ Finish(c, v).fn = op[c].fn
           /\ Finish(c, v).key = op[c].key
           /\ Finish(c, v).verdict = v
BY DEF Finish, Op, Stage

LEMMA CallType ==
    \A fn \in {"check", "failure", "success"}, k \in Key :
        /\ Call(fn, k) \in Op
        /\ Call(fn, k).at = "find"
        /\ Call(fn, k).fn = fn
        /\ Call(fn, k).key = k
BY IdleOpType DEF Call, Op, Fn, Stage

-----------------------------------------------------------------------------

(* An engine step changes its caller's operation only, and leaves it       *)
(* finished, failed or at a later query of the same function.              *)
LEMMA EngineStepInv ==
    ASSUME EngineInv, NEW c \in Caller, EngineStep(c)
    PROVE  /\ EngineInv'
           /\ \A d \in Caller \ {c} : op'[d] = op[d]
<1>1. /\ rows \in Table /\ op \in [Caller -> Op] /\ op[c] \in Op /\ OpOK(c)
      /\ op[c].key \in Key /\ op[c].seen \in Row \cup {NoRow}
      /\ \A d \in Caller : OpOK(d)
  BY DEF EngineInv, EngineTypeOK, Op
<1>2. \A r \in RowId : rows[r] \in Row \cup {NoRow}
  BY <1>1 DEF Table
<1>3. op[c].at \in {"upsertFind", "upsertWrite"} => NewRow(c) \in Row
  BY <1>1, RowTypes DEF NewRow, OpOK
<1>4. Written(c) \in Op /\ Written(c).at = "done"
  <2>1. PICK v \in Verdict : Written(c) = Finish(c, v)
    BY DEF Written, Verdict
  <2> QED
    BY <1>1, <2>1, FinishType
<1>5. SUFFICES /\ rows' \in Table
               /\ \E o \in Op :
                     /\ op' = [op EXCEPT ![c] = o]
                     /\ o.at \in {"upsertFind", "upsertWrite"} =>
                           o.fn = "failure" \/ (o.fn = "check" /\ o.seen # NoRow)
                     /\ o.at = "reset" => o.target \in RowId
  <2>1. PICK o \in Op :
           /\ op' = [op EXCEPT ![c] = o]
           /\ o.at \in {"upsertFind", "upsertWrite"} =>
                 o.fn = "failure" \/ (o.fn = "check" /\ o.seen # NoRow)
           /\ o.at = "reset" => o.target \in RowId
    BY <1>5
  <2>2. op'[c] = o /\ \A d \in Caller \ {c} : op'[d] = op[d]
    BY <1>1, <2>1
  <2>3. op' \in [Caller -> Op]
    BY <1>1, <2>1
  <2>4. \A d \in Caller : OpOK(d)'
    BY <1>1, <2>1, <2>2 DEF OpOK
  <2> QED
    BY <1>5, <2>2, <2>3, <2>4 DEF EngineInv, EngineTypeOK
<1>6. CASE Find(c)
  <2>1. rows' = rows /\ op[c].at = "find"
    BY <1>6 DEF Find
  <2>2. PICK seen \in Row \cup {NoRow}, id \in RowId \cup {NoId} :
           /\ op' = [op EXCEPT ![c] = AfterFind(c, seen, id)]
           /\ seen # NoRow => id \in RowId
    <3>1. CASE op' = [op EXCEPT ![c] = AfterFind(c, NoRow, NoId)]
      BY <3>1
    <3>2. CASE \E r \in FindActive(rows, op[c].key) :
                  op' = [op EXCEPT ![c] = AfterFind(c, rows[r], r)]
      BY <1>2, <3>2 DEF FindActive, RowsOf
    <3> QED
      BY <1>6, <3>1, <3>2 DEF Find
  <2> DEFINE o == AfterFind(c, seen, id)
  <2>3. CASE op[c].fn = "check" /\ seen = NoRow
    <3>1. o = Finish(c, "allowed")
      BY <2>3 DEF AfterFind
    <3> QED
      BY <1>1, <2>1, <2>2, <3>1, FinishType DEF Verdict
  <2>4. CASE op[c].fn = "check" /\ seen # NoRow
    <3>1. seen.expiry \in Expiry /\ seen.halfOpen \in BOOLEAN
      BY <2>4 DEF Row
    <3>2. CASE seen.expiry = "future" \/ seen.halfOpen
      <4>1. o = Finish(c, "denied")
        BY <2>4, <3>2 DEF AfterFind
      <4> QED
        BY <1>1, <2>1, <2>2, <4>1, FinishType DEF Verdict
    <3>3. CASE seen.expiry # "future" /\ ~seen.halfOpen
      <4>1. o = [op[c] EXCEPT !.at = "upsertFind", !.seen = seen]
        BY <2>4, <3>3 DEF AfterFind
      <4>2. o \in Op /\ o.at = "upsertFind" /\ o.fn = "check" /\ o.seen = seen
        BY <1>1, <2>4, <4>1 DEF Op, Stage
      <4> QED
        BY <1>1, <2>1, <2>2, <2>4, <4>2
    <3> QED
      BY <3>1, <3>2, <3>3
  <2>5. CASE op[c].fn = "failure"
    <3>1. o = [op[c] EXCEPT !.at = "upsertFind", !.seen = seen]
      BY <2>5 DEF AfterFind
    <3>2. o \in Op /\ o.at = "upsertFind" /\ o.fn = "failure"
      BY <1>1, <2>5, <3>1 DEF Op, Stage
    <3> QED
      BY <1>1, <2>1, <2>2, <3>2
  <2>6. CASE op[c].fn = "success" /\ seen = NoRow
    <3>1. o = Finish(c, "none")
      BY <2>6 DEF AfterFind
    <3> QED
      BY <1>1, <2>1, <2>2, <3>1, FinishType DEF Verdict
  <2>7. CASE op[c].fn = "success" /\ seen # NoRow
    <3>1. o = [op[c] EXCEPT !.at = "reset", !.target = id]
      BY <2>7 DEF AfterFind
    <3>2. o \in Op /\ o.at = "reset" /\ o.target = id
      BY <1>1, <3>1 DEF Op, Stage
    <3> QED
      BY <1>1, <2>1, <2>2, <2>7, <3>2
  <2>8. CASE op[c].fn = "none"
    <3>1. o = op[c]
      BY <2>8 DEF AfterFind
    <3> QED
      BY <1>1, <2>1, <2>2, <3>1
  <2> QED
    BY <1>1, <2>3, <2>4, <2>5, <2>6, <2>7, <2>8 DEF Op, Fn
<1>7. CASE UpsertFind(c)
  <2>1. PICK t \in RowId \cup {NoId} :
           op' = [op EXCEPT ![c] = [op[c] EXCEPT !.at = "upsertWrite", !.target = t]]
    BY <1>7 DEF UpsertFind, RowsOf
  <2> DEFINE o == [op[c] EXCEPT !.at = "upsertWrite", !.target = t]
  <2>2. o \in Op /\ o.at = "upsertWrite" /\ o.fn = op[c].fn /\ o.seen = op[c].seen
    BY <1>1 DEF Op, Stage
  <2> HIDE DEF o
  <2> QED
    BY <1>1, <1>7, <2>1, <2>2 DEF UpsertFind, OpOK, o
<1>8. CASE UpsertUpdate(c)
  <2>1. op[c].target \in RowId
    BY <1>1, <1>8 DEF UpsertUpdate, Op
  <2> QED
    BY <1>1, <1>3, <1>4, <1>8, <2>1 DEF UpsertUpdate, Table
<1>9. CASE UpsertCreate(c)
  BY <1>1, <1>3, <1>4, <1>9 DEF UpsertCreate, Table
<1>10. CASE UpsertRefused(c)
  <2>1. op' = [op EXCEPT ![c] = [op[c] EXCEPT !.at = "threw"]]
    BY <1>10 DEF UpsertRefused
  <2>2. [op[c] EXCEPT !.at = "threw"] \in Op /\ [op[c] EXCEPT !.at = "threw"].at = "threw"
    BY <1>1 DEF Op, Stage
  <2> QED
    BY <1>1, <1>10, <2>1, <2>2 DEF UpsertRefused
<1>11. CASE MemoryUpsert(c)
  BY <1>1, <1>3, <1>4, <1>11 DEF MemoryUpsert, Table
<1>12. CASE Reset(c)
  <2>1. rows' \in Table
    BY <1>2, <1>12, RowTypes DEF Reset, Table
  <2> QED
    BY <1>1, <1>12, <2>1, FinishType DEF Reset, Verdict
<1> QED
  BY <1>6, <1>7, <1>8, <1>9, <1>10, <1>11, <1>12 DEF EngineStep

LEMMA EnvironmentInv ==
    ASSUME EngineInv, NEW r \in RowId, Expire(r) \/ AdminReset(r)
    PROVE  EngineInv' /\ op' = op
<1>1. op' = op /\ rows \in Table /\ rows[r] \in Row
  BY DEF EngineInv, EngineTypeOK, Expire, AdminReset, Table
<1>2. CASE Expire(r)
  <2>1. rows' = [rows EXCEPT ![r] = [rows[r] EXCEPT !.expiry = "past"]]
    BY <1>2 DEF Expire
  <2>2. [rows[r] EXCEPT !.expiry = "past"] \in Row
    BY <1>1 DEF Row, Expiry
  <2> QED
    BY <1>1, <2>1, <2>2 DEF EngineInv, EngineTypeOK, OpOK, Table
<1>3. CASE AdminReset(r)
  BY <1>1, <1>3, RowTypes DEF AdminReset, EngineInv, EngineTypeOK, OpOK, Table
<1> QED
  BY <1>2, <1>3
=============================================================================
