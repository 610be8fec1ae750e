--------------------------- MODULE CooldownEngine ---------------------------
(***************************************************************************)
(* CooldownEngine.check, registerFailure and registerSuccess over a store, *)
(* one action per awaited query.  Several callers (in-flight requests) run *)
(* engine operations at the same time, so between any two queries of one   *)
(* caller the queries of the others may happen: nothing in the engine or   *)
(* the stores locks a row or compares before it writes.                    *)
(*                                                                         *)
(* An operation is the record op[c].  A client module starts it with       *)
(* Call, the actions below run it to at = "done", and the client reads   *)
(* its verdict and returns the record to idle.                             *)
(***************************************************************************)
EXTENDS CooldownTable

CONSTANT Caller

VARIABLES
    rows,   \* the table
    op      \* op[c]: the engine operation caller c is executing

engineVars == <<rows, op>>

Fn == {"none", "check", "failure", "success"}
Stage == {"idle", "find", "upsertFind", "upsertWrite", "reset", "done", "threw"}
Verdict == {"none", "allowed", "probe", "denied"}

Op == [fn : Fn, key : Key, at : Stage, seen : Row \cup {NoRow},
       target : RowId \cup {NoId}, verdict : Verdict]

IdleOp == [fn |-> "none", key |-> CHOOSE k \in Key : TRUE, at |-> "idle",
           seen |-> NoRow, target |-> NoId, verdict |-> "none"]

Call(fn, k) == [IdleOp EXCEPT !.fn = fn, !.key = k, !.at = "find"]

EngineTypeOK ==
    /\ rows \in Table
    /\ op \in [Caller -> Op]

EngineInit ==
    /\ rows = [r \in RowId |-> NoRow]
    /\ op = [c \in Caller |-> IdleOp]

(***************************************************************************)
(* The first query of every operation: store.findActive(scope, key).       *)
(***************************************************************************)
Finish(c, v) == [op[c] EXCEPT !.at = "done", !.verdict = v]

(* What the operation does once it holds the record it read (or NoRow).    *)
AfterFind(c, seen, id) ==
    CASE op[c].fn = "check" /\ seen = NoRow             -> Finish(c, "allowed")
      [] op[c].fn = "check" /\ seen # NoRow
         /\ (seen.expiry = "future" \/ seen.halfOpen)   -> Finish(c, "denied")
      [] op[c].fn = "check" /\ seen # NoRow
         /\ seen.expiry # "future" /\ ~seen.halfOpen    ->
            [op[c] EXCEPT !.at = "upsertFind", !.seen = seen]
      [] op[c].fn = "failure"                           ->
            [op[c] EXCEPT !.at = "upsertFind", !.seen = seen]
      [] op[c].fn = "success" /\ seen = NoRow           -> Finish(c, "none")
      [] op[c].fn = "success" /\ seen # NoRow           ->
            [op[c] EXCEPT !.at = "reset", !.target = id]
      [] OTHER                                          -> op[c]

Find(c) ==
    /\ op[c].at = "find"
    /\ LET active == FindActive(rows, op[c].key) IN
       \/ /\ active = {}
          /\ op' = [op EXCEPT ![c] = AfterFind(c, NoRow, NoId)]
       \/ \E r \in active : op' = [op EXCEPT ![c] = AfterFind(c, rows[r], r)]
    /\ UNCHANGED rows

(***************************************************************************)
(* store.upsert.  Prisma: a findFirst with no order, then an update by id  *)
(* or a create.  Memory: one synchronous Map.set on the key's own id.      *)
(***************************************************************************)
NewRow(c) ==
    IF op[c].fn = "failure" THEN FailureRow(op[c].key, op[c].seen)
                            ELSE FlipRow(op[c].seen)

(* Mutant: the caller that flipped the row is denied like the others.      *)
FlipDenies(c) == Finish(c, IF op[c].fn = "check" THEN "denied" ELSE "none")

Written(c) == Finish(c, IF op[c].fn = "check" THEN "probe" ELSE "none")

UpsertFind(c) ==
    /\ op[c].at = "upsertFind"
    /\ Store = "prisma"
    /\ LET found == RowsOf(rows, op[c].key) IN
       \/ /\ found = {}
          /\ op' = [op EXCEPT ![c].at = "upsertWrite", ![c].target = NoId]
       \/ \E r \in found :
             op' = [op EXCEPT ![c].at = "upsertWrite", ![c].target = r]
    /\ UNCHANGED rows

UpsertUpdate(c) ==
    /\ op[c].at = "upsertWrite"
    /\ op[c].target # NoId
    /\ rows' = [rows EXCEPT ![op[c].target] = NewRow(c)]
    /\ op' = [op EXCEPT ![c] = Written(c)]

(* The create is refused by the foreign key when key is no id of the       *)
(* referenced table; the query then throws.                                *)
UpsertCreate(c) ==
    /\ op[c].at = "upsertWrite"
    /\ op[c].target = NoId
    /\ op[c].key \in ForeignKeyOK
    /\ \E r \in RowId : /\ rows[r] = NoRow
                        /\ rows' = [rows EXCEPT ![r] = NewRow(c)]
    /\ op' = [op EXCEPT ![c] = Written(c)]

UpsertRefused(c) ==
    /\ op[c].at = "upsertWrite"
    /\ op[c].target = NoId
    /\ op[c].key \notin ForeignKeyOK
    /\ op' = [op EXCEPT ![c].at = "threw"]
    /\ UNCHANGED rows

MemoryUpsert(c) ==
    /\ op[c].at = "upsertFind"
    /\ Store = "memory"
    /\ \E r \in RowId :
          /\ IF RowsOf(rows, op[c].key) = {} THEN rows[r] = NoRow
                                             ELSE r \in RowsOf(rows, op[c].key)
          /\ rows' = [rows EXCEPT ![r] = NewRow(c)]
    /\ op' = [op EXCEPT ![c] = Written(c)]

(* store.reset(id), the second query of registerSuccess.  The memory       *)
(* store's id is a function of the key: it deletes the key's record, if    *)
(* any, and never another key's.                                           *)
ResetIds(c) == IF Store = "memory" THEN RowsOf(rows, op[c].key) ELSE {op[c].target}

Reset(c) ==
    /\ op[c].at = "reset"
    /\ rows' = [r \in RowId |-> IF r \in ResetIds(c) THEN ResetRow(rows[r]) ELSE rows[r]]
    /\ op' = [op EXCEPT ![c] = Finish(c, "none")]

EngineStep(c) ==
    \/ Find(c)
    \/ UpsertFind(c)
    \/ UpsertUpdate(c)
    \/ UpsertCreate(c)
    \/ UpsertRefused(c)
    \/ MemoryUpsert(c)
    \/ Reset(c)

(***************************************************************************)
(* The environment of the engine: time passes a row's expiresAt, and an    *)
(* administrator resets a row from POST /admin/cooldowns/:id/reset.        *)
(***************************************************************************)
Expire(r) ==
    /\ rows[r] # NoRow
    /\ rows[r].expiry = "future"
    /\ rows' = [rows EXCEPT ![r].expiry = "past"]
    /\ UNCHANGED op

AdminReset(r) ==
    /\ rows[r] # NoRow
    /\ rows' = [rows EXCEPT ![r] = ResetRow(rows[r])]
    /\ UNCHANGED op

(***************************************************************************)
(* State functions the client modules state their properties with.         *)
(***************************************************************************)
UniqueRows ==
    \A r1, r2 \in RowId :
        rows[r1] # NoRow /\ rows[r2] # NoRow /\ rows[r1].key = rows[r2].key => r1 = r2

HalfOpen(k) == \E r \in RowsOf(rows, k) : rows[r].halfOpen

(* check(k), run now and alone, would admit the caller.                    *)
Admits(k) ==
    \A r \in FindActive(rows, k) : rows[r].expiry # "future" /\ ~rows[r].halfOpen

(* The timer of every row of k has run out (or was reset).                 *)
TimerExpired(k) == \A r \in RowsOf(rows, k) : rows[r].expiry # "future"
=============================================================================
