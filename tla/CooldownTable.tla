--------------------------- MODULE CooldownTable ---------------------------
(***************************************************************************)
(* The rows of the `cooldowns` table and the two stores that keep them:    *)
(* PrismaCooldownStore (production) and MemoryCooldownStore (tests and     *)
(* bootstrap).  Everything here is a constant-level operator on a table    *)
(* value; CooldownEngine decides when the operations run.                  *)
(*                                                                         *)
(* Times are abstracted to what the engine tells apart.  A row's expiresAt *)
(* is "future" (> now), "past" (<= now) or "epoch" (new Date(0), which     *)
(* only the Prisma reset writes).  How long a "future" lasts is left open, *)
(* because the backoff is jittered and hints differ per error kind.        *)
(***************************************************************************)
EXTENDS Naturals, FiniteSets

CONSTANTS
    Key,          \* cooldown keys: modelIds and providerSlugs, scopes apart
    ForeignKeyOK, \* the keys a new row may reference (cooldowns_*_fkey)
    RowId,        \* ids the table can hand out
    NoRow,        \* "no row with this id"
    NoId,         \* "findFirst returned null"
    AttemptsCap,  \* attempts from which the backoff is saturated at maxMs
    Store         \* "prisma" or "memory"

ASSUME TableAssumption ==
    /\ Key # {}
    /\ ForeignKeyOK \subseteq Key
    /\ AttemptsCap \in Nat \ {0}
    /\ Store \in {"prisma", "memory"}
    /\ NoId \notin RowId

Expiry == {"future", "past", "epoch"}

Row == [key : Key, attempts : 1..AttemptsCap, expiry : Expiry, halfOpen : BOOLEAN]

ASSUME NoRowAssumption == NoRow \notin Row

Table == [RowId -> Row \cup {NoRow}]

(* The rows a query `where scope, modelId/providerId = k` ranges over.     *)
RowsOf(t, k) == {r \in RowId : t[r] # NoRow /\ t[r].key = k}

Rank(row) == CASE row.expiry = "future" -> 2
               [] row.expiry = "past"   -> 1
               [] row.expiry = "epoch"  -> 0

(***************************************************************************)
(* findActive: the row with the latest expiresAt.  Two rows of the same    *)
(* rank may be in either order.  resolvedAt is not part of the filter, so  *)
(* a row that was reset is still found.                                    *)
(***************************************************************************)
FindActive(t, k) ==
    {r \in RowsOf(t, k) : \A q \in RowsOf(t, k) : Rank(t[q]) <= Rank(t[r])}

(* reset(id): Prisma resolves the row but keeps it, attempts included;     *)
(* the memory store deletes the record.                                    *)
ResetRow(row) ==
    IF row = NoRow \/ Store = "memory"
      THEN NoRow
      ELSE [row EXCEPT !.expiry = "epoch", !.halfOpen = FALSE]

Saturate(n) == IF n > AttemptsCap THEN AttemptsCap ELSE n

(* Mutants: the first failure is level 0; the half-open mark is copied.    *)
FailureCountedLate(k, seen) ==
    [key |-> k, attempts |-> IF seen = NoRow THEN 0 ELSE seen.attempts,
     expiry |-> "future", halfOpen |-> FALSE]
FailureKeepsHalfOpen(k, seen) ==
    [key |-> k, attempts |-> 1, expiry |-> "future",
     halfOpen |-> IF seen = NoRow THEN FALSE ELSE seen.halfOpen]

(* What registerFailure writes, given the record findActive returned.      *)
FailureRow(k, seen) ==
    [key      |-> k,
     attempts |-> Saturate((IF seen = NoRow THEN 0 ELSE seen.attempts) + 1),
     expiry   |-> "future",
     halfOpen |-> FALSE]

(* What check writes when it flips an expired record to half-open: every   *)
(* field, expiresAt included, is copied from the record it read.           *)
FlipRow(seen) == [seen EXCEPT !.halfOpen = TRUE]
=============================================================================
