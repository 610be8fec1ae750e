---------------------------- MODULE ModelCatalog ----------------------------
(***************************************************************************)
(* The rows of one provider's models, and everyone who writes them:        *)
(* discovery (ModelDiscoveryService.refreshOne with diffSnapshots), the    *)
(* administrator's routes, ModelAutoBlacklistService.evaluateAll, and the  *)
(* deletion of the provider, which takes its models along.                 *)
(*                                                                         *)
(* Nobody locks.  A discovery run works on the upstream's list and on the  *)
(* rows as they were when it read them; a scan on the flags it read first. *)
(* The scheduler starts a run although the last one is still going, and    *)
(* the administrator may start more.  A provider that is created again has *)
(* a new id, and so have its models: whoever read the old ones holds ids   *)
(* of rows that are gone.                                                  *)
(***************************************************************************)
EXTENDS Naturals

CONSTANTS
    Model,       \* upstream ids of the provider
    Refresher,   \* discovery runs that can overlap
    Scanner,     \* auto-blacklist scans that can overlap
    Facts,       \* what contextLength and capabilities can be
    Listing,     \* how the upstream can list a model
    NoRow,       \* a model never seen
    Unlisted,    \* a model the upstream does not report
    MaxChanges    \* bound: upstream changes, administrator's edits and faults

Class == {"free", "suspected", "unknown", "paid"}
Status == {"active", "disabled", "removed", "paid_now"}
Override == {"none", "force_enabled", "force_disabled"}
Row == [status : Status, free : BOOLEAN, facts : Facts, override : Override,
        black : BOOLEAN, white : BOOLEAN]

ASSUME CatalogAssumption ==
    /\ Listing \subseteq [class : Class, facts : Facts]
    /\ Refresher \cap Scanner = {}
    /\ NoRow \notin Row
    /\ Unlisted \notin Listing
    /\ MaxChanges \in Nat

VARIABLES
    upstream,   \* upstream[m]: how the upstream lists m
    rows,       \* rows[m]: the row of m
    provider,   \* the provider's status, or that it has no row
    overtaken,  \* the runs and scans that hold ids of a deleted provider
    run,        \* run[r]: where a discovery run is, its list and its events
    scan,       \* scan[s]: the models a scan is still to judge
    changes     \* upstream changes, edits and faults so far

vars == <<upstream, rows, provider, overtaken, run, scan, changes>>

(* diffSnapshots' kinds of events, and the order in which it pushes those  *)
(* of one model; context and capabilities are one kind.                    *)
Kind == {"added", "paid_now", "facts_changed", "status_changed", "removed"}
Rank == [added |-> 1, paid_now |-> 2, facts_changed |-> 3, status_changed |-> 4, removed |-> 5]
NothingToDo == [m \in Model |-> {}]
Resting == [at |-> "idle", list |-> [m \in Model |-> Unlisted], todo |-> NothingToDo]

TypeOK ==
    /\ upstream \in [Model -> Listing \cup {Unlisted}]
    /\ rows \in [Model -> Row \cup {NoRow}]
    /\ provider \in {"active", "degraded", "absent"}
    /\ overtaken \subseteq Refresher \cup Scanner
    /\ run \in [Refresher -> [at : {"idle", "listed", "anchored", "applying"},
                              list : [Model -> Listing \cup {Unlisted}],
                              todo : [Model -> SUBSET Kind]]]
    /\ scan \in [Scanner -> SUBSET Model]
    /\ changes \in 0..MaxChanges

Init ==
    /\ upstream \in [Model -> Listing \cup {Unlisted}]
    /\ rows = [m \in Model |-> NoRow]
    /\ provider = "active"
    /\ overtaken = {}
    /\ run = [r \in Refresher |-> Resting]
    /\ scan = [s \in Scanner |-> {}]
    /\ changes = 0

Stored(m) == rows[m] # NoRow
Change == changes < MaxChanges /\ changes' = changes + 1

-----------------------------------------------------------------------------
(* The upstream changes what it lists.                                     *)
Publish(m) ==
    /\ Change
    /\ \E l \in Listing \cup {Unlisted} : l # upstream[m] /\ upstream' = [upstream EXCEPT ![m] = l]
    /\ UNCHANGED <<rows, provider, overtaken, run, scan>>

-----------------------------------------------------------------------------
(* diffSnapshots: the changes from a row to how the upstream lists it.     *)

(* Mutants: a model without a row is reported gone; one that comes back    *)
(* keeps its status.                                                       *)
GoneOrNeverSeen(row, l) == l = Unlisted /\ (row = NoRow \/ row.status # "removed")
OnlyPaidBack(row) == row.status = "paid_now"

Gone(row, l) == l = Unlisted /\ row # NoRow /\ row.status # "removed"
Back(row) == row.status \in {"removed", "paid_now"}

Due(k, row, l) ==
    \/ k = "removed" /\ Gone(row, l)
    \/ k = "added" /\ l # Unlisted /\ row = NoRow
    \/ /\ l # Unlisted
       /\ row # NoRow
       /\ \/ k = "paid_now" /\ row.free /\ l.class = "paid"
          \/ k = "facts_changed" /\ row.facts # l.facts
          \/ k = "status_changed" /\ Back(row)

(* applyDiff: the row after an event of the run that lists it as l.        *)
Applied(row, k, l) ==
    CASE k = "added"          -> [status |-> "active", free |-> l.class = "free",
                                  facts |-> l.facts, override |-> "none",
                                  black |-> FALSE, white |-> FALSE]
      [] k = "paid_now"       -> [row EXCEPT !.status = "paid_now", !.free = FALSE]
      [] k = "facts_changed"  -> [row EXCEPT !.facts = l.facts]
      [] k = "status_changed" -> [row EXCEPT !.status = "active"]
      [] k = "removed"        -> [row EXCEPT !.status = "removed"]

(* listModels answers.                                                     *)
List(r) ==
    /\ run[r].at = "idle"
    /\ run' = [run EXCEPT ![r] = [at |-> "listed", list |-> upstream, todo |-> NothingToDo]]
    /\ UNCHANGED <<upstream, rows, provider, overtaken, scan, changes>>

(* The provider is looked up by its slug; without a row the run returns.   *)
LookUp(r) ==
    /\ run[r].at = "listed"
    /\ run' = [run EXCEPT ![r] =
                 IF provider = "absent"
                   THEN Resting
                   ELSE [at |-> "anchored", list |-> run[r].list, todo |-> NothingToDo]]
    /\ overtaken' = overtaken \ {r}
    /\ UNCHANGED <<upstream, rows, provider, scan, changes>>

(* findMany answers with the rows of the provider that was looked up, and  *)
(* the diff is computed at once.                                           *)
Existing(r, m) == IF r \in overtaken THEN NoRow ELSE rows[m]

ReadRows(r) ==
    /\ run[r].at = "anchored"
    /\ run' = [run EXCEPT ![r] =
                 [at   |-> "applying",
                  list |-> run[r].list,
                  todo |-> [m \in Model |-> {k \in Kind : Due(k, Existing(r, m), run[r].list[m])}]]]
    /\ UNCHANGED <<upstream, rows, provider, overtaken, scan, changes>>

NextEvent(todo, k) == k \in todo /\ \A j \in todo : Rank[k] <= Rank[j]

(* One event is written.  The unique index refuses a second row; a run     *)
(* that a deletion has overtaken finds neither its provider nor its rows.  *)
Apply(r, m) ==
    /\ run[r].at = "applying"
    /\ r \notin overtaken
    /\ \E k \in Kind :
         /\ NextEvent(run[r].todo[m], k)
         /\ k = "added" => ~Stored(m)
         /\ rows' = [rows EXCEPT ![m] = Applied(rows[m], k, run[r].list[m])]
         /\ run' = [run EXCEPT ![r].todo[m] = run[r].todo[m] \ {k}]
    /\ UNCHANGED <<upstream, provider, overtaken, scan, changes>>

FinishRun(r) ==
    /\ run[r].at = "applying"
    /\ r \notin overtaken
    /\ run[r].todo = NothingToDo
    /\ provider' = "active"
    /\ run' = [run EXCEPT ![r] = Resting]
    /\ UNCHANGED <<upstream, rows, overtaken, scan, changes>>

(* The catch: a call, a query or the unique index fails, or the provider   *)
(* of the run is gone.  The provider of that slug, if there is one, is     *)
(* marked; that may fail too, and is swallowed.                            *)
AbortRun(r) ==
    /\ \/ Change
       \/ /\ run[r].at = "applying"
          /\ r \in overtaken \/ \E m \in Model : "added" \in run[r].todo[m] /\ Stored(m)
          /\ UNCHANGED changes
    /\ provider' \in {provider, IF provider = "absent" THEN "absent" ELSE "degraded"}
    /\ run' = [run EXCEPT ![r] = Resting]
    /\ UNCHANGED <<upstream, rows, overtaken, scan>>

-----------------------------------------------------------------------------
(* evaluateAll: the active rows and their flags are read once.             *)
Judged(row) ==
    /\ row # NoRow
    /\ row.status = "active"
    /\ ~row.white
    /\ row.override = "none"
    /\ ~row.black

Scan(s) ==
    /\ scan[s] = {}
    /\ scan' = [scan EXCEPT ![s] = {m \in Model : Judged(rows[m])}]
    /\ overtaken' = overtaken \ {s}
    /\ UNCHANGED <<upstream, rows, provider, run, changes>>

(* The logs of m are read and spare it,                                    *)
Spare(s, m) ==
    /\ m \in scan[s]
    /\ scan' = [scan EXCEPT ![s] = @ \ {m}]
    /\ UNCHANGED <<upstream, rows, provider, overtaken, run, changes>>

(* or condemn it; the update of a row that is gone ends the scan.          *)
Condemn(s, m) ==
    /\ m \in scan[s]
    /\ IF s \in overtaken
         THEN /\ scan' = [scan EXCEPT ![s] = {}]
              /\ UNCHANGED rows
         ELSE /\ scan' = [scan EXCEPT ![s] = @ \ {m}]
              /\ rows' = [rows EXCEPT ![m].override = "force_disabled"]
    /\ UNCHANGED <<upstream, provider, overtaken, run, changes>>

AbortScan(s) ==
    /\ scan[s] # {}
    /\ Change
    /\ scan' = [scan EXCEPT ![s] = {}]
    /\ UNCHANGED <<upstream, rows, provider, overtaken, run>>

-----------------------------------------------------------------------------
(* The administrator's routes, each one update of the rows.                *)
WithOverride(row, o) ==
    [row EXCEPT !.override = o,
                !.status = CASE o = "force_disabled" -> "disabled"
                             [] o = "force_enabled"  -> "active"
                             [] OTHER                -> @]

Flagged(row, b, w) == [row EXCEPT !.black = b, !.white = w]
BulkActions == {"blacklist", "whitelist", "enable", "disable", "reset"}
Bulk(row, action) ==
    CASE action = "blacklist" -> Flagged(WithOverride(row, "force_disabled"), TRUE, FALSE)
      [] action = "whitelist" -> Flagged(WithOverride(row, "force_enabled"), FALSE, TRUE)
      [] action = "enable"    -> Flagged(WithOverride(row, "force_enabled"), FALSE, row.white)
      [] action = "disable"   -> WithOverride(row, "force_disabled")
      [] action = "reset"     -> Flagged(WithOverride(row, "none"), FALSE, FALSE)

(* PATCH and an entry of import: each field is given or left alone.        *)
Patch(m) ==
    /\ Change
    /\ Stored(m)
    /\ \E row \in {rows[m]} \cup {WithOverride(rows[m], o) : o \in Override},
          b \in BOOLEAN, w \in BOOLEAN :
            rows' = [rows EXCEPT ![m] = Flagged(row, b, w)]
    /\ UNCHANGED <<upstream, provider, overtaken, run, scan>>

BulkEdit(ids, action) ==
    /\ Change
    /\ \E m \in ids : Stored(m)
    /\ rows' = [m \in Model |-> IF m \in ids /\ Stored(m) THEN Bulk(rows[m], action)
                                                          ELSE rows[m]]
    /\ UNCHANGED <<upstream, provider, overtaken, run, scan>>

(* DELETE /admin/providers/:slug: the models go with the provider.  Whoever*)
(* has looked it up, or read its models, holds ids of rows that are gone.  *)
DeleteProvider ==
    /\ provider # "absent"
    /\ Change
    /\ provider' = "absent"
    /\ rows' = [m \in Model |-> NoRow]
    /\ overtaken' = overtaken \cup {r \in Refresher : run[r].at \in {"anchored", "applying"}}
                              \cup {s \in Scanner : scan[s] # {}}
    /\ UNCHANGED <<upstream, run, scan>>

(* POST /admin/providers with the same slug: a new row with a new id.      *)
CreateProvider ==
    /\ provider = "absent"
    /\ Change
    /\ provider' = "active"
    /\ UNCHANGED <<upstream, rows, overtaken, run, scan>>

-----------------------------------------------------------------------------

Discovery(r) ==
    \/ List(r) \/ LookUp(r) \/ ReadRows(r) \/ FinishRun(r) \/ AbortRun(r)
    \/ \E m \in Model : Apply(r, m)
AutoBlacklist(s) ==
    \/ Scan(s) \/ AbortScan(s)
    \/ \E m \in Model : Spare(s, m) \/ Condemn(s, m)
Admin ==
    \/ DeleteProvider \/ CreateProvider
    \/ \E m \in Model : Patch(m)
    \/ \E ids \in SUBSET Model, action \in BulkActions : BulkEdit(ids, action)

Next ==
    \/ \E m \in Model : Publish(m)
    \/ \E r \in Refresher : Discovery(r)
    \/ \E s \in Scanner : AutoBlacklist(s)
    \/ Admin

Spec == Init /\ [][Next]_vars

(* The scheduler keeps starting discovery, and calls and queries end.      *)
FairSpec == Spec /\ \A r \in Refresher : WF_vars(Discovery(r))

-----------------------------------------------------------------------------

(* An event that updates a row finds it, whatever ran in between, unless   *)
(* the provider was deleted since the run looked it up: only "added"       *)
(* creates, alone and once, and only a deletion takes rows away, so        *)
(* nothing else makes an update fail for want of a row and takes the rest  *)
(* of its run with it.                                                     *)
UpdatesHaveRows ==
    \A r \in Refresher \ overtaken, m \in Model :
        LET todo == run[r].todo[m] IN
        todo \subseteq {"added"} \/ (Stored(m) /\ "added" \notin todo)

(* The row of m agrees with how the upstream lists it: what the upstream   *)
(* reports is there, and not as free if it costs money or as gone to a     *)
(* paid tier if it does not; what it does not report is marked removed.    *)
InSync(m) ==
    IF upstream[m] = Unlisted
      THEN Stored(m) => rows[m].status = "removed"
      ELSE /\ Stored(m)
           /\ rows[m].facts = upstream[m].facts
           /\ rows[m].status # "removed"
           /\ IF upstream[m].class = "paid" THEN ~rows[m].free
                                            ELSE rows[m].status # "paid_now"

(* Once the upstream, the administrator and the faults are quiet, the rows *)
(* of the provider, if it is still there, come to agree with the list and  *)
(* stay so, whatever runs on older lists or deleted ids were half-way and  *)
(* wherever a run was cut off.                                             *)
EventuallyInSync == <>[](provider # "absent" => \A m \in Model : InSync(m))

(* "discovery_pricing_returned_free" is what leads out of paid_now         *)
(* (model-status.ts:37): a run activates such a model only if its list has *)
(* it not paid.                                                            *)
(* The code does not keep it: the run after the one that marked it, on the *)
(* same list, makes it active (snapshot-diff.service.ts:185).              *)
PaidNowKept ==
    [][\A r \in Refresher, m \in Model :
         Apply(r, m) /\ Stored(m) /\ rows[m].status = "paid_now" /\ rows'[m].status = "active"
            => run[r].list[m].class # "paid"]_vars

(* A model that the upstream lists as free comes to be marked free.        *)
(* The code does not keep it: no event sets isFree again.                  *)
FreeAgain ==
    <>[](provider # "absent" =>
            \A m \in Model : upstream[m] # Unlisted /\ upstream[m].class = "free"
                                => Stored(m) /\ rows[m].free)

(* "the administrator's force_enabled cannot be overturned by cron"        *)
(* (model-auto-blacklist.service.ts:14).                                   *)
(* The code does not keep it: the override was read before the logs.       *)
EnabledSurvivesScan ==
    [][\A s \in Scanner, m \in Model :
         Condemn(s, m) /\ rows[m].override = "force_enabled" => rows'[m] = rows[m]]_vars
=============================================================================
