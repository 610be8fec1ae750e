----------------------------- MODULE ModelProofs -----------------------------
(***************************************************************************)
(* What becomes of a model, for any number of anything: its row in the     *)
(* catalogue and the pool cache that offers it, the order in which the     *)
(* router tries it and the retry policy's walk down that order, and the    *)
(* scores and the blacklist that judge it.                                 *)
(***************************************************************************)
EXTENDS ModelCatalog, PoolCache, Planning, AutoBlacklist, FiniteLemmas

(* The catalogue: its types and UpdatesHaveRows.  Neither is inductive     *)
(* alone: a row keeps its type because whoever updates it finds one, and a *)
(* pending event keeps its row because only a deletion takes rows away,    *)
(* which overtakes every run that has events and every scan.               *)

(* A model that a scan is to judge has a row.                              *)
ScansHaveRows == \A s \in Scanner \ overtaken : \A m \in scan[s] : Stored(m)

(* A run has events while it applies them, and a removal pending exactly   *)
(* where its list has no entry.                                            *)
TodoFits(r) ==
    \A m \in Model : \A k \in run[r].todo[m] :
        /\ run[r].at = "applying"
        /\ k = "removed" <=> run[r].list[m] = Unlisted

TodoFitsList == \A r \in Refresher : TodoFits(r)

Inv == TypeOK /\ UpdatesHaveRows /\ ScansHaveRows /\ TodoFitsList

(* What every step but a deletion does: no row goes.                       *)
RowsStay == \A m \in Model : Stored(m) => Stored(m)'

ListType == [Model -> Listing \cup {Unlisted}]
TodoType == [Model -> SUBSET Kind]
RunType == [at : {"idle", "listed", "anchored", "applying"}, list : ListType, todo : TodoType]

LEMMA RestingType == Resting \in RunType /\ \A m \in Model : Resting.todo[m] = {}
BY DEF Resting, RunType, ListType, TodoType, NothingToDo

LEMMA NoRowIsNoRow == \A stored \in Row : stored # NoRow
BY CatalogAssumption

(* What the writers make of a row is a row.                                *)
LEMMA AppliedType ==
    ASSUME NEW stored \in Row \cup {NoRow}, NEW k \in Kind, NEW l \in Listing \cup {Unlisted},
           k = "added" \/ stored # NoRow,
           k \in {"added", "facts_changed"} => l # Unlisted
    PROVE  Applied(stored, k, l) \in Row
<1>1. l # Unlisted => l.facts \in Facts
  BY CatalogAssumption
<1>2. CASE k = "added"
  BY <1>1, <1>2 DEF Applied, Row, Status, Override
<1>3. CASE k # "added"
  BY <1>1, <1>3 DEF Applied, Kind, Row, Status
<1> QED
  BY <1>2, <1>3

LEMMA WithOverrideType ==
    ASSUME NEW stored \in Row, NEW o \in Override PROVE WithOverride(stored, o) \in Row
BY DEF WithOverride, Row, Status, Override

LEMMA FlaggedType ==
    ASSUME NEW stored \in Row, NEW b \in BOOLEAN, NEW w \in BOOLEAN PROVE Flagged(stored, b, w) \in Row
BY DEF Flagged, Row

LEMMA BulkType ==
    ASSUME NEW stored \in Row, NEW action \in BulkActions PROVE Bulk(stored, action) \in Row
<1>1. stored.white \in BOOLEAN
  BY DEF Row
<1>2. \A o \in {"none", "force_enabled", "force_disabled"} : WithOverride(stored, o) \in Row
  BY WithOverrideType DEF Override
<1> QED
  BY <1>1, <1>2, FlaggedType DEF Bulk, BulkActions

-----------------------------------------------------------------------------

LEMMA Initial == Init => Inv
<1> SUFFICES ASSUME Init PROVE Inv
  OBVIOUS
<1>1. TypeOK
  BY CatalogAssumption, RestingType DEF Init, TypeOK, RunType, ListType, TodoType
<1>2. UpdatesHaveRows /\ TodoFitsList
  BY RestingType DEF Init, UpdatesHaveRows, TodoFitsList, TodoFits
<1>3. ScansHaveRows
  <2>1. \A s \in Scanner : scan[s] = {}
    BY DEF Init
  <2> QED
    BY <2>1 DEF ScansHaveRows
<1> QED
  BY <1>1, <1>2, <1>3 DEF Inv

(* What the other conjuncts need of a step: rows stay, and a run's events  *)
(* are old ones or fit the rows and the list.                              *)
EventsFit(r) ==
    /\ \A m \in Model :
         r \in overtaken' \/ run'[r].todo[m] \subseteq {"added"}
                         \/ (Stored(m)' /\ "added" \notin run'[r].todo[m])
    /\ TodoFits(r)'

LEMMA Preserved ==
    ASSUME Inv, TypeOK', RowsStay,
           \A r \in Refresher :
              (run'[r] = run[r] /\ (r \in overtaken => r \in overtaken')) \/ EventsFit(r),
           \A s \in Scanner \ overtaken' : \A m \in scan'[s] :
              (m \in scan[s] /\ s \notin overtaken) \/ Stored(m)'
    PROVE  Inv'
<1>1. UpdatesHaveRows'
  BY DEF Inv, UpdatesHaveRows, RowsStay, EventsFit
<1>2. TodoFitsList'
  BY DEF Inv, TodoFitsList, TodoFits, EventsFit
<1>3. ScansHaveRows'
  <2>1. \A s \in Scanner \ overtaken : \A m \in scan[s] : m \in Model /\ Stored(m)
    BY DEF Inv, ScansHaveRows, TypeOK
  <2> QED
    BY <2>1 DEF ScansHaveRows, RowsStay
<1> QED
  BY <1>1, <1>2, <1>3 DEF Inv

LEMMA PublishStep == ASSUME Inv, NEW m \in Model, Publish(m) PROVE Inv'
<1>1. RowsStay /\ run' = run /\ scan' = scan /\ overtaken' = overtaken
  BY DEF Publish, RowsStay, Stored
<1>2. TypeOK'
  BY CatalogAssumption DEF Inv, TypeOK, Publish, Change
<1> QED
  BY <1>1, <1>2, Preserved

(* A step of one run that leaves the rows and writes x for it.             *)
LEMMA RunStep ==
    ASSUME Inv, NEW r \in Refresher, NEW x \in RunType, run' = [run EXCEPT ![r] = x],
           UNCHANGED <<upstream, rows, scan>>, overtaken' \in {overtaken, overtaken \ {r}},
           provider' \in {"active", "degraded", "absent"}, changes' \in 0..MaxChanges,
           EventsFit(r)
    PROVE  Inv'
<1>1. TypeOK /\ run \in [Refresher -> RunType]
  BY DEF Inv, TypeOK, RunType, ListType, TodoType
<1>2. run' \in [Refresher -> RunType]
  BY <1>1
<1>3. TypeOK'
  BY <1>1, <1>2 DEF TypeOK, RunType, ListType, TodoType
<1>4. \A q \in Refresher : q # r => run'[q] = run[q] /\ (q \in overtaken => q \in overtaken')
  BY <1>1
<1>5. RowsStay
  BY DEF RowsStay, Stored
<1>6. \A s \in Scanner : s \in overtaken => s \in overtaken'
  BY CatalogAssumption
<1> QED
  BY <1>3, <1>4, <1>5, <1>6, Preserved

(* Where a step leaves it, a run has no events.                            *)
LEMMA NoEvents ==
    ASSUME NEW r \in Refresher, \A m \in Model : run'[r].todo[m] = {} PROVE EventsFit(r)
BY DEF EventsFit, TodoFits

LEMMA ListStep == ASSUME Inv, NEW r \in Refresher, List(r) PROVE Inv'
<1> DEFINE x == [at |-> "listed", list |-> upstream, todo |-> NothingToDo]
<1>1. TypeOK /\ run \in [Refresher -> RunType]
  BY DEF Inv, TypeOK, RunType, ListType, TodoType
<1>2. x \in RunType /\ \A m \in Model : x.todo[m] = {}
  BY <1>1 DEF TypeOK, RunType, ListType, TodoType, NothingToDo
<1>3. run' = [run EXCEPT ![r] = x]
  BY DEF List
<1>4. run'[r] = x
  BY <1>1, <1>3
<1>5. EventsFit(r)
  BY <1>2, <1>4, NoEvents
<1>6. /\ UNCHANGED <<upstream, rows, scan, overtaken>>
      /\ provider' \in {"active", "degraded", "absent"} /\ changes' \in 0..MaxChanges
  BY <1>1 DEF List, TypeOK
<1> QED
  BY <1>2, <1>3, <1>5, <1>6, RunStep

LEMMA LookUpStep == ASSUME Inv, NEW r \in Refresher, LookUp(r) PROVE Inv'
<1> DEFINE y == [at |-> "anchored", list |-> run[r].list, todo |-> NothingToDo]
           x == IF provider = "absent" THEN Resting ELSE y
<1>1. TypeOK /\ run \in [Refresher -> RunType]
  BY DEF Inv, TypeOK, RunType, ListType, TodoType
<1>2. y \in RunType /\ \A m \in Model : y.todo[m] = {}
  BY <1>1 DEF RunType, ListType, TodoType, NothingToDo
<1>3. x \in RunType /\ \A m \in Model : x.todo[m] = {}
  BY <1>2, RestingType
<1>4. run' = [run EXCEPT ![r] = x]
  BY DEF LookUp
<1>5. run'[r] = x
  BY <1>1, <1>4
<1>6. EventsFit(r)
  BY <1>3, <1>5, NoEvents
<1>7. /\ UNCHANGED <<upstream, rows, scan>>
      /\ overtaken' = overtaken \ {r}
      /\ provider' \in {"active", "degraded", "absent"} /\ changes' \in 0..MaxChanges
  BY <1>1 DEF LookUp, TypeOK
<1> QED
  BY <1>3, <1>4, <1>6, <1>7, RunStep

LEMMA ReadRowsStep == ASSUME Inv, NEW r \in Refresher, ReadRows(r) PROVE Inv'
<1> DEFINE due(m) == {k \in Kind : Due(k, Existing(r, m), run[r].list[m])}
           x == [at |-> "applying", list |-> run[r].list, todo |-> [m \in Model |-> due(m)]]
<1>1. TypeOK /\ run \in [Refresher -> RunType]
  BY DEF Inv, TypeOK, RunType, ListType, TodoType
<1>2. x \in RunType
  BY <1>1 DEF RunType, ListType, TodoType
<1>3. run' = [run EXCEPT ![r] = x]
  BY DEF ReadRows
<1>4. run'[r] = x
  BY <1>1, <1>3
<1>5. rows' = rows /\ overtaken' = overtaken
  BY DEF ReadRows
<1>6. ASSUME NEW m \in Model
      PROVE  /\ \/ r \in overtaken'
                \/ due(m) \subseteq {"added"}
                \/ Stored(m)' /\ "added" \notin due(m)
             /\ \A k \in due(m) : k = "removed" <=> run[r].list[m] = Unlisted
  BY <1>5 DEF Due, Gone, Kind, Stored, Existing
<1>7. EventsFit(r)
  BY <1>4, <1>6 DEF EventsFit, TodoFits
<1>8. /\ UNCHANGED <<upstream, rows, scan, overtaken>>
      /\ provider' \in {"active", "degraded", "absent"} /\ changes' \in 0..MaxChanges
  BY <1>1 DEF ReadRows, TypeOK
<1> QED
  BY <1>2, <1>3, <1>7, <1>8, RunStep

LEMMA EndStep ==
    ASSUME Inv, NEW r \in Refresher, FinishRun(r) \/ AbortRun(r) PROVE Inv'
<1>1. TypeOK /\ run \in [Refresher -> RunType]
  BY DEF Inv, TypeOK, RunType, ListType, TodoType
<1>2. run' = [run EXCEPT ![r] = Resting]
  BY DEF FinishRun, AbortRun
<1>3. run'[r] = Resting
  BY <1>1, <1>2
<1>4. EventsFit(r)
  BY <1>3, RestingType, NoEvents
<1>5. UNCHANGED <<upstream, rows, scan, overtaken>>
  BY DEF FinishRun, AbortRun
<1>6. provider' \in {"active", "degraded", "absent"}
  BY <1>1 DEF FinishRun, AbortRun, TypeOK
<1>7. changes' \in 0..MaxChanges
  BY <1>1, CatalogAssumption DEF FinishRun, AbortRun, Change, TypeOK
<1> QED
  BY <1>2, <1>4, <1>5, <1>6, <1>7, RestingType, RunStep

LEMMA ApplyStep ==
    ASSUME Inv, NEW r \in Refresher, NEW m \in Model, Apply(r, m) PROVE Inv'
<1>1. TypeOK /\ run \in [Refresher -> RunType] /\ rows \in [Model -> Row \cup {NoRow}]
  BY DEF Inv, TypeOK, RunType, ListType, TodoType
<1>2. PICK k \in Kind :
         /\ k \in run[r].todo[m]
         /\ rows' = [rows EXCEPT ![m] = Applied(rows[m], k, run[r].list[m])]
         /\ run' = [run EXCEPT ![r].todo[m] = run[r].todo[m] \ {k}]
  BY DEF Apply, NextEvent
<1>3. Applied(rows[m], k, run[r].list[m]) \in Row
  <2>1. run[r].list[m] \in Listing \cup {Unlisted}
    BY <1>1 DEF RunType, ListType
  <2>2. k = "added" \/ rows[m] # NoRow
    BY <1>2 DEF Apply, Inv, UpdatesHaveRows, Stored
  <2>3. k \in {"added", "facts_changed"} => run[r].list[m] # Unlisted
    BY <1>2 DEF Inv, TodoFitsList, TodoFits
  <2> QED
    BY <1>1, <2>1, <2>2, <2>3, AppliedType
<1>4. RowsStay /\ Stored(m)'
  BY <1>1, <1>2, <1>3, NoRowIsNoRow DEF RowsStay, Stored
<1>5. /\ run'[r].list = run[r].list /\ run'[r].at = run[r].at
      /\ run'[r].todo = [run[r].todo EXCEPT ![m] = run[r].todo[m] \ {k}]
      /\ run' \in [Refresher -> RunType]
      /\ \A q \in Refresher : q # r => run'[q] = run[q]
  <2>1. run[r] \in RunType
    BY <1>1
  <2>2. [run[r] EXCEPT !.todo[m] = run[r].todo[m] \ {k}] \in RunType
    BY <2>1 DEF RunType, TodoType
  <2>3. run' = [run EXCEPT ![r] = [run[r] EXCEPT !.todo[m] = run[r].todo[m] \ {k}]]
    BY <1>2
  <2> QED
    BY <1>1, <2>1, <2>2, <2>3 DEF RunType, TodoType
<1>6. scan' = scan /\ overtaken' = overtaken
  BY DEF Apply
<1>7. EventsFit(r)
  <2>1. \A n \in Model : run'[r].todo[n] = IF n = m THEN run[r].todo[m] \ {k} ELSE run[r].todo[n]
    BY <1>1, <1>5 DEF RunType, TodoType
  <2> QED
    BY <1>4, <1>5, <1>6, <2>1 DEF EventsFit, RowsStay, Inv, UpdatesHaveRows, TodoFitsList, TodoFits
<1>8. TypeOK'
  <2>1. rows' \in [Model -> Row \cup {NoRow}]
    BY <1>1, <1>2, <1>3
  <2> QED
    BY <1>1, <1>5, <2>1 DEF Apply, TypeOK, RunType, ListType, TodoType
<1> QED
  BY <1>4, <1>5, <1>6, <1>7, <1>8, Preserved

(* A step that leaves the runs and turns some rows into other rows.        *)
LEMMA RowStep ==
    ASSUME Inv, rows' \in [Model -> Row \cup {NoRow}],
           \A m \in Model : rows[m] # NoRow => rows'[m] \in Row,
           UNCHANGED <<upstream, run>>, provider' \in {"active", "degraded", "absent"},
           overtaken' \subseteq overtaken, \A r \in Refresher : r \in overtaken => r \in overtaken',
           scan' \in [Scanner -> SUBSET Model], changes' \in 0..MaxChanges,
           \A s \in Scanner \ overtaken' : \A m \in scan'[s] :
              (m \in scan[s] /\ s \notin overtaken) \/ Stored(m)'
    PROVE  Inv'
<1>1. RowsStay
  BY NoRowIsNoRow DEF RowsStay, Stored
<1>2. TypeOK'
  BY DEF Inv, TypeOK
<1> QED
  BY <1>1, <1>2, Preserved

LEMMA ScanStep == ASSUME Inv, NEW s \in Scanner, AutoBlacklist(s) PROVE Inv'
<1>1. TypeOK
  BY DEF Inv
<1>2. CASE Scan(s) \/ AbortScan(s)
  <2>1. rows' = rows /\ UNCHANGED <<upstream, provider, run>>
    BY <1>2 DEF Scan, AbortScan
  <2>2. changes' \in 0..MaxChanges
    BY <1>1, <1>2, CatalogAssumption DEF Scan, AbortScan, Change, TypeOK
  <2>3. scan' \in [Scanner -> SUBSET Model]
    BY <1>1, <1>2 DEF Scan, AbortScan, TypeOK
  <2>4. /\ overtaken' \in {overtaken, overtaken \ {s}}
        /\ \A r \in Refresher : r \in overtaken => r \in overtaken'
    BY <1>2, CatalogAssumption DEF Scan, AbortScan
  <2>5. \A q \in Scanner \ overtaken' : \A m \in scan'[q] :
           (m \in scan[q] /\ q \notin overtaken) \/ Stored(m)'
    BY <1>1, <1>2, <2>4 DEF Scan, AbortScan, TypeOK, Judged, Stored
  <2>6. /\ rows' \in [Model -> Row \cup {NoRow}]
        /\ \A m \in Model : rows[m] # NoRow => rows'[m] \in Row
        /\ provider' \in {"active", "degraded", "absent"}
    BY <1>1, <2>1 DEF TypeOK
  <2> QED
    BY <2>1, <2>2, <2>3, <2>4, <2>5, <2>6, RowStep
<1>3. ASSUME NEW m \in Model, Spare(s, m) \/ Condemn(s, m) PROVE Inv'
  <2>1. s \notin overtaken => rows[m] \in Row
    BY <1>1, <1>3 DEF Spare, Condemn, Inv, ScansHaveRows, Stored, TypeOK
  <2>2. s \notin overtaken => [rows[m] EXCEPT !.override = "force_disabled"] \in Row
    BY <2>1 DEF Row, Override
  <2>3. \/ rows' = rows
        \/ /\ s \notin overtaken
           /\ rows' = [rows EXCEPT ![m] = [rows[m] EXCEPT !.override = "force_disabled"]]
    BY <1>3 DEF Spare, Condemn
  <2>4. /\ rows' \in [Model -> Row \cup {NoRow}]
        /\ \A n \in Model : rows[n] # NoRow => rows'[n] \in Row
    BY <1>1, <2>2, <2>3 DEF TypeOK
  <2>5. /\ scan' \in [Scanner -> SUBSET Model]
        /\ \A q \in Scanner : \A n \in scan'[q] : n \in scan[q]
    <3>1. /\ scan \in [Scanner -> SUBSET Model]
          /\ scan' = [scan EXCEPT ![s] = {}] \/ scan' = [scan EXCEPT ![s] = scan[s] \ {m}]
      BY <1>1, <1>3 DEF Spare, Condemn, TypeOK
    <3> QED
      BY <3>1
  <2>6. /\ UNCHANGED <<upstream, run, overtaken>> /\ changes' \in 0..MaxChanges
        /\ provider' \in {"active", "degraded", "absent"}
    BY <1>1, <1>3 DEF Spare, Condemn, TypeOK
  <2> QED
    BY <2>4, <2>5, <2>6, RowStep
<1> QED
  BY <1>2, <1>3 DEF AutoBlacklist

(* A deletion takes all rows: the runs that have events, and the scans     *)
(* that are to judge a model, are overtaken.                               *)
LEMMA DeleteStep == ASSUME Inv, DeleteProvider PROVE Inv'
<1>1. TypeOK
  BY DEF Inv
<1>2. /\ run' = run /\ scan' = scan
      /\ \A r \in Refresher : run[r].at = "applying" => r \in overtaken'
      /\ \A s \in Scanner : scan[s] # {} => s \in overtaken'
  BY DEF DeleteProvider
<1>3. TypeOK'
  <2>1. overtaken' \subseteq Refresher \cup Scanner
    BY <1>1 DEF DeleteProvider, TypeOK
  <2>2. rows' \in [Model -> Row \cup {NoRow}] /\ provider' = "absent" /\ upstream' = upstream
    BY DEF DeleteProvider
  <2>3. changes' \in 0..MaxChanges
    BY <1>1, CatalogAssumption DEF DeleteProvider, Change, TypeOK
  <2> QED
    BY <1>1, <1>2, <2>1, <2>2, <2>3 DEF TypeOK
<1>4. TodoFitsList'
  BY <1>2 DEF Inv, TodoFitsList, TodoFits
<1>5. UpdatesHaveRows'
  <2> SUFFICES ASSUME NEW r \in Refresher, r \notin overtaken', NEW m \in Model
               PROVE  run[r].todo[m] = {}
    BY <1>2 DEF UpdatesHaveRows
  <2> QED
    BY <1>2 DEF Inv, TodoFitsList, TodoFits
<1>6. ScansHaveRows'
  BY <1>2 DEF ScansHaveRows
<1> QED
  BY <1>3, <1>4, <1>5, <1>6 DEF Inv

LEMMA CreateStep == ASSUME Inv, CreateProvider PROVE Inv'
<1>1. TypeOK
  BY DEF Inv
<1>2. UNCHANGED <<upstream, rows, overtaken, run, scan>> /\ provider' = "active"
  BY DEF CreateProvider
<1>3. changes' \in 0..MaxChanges
  BY <1>1, CatalogAssumption DEF CreateProvider, Change, TypeOK
<1>4. TypeOK' /\ RowsStay
  BY <1>1, <1>2, <1>3 DEF TypeOK, RowsStay, Stored
<1> QED
  BY <1>2, <1>4, Preserved

LEMMA AdminStep == ASSUME Inv, Admin PROVE Inv'
<1>1. TypeOK
  BY DEF Inv
<1>2. ASSUME NEW m \in Model, Patch(m) PROVE Inv'
  <2>1. rows[m] \in Row
    BY <1>1, <1>2 DEF Patch, Stored, TypeOK
  <2>2. PICK base \in {rows[m]} \cup {WithOverride(rows[m], o) : o \in Override},
             b \in BOOLEAN, w \in BOOLEAN : rows' = [rows EXCEPT ![m] = Flagged(base, b, w)]
    BY <1>2 DEF Patch
  <2>3. Flagged(base, b, w) \in Row
    BY <2>1, WithOverrideType, FlaggedType
  <2>4. /\ rows' \in [Model -> Row \cup {NoRow}]
        /\ \A n \in Model : rows[n] # NoRow => rows'[n] \in Row
    BY <1>1, <2>2, <2>3 DEF TypeOK
  <2>5. /\ UNCHANGED <<upstream, overtaken, run, scan>> /\ changes' \in 0..MaxChanges
        /\ provider' \in {"active", "degraded", "absent"}
    BY <1>1, <1>2, CatalogAssumption DEF Patch, Change, TypeOK
  <2> QED
    BY <1>1, <2>4, <2>5, RowStep DEF TypeOK
<1>3. ASSUME NEW ids \in SUBSET Model, NEW action \in BulkActions, BulkEdit(ids, action)
      PROVE  Inv'
  <2>1. \A m \in Model : rows[m] # NoRow => rows[m] \in Row /\ Bulk(rows[m], action) \in Row
    BY <1>1, BulkType DEF TypeOK
  <2>2. rows' = [m \in Model |-> IF m \in ids /\ Stored(m) THEN Bulk(rows[m], action)
                                                          ELSE rows[m]]
    BY <1>3 DEF BulkEdit
  <2>3. /\ rows' \in [Model -> Row \cup {NoRow}]
        /\ \A n \in Model : rows[n] # NoRow => rows'[n] \in Row
    BY <1>1, <2>1, <2>2 DEF TypeOK, Stored
  <2>4. /\ UNCHANGED <<upstream, overtaken, run, scan>> /\ changes' \in 0..MaxChanges
        /\ provider' \in {"active", "degraded", "absent"}
    BY <1>1, <1>3, CatalogAssumption DEF BulkEdit, Change, TypeOK
  <2> QED
    BY <1>1, <2>3, <2>4, RowStep DEF TypeOK
<1> QED
  BY <1>2, <1>3, DeleteStep, CreateStep DEF Admin

LEMMA Step == Inv /\ [Next]_vars => Inv'
<1> SUFFICES ASSUME Inv, [Next]_vars PROVE Inv'
  OBVIOUS
<1>1. CASE UNCHANGED vars
  <2>1. RowsStay /\ run' = run /\ scan' = scan /\ overtaken' = overtaken
    BY <1>1 DEF vars, RowsStay, Stored
  <2>2. TypeOK'
    BY <1>1 DEF vars, Inv, TypeOK
  <2> QED
    BY <2>1, <2>2, Preserved
<1>2. ASSUME NEW r \in Refresher, Discovery(r) PROVE Inv'
  BY <1>2, ListStep, LookUpStep, ReadRowsStep, EndStep, ApplyStep DEF Discovery
<1> QED
  BY <1>1, <1>2, PublishStep, ScanStep, AdminStep DEF Next

-----------------------------------------------------------------------------

(* The inductive invariant.                                                *)
THEOREM Invariance == Spec => []Inv
<1> QED
  BY Initial, Step, PTL DEF Spec

(* Rows, runs and scans keep their types: in particular a row that exists  *)
(* is a whole row, whichever of its writers wrote last.                    *)
THEOREM TypeCorrect == Spec => []TypeOK
<1>1. Inv => TypeOK
  BY DEF Inv
<1> QED
  BY <1>1, Invariance, PTL

(* No update of a discovery run misses its row, unless the provider was    *)
(* deleted since the run looked it up.                                     *)
THEOREM UpdatesAlwaysHaveRows == Spec => []UpdatesHaveRows
<1>1. Inv => UpdatesHaveRows
  BY DEF Inv
<1> QED
  BY <1>1, Invariance, PTL

-----------------------------------------------------------------------------
(* The pool cache.  Its two invariants are inductive together with the     *)
(* types: OneSharedLoad says which promise a waiter holds, so that         *)
(* settling it leaves nobody waiting for a load that is gone.              *)

PoolInv == CacheTypeOK /\ RefreshingIsReal /\ OneSharedLoad

LEMMA PoolInitial == CacheInit => PoolInv
<1> SUFFICES ASSUME CacheInit PROVE PoolInv
  OBVIOUS
<1> USE CacheAssumption DEF CacheInit, Idle
<1>1. CacheTypeOK
  <2>1. 0 \in Version /\ 0 \in 0..MaxFaults
    BY DEF Version
  <2>2. load \in [Load -> [for : {"none", "caller", "refresh"}, read : Version \cup {NoValue}]]
    OBVIOUS
  <2>3. reader \in [Reader -> [waits : Load \cup {NoLoad},
                              got : Version \cup {NoValue}]]
    BY <2>1
  <2> QED
    BY <2>1, <2>2, <2>3 DEF CacheTypeOK
<1>2. RefreshingIsReal
  BY DEF RefreshingIsReal
<1>3. OneSharedLoad
  BY DEF OneSharedLoad
<1> QED
  BY <1>1, <1>2, <1>3 DEF PoolInv

(* The types are kept by every action on its own.                          *)
LEMMA PoolTypes == ASSUME CacheTypeOK, CacheNext PROVE CacheTypeOK'
<1> USE CacheAssumption DEF CacheTypeOK, Version, cacheVars
<1>1. CASE Write
  <2>1. source' \in 0..MaxVersion
    BY <1>1 DEF Write
  <2>2. owed' \in Nat
    BY <1>1 DEF Write
  <2>3. /\ value' = value /\ unexpired' = unexpired /\ inFlight' = inFlight
        /\ refreshing' = refreshing /\ load' = load /\ reader' = reader /\ faults' = faults
    BY <1>1 DEF Write
  <2> QED
    BY <2>1, <2>2, <2>3
<1>2. CASE Invalidate
  <2>1. owed' \in Nat
    BY <1>2 DEF Invalidate
  <2>2. /\ source' = source /\ value' = NoValue /\ unexpired' = FALSE
        /\ inFlight' = inFlight /\ refreshing' = FALSE /\ load' = load
        /\ reader' = reader /\ faults' = faults
    BY <1>2 DEF Invalidate
  <2> QED
    BY <2>1, <2>2
<1>3. CASE Expire
  BY <1>3 DEF Expire
<1>4. ASSUME NEW r \in Reader, Get(r) PROVE CacheTypeOK'
  <2> USE DEF Return, Await, Start, Idle, Free
  <2>1. CASE Hit(r)
    BY <2>1 DEF Hit
  <2>2. CASE StaleHit(r)
    <3>1. reader' \in [Reader -> [waits : Load \cup {NoLoad},
                                 got : (0..MaxVersion) \cup {NoValue}]]
      BY <2>2 DEF StaleHit
    <3>2. load' \in [Load -> [for : {"none", "caller", "refresh"},
                             read : (0..MaxVersion) \cup {NoValue}]]
      <4>1. PICK b \in Load :
              load' = [load EXCEPT ![b] = [for |-> "refresh", read |-> NoValue]]
        BY <2>2 DEF StaleHit
      <4> QED
        BY <4>1
    <3> QED
      BY <2>2, <3>1, <3>2 DEF StaleHit
  <2>3. CASE Join(r)
    BY <2>3 DEF Join
  <2>4. CASE Miss(r)
    BY <2>4 DEF Miss
  <2> QED
    BY <1>4, <2>1, <2>2, <2>3, <2>4 DEF Get
<1>5. ASSUME NEW b \in Load, LoadStep(b) PROVE CacheTypeOK'
  <2>1. CASE Query(b)
    BY <2>1 DEF Query
  <2>2. CASE Resolve(b)
    BY <2>2 DEF Resolve, Settle, Idle
  <2>3. CASE Reject(b)
    <3>1. faults' \in 0..MaxFaults
      BY <2>3 DEF Reject
    <3>2. reader' \in [Reader -> [waits : Load \cup {NoLoad},
                                 got : (0..MaxVersion) \cup {NoValue}]]
      BY <2>3 DEF Reject, Settle
    <3> QED
      BY <2>3, <3>1, <3>2 DEF Reject, Settle, Idle
  <2> QED
    BY <1>5, <2>1, <2>2, <2>3 DEF LoadStep
<1> QED
  BY <1>1, <1>2, <1>3, <1>4, <1>5 DEF CacheNext

(* Settling a load: the mark and the promise go with it.                   *)
LEMMA Settling ==
    ASSUME PoolInv, NEW b \in Load, Running(b), NEW v, Settle(b, v)
    PROVE  RefreshingIsReal' /\ OneSharedLoad'
<1> USE CacheAssumption DEF PoolInv, Settle, Idle, Running
<1>1. /\ load' = [load EXCEPT ![b] = [for |-> "none", read |-> NoValue]]
      /\ \A c \in Load : load[c].for \in {"none", "caller", "refresh"}
      /\ DOMAIN load = Load
  BY DEF CacheTypeOK
<1>2. \A c \in Load : c # b => load'[c] = load[c]
  BY <1>1
<1>3. load'[b].for = "none"
  <2>1. load'[b] = [for |-> "none", read |-> NoValue]
    BY <1>1
  <2>2. [for |-> "none", read |-> NoValue].for = "none"
    OBVIOUS
  <2> QED
    BY ONLY <2>1, <2>2
<1>4. RefreshingIsReal'
  <2>1. CASE load[b].for = "refresh"
    BY <2>1 DEF RefreshingIsReal
  <2>2. CASE load[b].for # "refresh"
    BY <2>2, <1>2 DEF RefreshingIsReal
  <2> QED
    BY <2>1, <2>2
<1>5. OneSharedLoad'
  <2>1. {c \in Load : load'[c].for = "caller"} = {c \in Load : load[c].for = "caller"} \ {b}
    BY <1>2, <1>3
  <2>2. \A r \in Reader : reader'[r].waits =
                            IF reader[r].waits = b THEN NoLoad ELSE reader[r].waits
    BY DEF CacheTypeOK
  <2>3. CASE load[b].for = "caller"
    <3>1. inFlight = b
      BY <2>3 DEF OneSharedLoad
    <3> QED
      BY <2>1, <2>2, <2>3, <3>1 DEF OneSharedLoad
  <2>4. CASE load[b].for # "caller"
    <3>1. inFlight # b
      BY <2>4 DEF OneSharedLoad
    <3> QED
      BY <2>1, <2>2, <2>4, <3>1 DEF OneSharedLoad
  <2> QED
    BY <2>3, <2>4
<1> QED
  BY <1>4, <1>5

(* Starting a load for b, and a reader that waits for w afterwards.        *)
LEMMA Getting ==
    ASSUME PoolInv, NEW r \in Reader, Get(r)
    PROVE  RefreshingIsReal' /\ OneSharedLoad'
<1> USE CacheAssumption DEF PoolInv, Return, Await, Start, Idle, Running, Free, cacheVars
<1>1. CASE Hit(r)
  <2>1. \A q \in Reader : reader'[q].waits = reader[q].waits
    BY <1>1 DEF Hit, CacheTypeOK
  <2> QED
    BY <1>1, <2>1 DEF Hit, RefreshingIsReal, OneSharedLoad
<1>2. CASE StaleHit(r)
  <2>1. \A q \in Reader : reader'[q].waits = reader[q].waits
    BY <1>2 DEF StaleHit, CacheTypeOK
  <2>2. PICK b \in Load : load[b].for = "none" /\ load' = [load EXCEPT ![b] = [for |-> "refresh", read |-> NoValue]]
    BY <1>2 DEF StaleHit
  <2>3. load'[b].for = "refresh" /\ \A c \in Load : c # b => load'[c] = load[c]
    BY <2>2 DEF CacheTypeOK
  <2>4. {c \in Load : load'[c].for = "caller"} = {c \in Load : load[c].for = "caller"}
    BY <2>2, <2>3
  <2> QED
    BY <1>2, <2>1, <2>3, <2>4 DEF StaleHit, RefreshingIsReal, OneSharedLoad
<1>3. CASE Join(r)
  <2>1. \A q \in Reader : reader'[q].waits \in {reader[q].waits, inFlight}
    BY <1>3 DEF Join, CacheTypeOK
  <2> QED
    BY <1>3, <2>1 DEF Join, RefreshingIsReal, OneSharedLoad
<1>4. CASE Miss(r)
  <2>1. PICK b \in Load : /\ load[b].for = "none" /\ inFlight' = b
                          /\ load' = [load EXCEPT ![b] = [for |-> "caller", read |-> NoValue]]
                          /\ reader' = [reader EXCEPT ![r] = [waits |-> b, got |-> NoValue]]
    BY <1>4 DEF Miss
  <2>2. load'[b].for = "caller" /\ \A c \in Load : c # b => load'[c] = load[c]
    BY <2>1 DEF CacheTypeOK
  <2>3. {c \in Load : load'[c].for = "caller"} = {c \in Load : load[c].for = "caller"} \cup {b}
    BY <2>2
  <2>4. inFlight = NoLoad
    BY <1>4 DEF Miss
  <2>5. {c \in Load : load[c].for = "caller"} = {}
    BY <2>4 DEF OneSharedLoad
  <2>6. \A q \in Reader : reader'[q].waits \in {reader[q].waits, b}
    BY <2>1 DEF CacheTypeOK
  <2>7. OneSharedLoad'
    BY <2>1, <2>3, <2>4, <2>5, <2>6 DEF OneSharedLoad
  <2>8. refreshing' = refreshing
    BY <1>4 DEF Miss
  <2>9. \A c \in Load : load[c].for = "refresh" => load'[c].for = "refresh"
    BY <2>1, <2>2
  <2> QED
    BY <2>7, <2>8, <2>9 DEF RefreshingIsReal
<1> QED
  BY <1>1, <1>2, <1>3, <1>4 DEF Get

LEMMA PoolStep == PoolInv /\ [CacheNext]_poolVars => PoolInv'
<1> SUFFICES ASSUME PoolInv, [CacheNext]_poolVars PROVE PoolInv'
  OBVIOUS
<1>1. CASE UNCHANGED poolVars
  BY <1>1 DEF poolVars, cacheVars, PoolInv, CacheTypeOK, RefreshingIsReal, OneSharedLoad
<1>2. ASSUME CacheNext PROVE RefreshingIsReal' /\ OneSharedLoad'
  <2>1. CASE Write \/ Invalidate \/ Expire
    <3>1. /\ load' = load /\ reader' = reader /\ inFlight' = inFlight
          /\ refreshing' \in {refreshing, FALSE}
      BY <2>1 DEF Write, Invalidate, Expire, cacheVars
    <3>2. RefreshingIsReal'
      BY <3>1 DEF PoolInv, RefreshingIsReal
    <3>3. OneSharedLoad'
      BY <3>1 DEF PoolInv, OneSharedLoad
    <3> QED
      BY <3>2, <3>3
  <2>2. CASE \E r \in Reader : Get(r)
    BY <1>2, <2>2, Getting
  <2>3. ASSUME NEW b \in Load, LoadStep(b) PROVE RefreshingIsReal' /\ OneSharedLoad'
    <3>1. CASE Query(b)
      <4>1. \A c \in Load : load'[c].for = load[c].for
        BY <3>1 DEF Query, PoolInv, CacheTypeOK
      <4> QED
        BY <3>1, <4>1 DEF Query, PoolInv, cacheVars, RefreshingIsReal, OneSharedLoad
    <3>2. CASE Resolve(b)
      BY <3>2, Settling DEF Resolve
    <3>3. CASE Reject(b)
      BY <3>3, Settling DEF Reject
    <3> QED
      BY <2>3, <3>1, <3>2, <3>3 DEF LoadStep
  <2> QED
    BY <1>2, <2>1, <2>2, <2>3 DEF CacheNext
<1>3. CASE CacheNext
  BY <1>2, <1>3, PoolTypes DEF PoolInv
<1> QED
  BY <1>1, <1>3

-----------------------------------------------------------------------------

(* The inductive invariant.                                                *)
THEOREM PoolInvariance == CacheSpec => []PoolInv
<1> QED
  BY PoolInitial, PoolStep, PTL DEF CacheSpec

(* The types of the cache, its loads and its readers.                      *)
THEOREM PoolTypeCorrect == CacheSpec => []CacheTypeOK
<1>1. PoolInv => CacheTypeOK
  BY DEF PoolInv
<1> QED
  BY <1>1, PoolInvariance, PTL

(* A refresh marked as running is running, so no stale value is kept for   *)
(* want of someone to reset the mark; and at most one load is shared by    *)
(* the callers that found no value, which is the one they wait for.        *)
THEOREM CacheAlwaysInOrder == CacheSpec => []CacheInOrder
<1>1. PoolInv => CacheInOrder
  BY DEF PoolInv, CacheInOrder
<1> QED
  BY <1>1, PoolInvariance, PTL

-----------------------------------------------------------------------------
(* The order of candidates.  Array.sort and Array.filter both put a set of *)
(* places in a row; what the rest needs of it is that the row has each of  *)
(* them once, and that places with a lower rank come first.                *)

LEMMA PlacesOrdered ==
    ASSUME NEW D \in SUBSET Nat, IsFiniteSet(D), NEW rank, \A d \in D : rank[d] \in Int
    PROVE  /\ \A d \in D : Place(D, rank, d) \in 1..Cardinality(D)
           /\ \A d, e \in D : Before(rank, d, e) => Place(D, rank, d) < Place(D, rank, e)
<1> DEFINE First(d) == {j \in D : Before(rank, j, d)}
<1>1. ASSUME NEW d \in D
      PROVE  /\ IsFiniteSet(First(d)) /\ Cardinality(First(d)) \in Nat
             /\ Cardinality(First(d)) < Cardinality(D)
  <2>1. First(d) \in SUBSET D /\ d \notin First(d)
    BY DEF Before
  <2>2. IsFiniteSet(First(d)) /\ Cardinality(First(d)) <= Cardinality(D)
        /\ Cardinality(First(d)) # Cardinality(D)
    BY <2>1, FS_Subset
  <2> QED
    BY <2>2, FS_CardinalityType
<1>2. Cardinality(D) \in Nat
  BY FS_CardinalityType
<1>3. \A d \in D : Place(D, rank, d) = Cardinality(First(d)) + 1
  BY DEF Place
<1>4. ASSUME NEW d \in D, NEW e \in D, Before(rank, d, e)
      PROVE  Cardinality(First(d)) < Cardinality(First(e))
  <2>1. First(d) \subseteq First(e) /\ d \in First(e) /\ d \notin First(d)
    <3>1. d \in First(e) /\ d \notin First(d)
      BY <1>4 DEF Before
    <3>2. ASSUME NEW j \in D, Before(rank, j, d) PROVE Before(rank, j, e)
      <4>1. rank[j] \in Int /\ rank[d] \in Int /\ rank[e] \in Int /\ j \in Nat /\ d \in Nat /\ e \in Nat
        OBVIOUS
      <4> QED
        BY <1>4, <3>2, <4>1 DEF Before
    <3> QED
      BY <3>1, <3>2
  <2>2. Cardinality(First(d)) <= Cardinality(First(e))
        /\ Cardinality(First(d)) # Cardinality(First(e))
    BY <1>1, <2>1, FS_Subset
  <2> QED
    BY <1>1, <2>2
<1>5. \A d \in D : Cardinality(First(d)) + 1 \in 1..Cardinality(D)
  BY <1>1, <1>2
<1> HIDE DEF First
<1>6. \A d \in D : Place(D, rank, d) \in 1..Cardinality(D)
  BY <1>3, <1>5
<1>7. ASSUME NEW d \in D, NEW e \in D, Before(rank, d, e)
      PROVE  Place(D, rank, d) < Place(D, rank, e)
  BY <1>1, <1>3, <1>4, <1>7
<1> QED
  BY <1>6, <1>7

LEMMA PlacesFilled ==
    ASSUME NEW D \in SUBSET Nat, IsFiniteSet(D), NEW rank, \A d \in D : rank[d] \in Int
    PROVE  /\ \A n \in 1..Cardinality(D) :
                 Nth(D, rank, n) \in D /\ Place(D, rank, Nth(D, rank, n)) = n
           /\ \A d \in D : Nth(D, rank, Place(D, rank, d)) = d
           /\ \A n, k \in 1..Cardinality(D) :
                 n < k => Before(rank, Nth(D, rank, n), Nth(D, rank, k))
<1> DEFINE P(d) == Place(D, rank, d)
           N == 1..Cardinality(D)
           f == [d \in D |-> P(d)]
<1>1. /\ \A d \in D : P(d) \in N
      /\ \A d, e \in D : Before(rank, d, e) => P(d) < P(e)
  BY PlacesOrdered
<1>2. \A d, e \in D : d # e => Before(rank, d, e) \/ Before(rank, e, d)
  BY DEF Before
<1>3. Cardinality(D) \in Nat
  BY FS_CardinalityType
<1>4. IsFiniteSet(N) /\ Cardinality(N) = Cardinality(D)
  BY <1>3, FS_Interval
<1> HIDE DEF P
<1>5. \A d, e \in D : P(d) = P(e) => d = e
  BY <1>1, <1>2, <1>3
<1>6. f \in Injection(D, N)
  BY <1>1, <1>5 DEF Injection, IsInjective
<1>7. f \in Surjection(D, N)
  <2> HIDE DEF f, N
  <2> QED
    BY <1>4, <1>6, FS_Injection
<1>8. \A n \in N : \E d \in D : P(d) = n
  BY <1>7 DEF Surjection
<1>9. \A n \in N : Nth(D, rank, n) \in D /\ P(Nth(D, rank, n)) = n
  BY <1>8 DEF Nth, P
<1>10. \A d \in D : Nth(D, rank, P(d)) = d
  BY <1>1, <1>5, <1>9
<1>11. ASSUME NEW n \in N, NEW k \in N, n < k
       PROVE  Before(rank, Nth(D, rank, n), Nth(D, rank, k))
  <2>1. Nth(D, rank, n) # Nth(D, rank, k)
    BY <1>3, <1>9, <1>11
  <2>2. ~Before(rank, Nth(D, rank, k), Nth(D, rank, n))
    <3>1. ~(P(Nth(D, rank, k)) < P(Nth(D, rank, n)))
      BY <1>3, <1>9, <1>11
    <3> QED
      BY <1>1, <1>9, <3>1
  <2> QED
    BY <1>2, <1>9, <2>1, <2>2
<1> QED
  BY <1>9, <1>10, <1>11 DEF P

Apart(s) == \A n, k \in DOMAIN s : n # k => s[n].id # s[k].id

(* The row t has what s has at the places D, each once, g tells where.     *)
IsRow(t, s, D, g) ==
    /\ g \in [1..Cardinality(D) -> D]
    /\ t = [n \in 1..Cardinality(D) |-> s[g[n]]]
    /\ \A d \in D : \E n \in 1..Cardinality(D) : g[n] = d
    /\ \A n, k \in 1..Cardinality(D) : n # k => g[n] # g[k]

LEMMA PlacesAreRow ==
    ASSUME NEW D \in SUBSET Nat, IsFiniteSet(D), NEW rank, \A d \in D : rank[d] \in Int, NEW s,
           NEW t, t = [n \in 1..Cardinality(D) |-> s[Nth(D, rank, n)]]
    PROVE  \E g : /\ IsRow(t, s, D, g)
                  /\ \A n, k \in 1..Cardinality(D) : n < k => Before(rank, g[n], g[k])
<1> DEFINE g == [n \in 1..Cardinality(D) |-> Nth(D, rank, n)]
<1>1. /\ \A n \in 1..Cardinality(D) :
            Nth(D, rank, n) \in D /\ Place(D, rank, Nth(D, rank, n)) = n
      /\ \A d \in D : Place(D, rank, d) \in 1..Cardinality(D)
                      /\ Nth(D, rank, Place(D, rank, d)) = d
      /\ \A n, k \in 1..Cardinality(D) : n < k => Before(rank, Nth(D, rank, n), Nth(D, rank, k))
  BY PlacesOrdered, PlacesFilled
<1>2. \A n, k \in 1..Cardinality(D) : n # k => g[n] # g[k]
  BY <1>1
<1>3. \A d \in D : \E n \in 1..Cardinality(D) : g[n] = d
  BY <1>1
<1>4. IsRow(t, s, D, g)
  BY <1>1, <1>2, <1>3 DEF IsRow
<1>5. \A n, k \in 1..Cardinality(D) : n < k => Before(rank, g[n], g[k])
  BY <1>1
<1> HIDE DEF g
<1> QED
  BY <1>4, <1>5

LEMMA PlacesOf ==
    ASSUME NEW n \in Nat PROVE IsFiniteSet(1..n) /\ Cardinality(1..n) = n
BY FS_Interval

LEMMA RowIs ==
    ASSUME NEW s \in Seq(PoolModel), Apart(s), NEW D \in SUBSET DOMAIN s, NEW t, NEW g,
           IsRow(t, s, D, g)
    PROVE  /\ IsFiniteSet(D) /\ Cardinality(D) \in Nat /\ Cardinality(D) <= Len(s)
           /\ t \in Seq(PoolModel) /\ Len(t) = Cardinality(D) /\ Apart(t)
           /\ \A n \in 1..Len(t) : g[n] \in D /\ t[n] = s[g[n]]
           /\ Range(t) = {s[d] : d \in D}
<1>1. IsFiniteSet(1..Len(s)) /\ Cardinality(1..Len(s)) = Len(s) /\ DOMAIN s = 1..Len(s)
  BY PlacesOf
<1>2. IsFiniteSet(D) /\ Cardinality(D) \in Nat /\ Cardinality(D) <= Len(s)
  BY <1>1, FS_Subset, FS_CardinalityType
<1> DEFINE N == Cardinality(D)
<1>3. /\ g \in [1..N -> D] /\ t = [n \in 1..N |-> s[g[n]]] /\ N \in Nat
      /\ \A d \in D : \E n \in 1..N : g[n] = d
      /\ \A n, k \in 1..N : n # k => g[n] # g[k]
  BY <1>2 DEF IsRow
<1> HIDE DEF N
<1>4. \A n \in 1..N : g[n] \in D /\ g[n] \in DOMAIN s /\ t[n] = s[g[n]] /\ s[g[n]] \in PoolModel
  BY <1>3
<1>5. t \in Seq(PoolModel) /\ Len(t) = N /\ DOMAIN t = 1..N
  BY <1>3, <1>4
<1>6. Apart(t)
  BY <1>3, <1>4, <1>5 DEF Apart
<1>7. Range(t) = {s[d] : d \in D}
  <2>1. \A n \in 1..N : t[n] \in {s[d] : d \in D}
    BY <1>4
  <2>2. \A d \in D : \E n \in 1..N : t[n] = s[d]
    BY <1>3, <1>4
  <2> QED
    BY <1>5, <2>1, <2>2 DEF Range
<1> QED
  BY <1>2, <1>4, <1>5, <1>6, <1>7 DEF N

(* Array.filter.                                                           *)
LEMMA ChosenIs ==
    ASSUME NEW s \in Seq(PoolModel), Apart(s), NEW D \in SUBSET DOMAIN s
    PROVE  /\ Chosen(s, D) \in Seq(PoolModel) /\ Apart(Chosen(s, D))
           /\ Len(Chosen(s, D)) = Cardinality(D) /\ Cardinality(D) <= Len(s)
           /\ Range(Chosen(s, D)) = {s[d] : d \in D}
           /\ \E g \in [1..Cardinality(D) -> D] :
                 /\ \A n \in 1..Cardinality(D) : Chosen(s, D)[n] = s[g[n]]
                 /\ \A n, k \in 1..Cardinality(D) : n < k => g[n] < g[k]
<1> DEFINE rank == [d \in D |-> 0]
           t == Chosen(s, D)
<1>1. D \in SUBSET Nat /\ IsFiniteSet(D)
  <2>1. DOMAIN s = 1..Len(s) /\ IsFiniteSet(1..Len(s))
    BY PlacesOf
  <2> QED
    BY <2>1, FS_Subset
<1>2. \A d \in D : rank[d] \in Int
  OBVIOUS
<1>3. t = [n \in 1..Cardinality(D) |-> s[Nth(D, rank, n)]]
  BY DEF Chosen
<1> HIDE DEF rank, t
<1>4. PICK g : /\ IsRow(t, s, D, g)
               /\ \A n, k \in 1..Cardinality(D) : n < k => Before(rank, g[n], g[k])
  BY <1>1, <1>2, <1>3, PlacesAreRow
<1>5. /\ t \in Seq(PoolModel) /\ Apart(t) /\ Len(t) = Cardinality(D)
      /\ Cardinality(D) <= Len(s) /\ Range(t) = {s[d] : d \in D}
      /\ \A n \in 1..Len(t) : g[n] \in D /\ t[n] = s[g[n]]
  BY <1>4, RowIs
<1>6. g \in [1..Cardinality(D) -> D]
  BY <1>4 DEF IsRow
<1>7. \A n, k \in 1..Cardinality(D) : n < k => g[n] < g[k]
  BY <1>4, <1>6 DEF Before, rank
<1> QED
  BY <1>5, <1>6, <1>7 DEF t

(* Array.sort.                                                             *)
LEMMA SortedIs ==
    ASSUME NEW s \in Seq(PoolModel), Apart(s), NEW rank, \A d \in DOMAIN s : rank[d] \in Int
    PROVE  /\ Sorted(s, rank) \in Seq(PoolModel) /\ Apart(Sorted(s, rank))
           /\ Len(Sorted(s, rank)) = Len(s) /\ Range(Sorted(s, rank)) = Range(s)
           /\ \E g \in [1..Len(s) -> 1..Len(s)] :
                 /\ \A n \in 1..Len(s) : Sorted(s, rank)[n] = s[g[n]]
                 /\ \A n, k \in 1..Len(s) : n < k => rank[g[n]] <= rank[g[k]]
<1> DEFINE D == DOMAIN s
           t == Sorted(s, rank)
<1>1. D \in SUBSET Nat /\ IsFiniteSet(D) /\ Cardinality(D) = Len(s) /\ D = 1..Len(s)
  BY PlacesOf
<1>2. t = [n \in 1..Cardinality(D) |-> s[Nth(D, rank, n)]]
  BY <1>1 DEF Sorted
<1> HIDE DEF t
<1>3. PICK g : /\ IsRow(t, s, D, g)
               /\ \A n, k \in 1..Cardinality(D) : n < k => Before(rank, g[n], g[k])
  BY <1>1, <1>2, PlacesAreRow
<1>4. /\ t \in Seq(PoolModel) /\ Apart(t) /\ Len(t) = Cardinality(D)
      /\ Range(t) = {s[d] : d \in D}
      /\ \A n \in 1..Len(t) : g[n] \in D /\ t[n] = s[g[n]]
  BY <1>3, RowIs
<1>5. g \in [1..Len(s) -> 1..Len(s)]
  BY <1>1, <1>3 DEF IsRow
<1>6. \A n, k \in 1..Len(s) : n < k => rank[g[n]] <= rank[g[k]]
  BY <1>1, <1>3, <1>5 DEF Before
<1> QED
  BY <1>1, <1>4, <1>5, <1>6 DEF t, Range

LEMMA DimensionIsFinite == IsFiniteSet(Dimension)
<1> DEFINE all == <<"availability", "latency", "rateLimit", "quality", "context", "freshness",
                    "cost", "stability", "firstToken">>
           f == [n \in 1..9 |-> all[n]]
<1>1. f \in [1..9 -> Dimension]
  BY DEF Dimension
<1>2. /\ f[1] = "availability" /\ f[2] = "latency" /\ f[3] = "rateLimit" /\ f[4] = "quality"
      /\ f[5] = "context" /\ f[6] = "freshness" /\ f[7] = "cost" /\ f[8] = "stability"
      /\ f[9] = "firstToken"
  OBVIOUS
<1> HIDE DEF f
<1>3. ASSUME NEW d \in Dimension PROVE \E n \in 1..9 : f[n] = d
  BY <1>2 DEF Dimension
<1>4. f \in Surjection(1..9, Dimension)
  BY <1>1, <1>3 DEF Surjection
<1>5. IsFiniteSet(1..9)
  BY PlacesOf
<1> QED
  BY <1>4, <1>5, FS_Surjection

LEMMA CompositeType ==
    ASSUME NEW m \in PoolModel, NEW w \in [Dimension -> Int] PROVE Composite(m, w) \in Int
<1> DEFINE part == [d \in Dimension |-> (w[d] * Clamp(m.scores[d], 0, 100)) \div 100]
           parts == SumOver(part, Dimension)
           nudge == 10 * Clamp(m.weightAdj, -1, 1)
           free == IF m.isFree /\ w["cost"] = 0 THEN 2 ELSE 0
           white == IF m.whitelisted THEN 5 ELSE 0
<1>1. \A d \in Dimension : part[d] \in Int
  <2> TAKE d \in Dimension
  <2>1. m.scores[d] \in Int /\ w[d] \in Int
    BY DEF PoolModel
  <2> QED
    BY <2>1 DEF Clamp
<1>2. nudge \in Int /\ free \in Int /\ white \in Int
  BY DEF PoolModel, Clamp
<1>3. Composite(m, w) = IF m.blacklisted THEN 0 ELSE Clamp(parts + nudge + free + white, 0, 100)
  BY DEF Composite, SumOver
<1> HIDE DEF part, nudge, free, white
<1>4. parts \in Int
  BY <1>1, DimensionIsFinite, SumIsInteger
<1> HIDE DEF parts
<1> QED
  BY <1>2, <1>3, <1>4 DEF Clamp

(* The order by composite score.                                           *)
LEMMA BestFirstIs ==
    ASSUME NEW s \in Seq(PoolModel), Apart(s), NEW w \in [Dimension -> Int]
    PROVE  /\ BestFirst(s, w) \in Seq(PoolModel) /\ Apart(BestFirst(s, w))
           /\ Len(BestFirst(s, w)) = Len(s) /\ Range(BestFirst(s, w)) = Range(s)
           /\ \A n, k \in 1..Len(s) :
                 n < k => Composite(BestFirst(s, w)[n], w) >= Composite(BestFirst(s, w)[k], w)
<1> DEFINE rank == [d \in DOMAIN s |-> -Composite(s[d], w)]
           t == BestFirst(s, w)
<1>1. \A d \in DOMAIN s : Composite(s[d], w) \in Int
  BY CompositeType
<1>2. \A d \in DOMAIN s : rank[d] \in Int
  BY <1>1
<1>3. t = Sorted(s, rank)
  BY DEF BestFirst
<1>4. /\ t \in Seq(PoolModel) /\ Apart(t) /\ Len(t) = Len(s) /\ Range(t) = Range(s)
      /\ \E g \in [1..Len(s) -> 1..Len(s)] :
            /\ \A n \in 1..Len(s) : t[n] = s[g[n]]
            /\ \A n, k \in 1..Len(s) : n < k => rank[g[n]] <= rank[g[k]]
  <2> HIDE DEF rank, t
  <2> QED
    BY <1>2, <1>3, SortedIs
<1>5. PICK g \in [1..Len(s) -> 1..Len(s)] :
            /\ \A n \in 1..Len(s) : t[n] = s[g[n]]
            /\ \A n, k \in 1..Len(s) : n < k => rank[g[n]] <= rank[g[k]]
  BY <1>4
<1>6. ASSUME NEW n \in 1..Len(s), NEW k \in 1..Len(s), n < k
      PROVE  Composite(t[n], w) >= Composite(t[k], w)
  <2>1. g[n] \in DOMAIN s /\ g[k] \in DOMAIN s /\ t[n] = s[g[n]] /\ t[k] = s[g[k]]
    BY <1>5, SMTT(30)
  <2>2. -Composite(s[g[n]], w) <= -Composite(s[g[k]], w)
    BY <1>5, <1>6, <2>1
  <2> QED
    BY <1>1, <2>1, <2>2
<1> HIDE DEF rank
<1> QED
  BY <1>4, <1>6 DEF t

LEMMA ByHashIs ==
    ASSUME NEW s \in Seq(PoolModel), Apart(s)
    PROVE  /\ ByHash(s) \in Seq(PoolModel) /\ Apart(ByHash(s))
           /\ Len(ByHash(s)) = Len(s) /\ Range(ByHash(s)) = Range(s)
<1> DEFINE rank == [d \in DOMAIN s |-> HashRank[s[d].upstream]]
<1>1. \A d \in DOMAIN s : rank[d] \in Int
  <2> SUFFICES ASSUME NEW d \in DOMAIN s PROVE HashRank[s[d].upstream] \in Int
    OBVIOUS
  <2>1. s[d] \in PoolModel
    OBVIOUS
  <2>2. s[d].upstream \in Upstream
    BY <2>1 DEF PoolModel
  <2> QED
    BY <2>2, RoutingAssumption
<1>2. ByHash(s) = Sorted(s, rank)
  BY DEF ByHash
<1> HIDE DEF rank
<1> QED
  BY <1>1, <1>2, SortedIs

(* Models of a list that are apart are told apart by their ids.            *)
LEMMA SameId ==
    ASSUME NEW s \in Seq(PoolModel), Apart(s), NEW m \in Range(s), NEW p \in Range(s), m.id = p.id
    PROVE  m = p
BY DEF Apart, Range

(* The weighted draw.                                                      *)
LEMMA DrawsAre ==
    ASSUME NEW s \in Seq(PoolModel), Apart(s), NEW t \in Draws(s)
    PROVE  t \in Seq(PoolModel) /\ Apart(t) /\ Range(t) \subseteq Range(s)
<1> DEFINE ids == {s[d].upstream : d \in DOMAIN s}
           N == Cardinality(ids)
           f == [n \in 1..N |-> t[n].upstream]
           h == [d \in 1..Len(s) |-> s[d].upstream]
<1>1. t \in [1..N -> Range(s)] /\ {t[n].upstream : n \in DOMAIN t} = ids
  BY DEF Draws
<1>2. IsFiniteSet(ids) /\ N \in Nat
  <2>1. IsFiniteSet(1..Len(s)) /\ DOMAIN s = 1..Len(s)
    BY PlacesOf
  <2>2. h \in Surjection(1..Len(s), ids)
    BY <2>1 DEF Surjection
  <2> HIDE DEF h, ids
  <2> QED
    BY <2>1, <2>2, FS_Surjection, FS_CardinalityType
<1>3. IsFiniteSet(1..N) /\ Cardinality(1..N) = Cardinality(ids)
  BY <1>2, PlacesOf
<1>4. f \in Surjection(1..N, ids)
  BY <1>1 DEF Surjection
<1>5. f \in Injection(1..N, ids)
  <2> HIDE DEF f, N, ids
  <2> QED
    BY <1>3, <1>4, FS_SurjSameCardinalityImpliesInj
<1>6. DOMAIN t = 1..N /\ \A n, k \in 1..N : n # k => t[n] # t[k]
  <2>1. DOMAIN t = 1..N
    BY <1>1
  <2> HIDE DEF N
  <2>2. \A n, k \in 1..N : f[n] = f[k] => n = k
    BY <1>5 DEF Injection, IsInjective
  <2> QED
    BY <2>1, <2>2
<1> HIDE DEF ids, N
<1>7. Range(s) \subseteq PoolModel
  BY DEF Range
<1>8. t \in Seq(PoolModel)
  BY <1>1, <1>2, <1>7
<1>9. \A n \in 1..N : t[n] \in Range(s)
  BY <1>1
<1>10. Apart(t)
  <2> SUFFICES ASSUME NEW n \in 1..N, NEW k \in 1..N, n # k, t[n].id = t[k].id PROVE FALSE
    BY <1>6 DEF Apart
  <2>1. t[n] = t[k]
    BY <1>9, SameId
  <2> QED
    BY <1>6, <2>1
<1>11. Range(t) \subseteq Range(s)
  BY <1>6, <1>9 DEF Range
<1> QED
  BY <1>8, <1>10, <1>11
Whole == {"auto-best-free", "round-robin-free", "paid-allowed", "prefer-model-fallback"}
Ranking == {"auto-best-free", "paid-allowed", "prefer-model-fallback"}

(* orderForMode.                                                           *)
LEMMA OrdersAre ==
    ASSUME NEW s \in Seq(PoolModel), Apart(s), NEW c, c.weights \in [Dimension -> Int],
           NEW o \in Orders(s, c)
    PROVE  /\ o \in Seq(PoolModel) /\ Apart(o) /\ Range(o) \subseteq Range(s)
           /\ c.mode \in Whole => Len(o) = Len(s) /\ Range(o) = Range(s)
           /\ c.mode \in Ranking => o = BestFirst(s, c.weights)
<1> DEFINE b == BestFirst(s, c.weights)
<1>1. b \in Seq(PoolModel) /\ Apart(b) /\ Len(b) = Len(s) /\ Range(b) = Range(s)
  BY BestFirstIs
<1> HIDE DEF b
<1>2. ASSUME NEW D \in SUBSET DOMAIN b
      PROVE  /\ Chosen(b, D) \in Seq(PoolModel) /\ Apart(Chosen(b, D))
             /\ Range(Chosen(b, D)) \subseteq Range(s)
  <2>1. Chosen(b, D) \in Seq(PoolModel) /\ Apart(Chosen(b, D)) /\ Range(Chosen(b, D)) = {b[d] : d \in D}
    BY <1>1, ChosenIs
  <2>2. {b[d] : d \in D} \subseteq Range(b)
    BY DEF Range
  <2> QED
    BY <1>1, <2>1, <2>2
<1>3. CASE c.mode = "round-robin-free"
  <2>1. o = ByHash(s)
    BY <1>3 DEF Orders
  <2> QED
    BY <1>3, <2>1, ByHashIs DEF Ranking
<1>4. CASE c.mode = "weighted-free"
  <2>1. o \in Draws(s)
    BY <1>4 DEF Orders
  <2> QED
    BY <1>4, <2>1, DrawsAre DEF Whole, Ranking
<1>5. CASE c.mode = "openrouter-free-router"
  <2>1. o = OfFreeRouter(b)
    BY <1>5 DEF Orders, b
  <2>2. \E D \in SUBSET DOMAIN b : o = Chosen(b, D)
    BY <2>1 DEF OfFreeRouter
  <2> QED
    BY <1>2, <1>5, <2>2 DEF Whole, Ranking
<1>6. CASE c.mode = "provider-specific"
  <2>1. o = OfProvider(b, c.slug)
    BY <1>6 DEF Orders, b
  <2>2. \E D \in SUBSET DOMAIN b : o = Chosen(b, D)
    BY <2>1 DEF OfProvider
  <2> QED
    BY <1>2, <1>6, <2>2 DEF Whole, Ranking
<1>7. CASE c.mode \notin {"round-robin-free", "weighted-free", "openrouter-free-router",
                          "provider-specific"}
  <2>1. o = b
    BY <1>7 DEF Orders, b
  <2> QED
    BY <1>1, <2>1 DEF b
<1> QED
  BY <1>3, <1>4, <1>5, <1>6, <1>7

(* The model asked for by name.                                            *)
LEMMA NamedIs ==
    ASSUME NEW s \in Seq(PoolModel), Apart(s), NEW c, ~PinsNobody(s, c)
    PROVE  /\ Head(Named(s, c)) \in Range(s) /\ Head(Named(s, c)).upstream = c.explicit
           /\ c.mode = "prefer-model-fallback"
<1> DEFINE D == {d \in DOMAIN s : s[d].upstream = c.explicit}
           t == Named(s, c)
<1>1. t \in Seq(PoolModel) /\ Range(t) = {s[d] : d \in D}
  <2> HIDE DEF D
  <2>1. D \in SUBSET DOMAIN s
    BY DEF D
  <2> QED
    BY <2>1, ChosenIs DEF Named, D
<1>2. t # <<>> /\ c.mode = "prefer-model-fallback"
  BY DEF PinsNobody
<1> HIDE DEF t
<1>3. Head(t) \in Range(t)
  <2>1. 1 \in DOMAIN t /\ Head(t) = t[1]
    BY <1>1, <1>2
  <2> QED
    BY <2>1 DEF Range
<1> QED
  BY <1>1, <1>2, <1>3 DEF t, Range

(* w is o with some left out, in the order they had.                       *)
Thinned(w, o) ==
    \E g \in [1..Len(w) -> 1..Len(o)] :
        /\ \A j \in 1..Len(w) : w[j] = o[g[j]]
        /\ \A j, k \in 1..Len(w) : j < k => g[j] < g[k]

LEMMA WithoutIs ==
    ASSUME NEW o \in Seq(PoolModel), Apart(o), NEW m
    PROVE  /\ Without(o, m) \in Seq(PoolModel) /\ Apart(Without(o, m))
           /\ Range(Without(o, m)) = Range(o) \ {m}
           /\ m \in Range(o) => Len(Without(o, m)) = Len(o) - 1
           /\ Thinned(Without(o, m), o)
<1> DEFINE D == {d \in DOMAIN o : o[d] # m}
           t == Without(o, m)
<1>1. D \in SUBSET DOMAIN o /\ t = Chosen(o, D)
  BY DEF Without
<1>2. {o[d] : d \in D} = Range(o) \ {m}
  BY DEF Range
<1>3. m \in Range(o) => Cardinality(D) = Len(o) - 1
  <2> HAVE m \in Range(o)
  <2>1. PICK k \in DOMAIN o : o[k] = m
    BY DEF Range
  <2>2. D = DOMAIN o \ {k}
    BY <2>1 DEF Apart
  <2>3. IsFiniteSet(DOMAIN o) /\ Cardinality(DOMAIN o) = Len(o)
    <3>1. DOMAIN o = 1..Len(o) /\ Len(o) \in Nat
      OBVIOUS
    <3> QED
      BY <3>1, PlacesOf
  <2> HIDE DEF D
  <2> QED
    BY <2>1, <2>2, <2>3, FS_RemoveElement
<1> HIDE DEF D, t
<1>4. /\ t \in Seq(PoolModel) /\ Apart(t) /\ Len(t) = Cardinality(D)
      /\ Range(t) = {o[d] : d \in D}
  BY <1>1, ChosenIs
<1>5. PICK g \in [1..Cardinality(D) -> D] :
        /\ \A n \in 1..Cardinality(D) : t[n] = o[g[n]]
        /\ \A n, k \in 1..Cardinality(D) : n < k => g[n] < g[k]
  BY <1>1, ChosenIs
<1>6. g \in [1..Len(t) -> 1..Len(o)]
  BY <1>1, <1>4, <1>5
<1>7. Thinned(t, o)
  BY <1>4, <1>5, <1>6 DEF Thinned
<1> QED
  BY <1>2, <1>3, <1>4, <1>7 DEF t

(* decide's pinning.                                                       *)
LEMMA PinnedIs ==
    ASSUME NEW s \in Seq(PoolModel), Apart(s), NEW c,
           NEW o \in Seq(PoolModel), Apart(o), Range(o) \subseteq Range(s)
    PROVE  /\ Pinned(o, s, c) \in Seq(PoolModel) /\ Apart(Pinned(o, s, c))
           /\ Range(Pinned(o, s, c)) \subseteq Range(s)
           /\ Range(o) = Range(s) => Len(Pinned(o, s, c)) = Len(o)
<1>1. CASE PinsNobody(s, c)
  <2>1. Pinned(o, s, c) = o
    BY <1>1 DEF Pinned
  <2> QED
    BY <2>1
<1>2. CASE ~PinsNobody(s, c)
  <2> DEFINE first == Head(Named(s, c))
             w == Without(o, first)
             p == <<first>> \o w
  <2>1. Pinned(o, s, c) = p
    BY <1>2 DEF Pinned
  <2>2. first \in Range(s)
    BY <1>2, NamedIs
  <2>3. first \in PoolModel
    BY <2>2 DEF Range
  <2> HIDE DEF first
  <2>4. /\ w \in Seq(PoolModel) /\ Apart(w) /\ Range(w) = Range(o) \ {first}
        /\ first \in Range(o) => Len(w) = Len(o) - 1
    BY WithoutIs
  <2> HIDE DEF w
  <2>5. /\ p \in Seq(PoolModel) /\ Len(p) = Len(w) + 1 /\ DOMAIN p = 1..(Len(w) + 1)
        /\ p[1] = first /\ \A n \in 1..Len(w) : p[n + 1] = w[n]
    BY <2>3, <2>4
  <2>6. \A n \in 1..Len(w) : w[n] \in Range(s) /\ w[n] # first
    <3>1. \A n \in 1..Len(w) : w[n] \in Range(w)
      BY <2>4 DEF Range
    <3> QED
      BY <2>4, <3>1
  <2>7. \A n \in 2..(Len(w) + 1) : n - 1 \in 1..Len(w) /\ p[n] = w[n - 1]
    BY <2>4, <2>5
  <2>8. \A n \in 2..(Len(w) + 1) : p[n] \in Range(s) /\ p[n] # first
    BY <2>6, <2>7
  <2>9. Range(p) \subseteq Range(s)
    <3>1. \A n \in DOMAIN p : n = 1 \/ n \in 2..(Len(w) + 1)
      BY <2>4, <2>5
    <3>2. \A n \in DOMAIN p : p[n] \in Range(s)
      BY <2>2, <2>5, <2>8, <3>1
    <3> QED
      BY <3>2 DEF Range
  <2>10. Apart(p)
    <3> SUFFICES ASSUME NEW n \in 1..(Len(w) + 1), NEW k \in 1..(Len(w) + 1), n # k,
                        p[n].id = p[k].id
                 PROVE  FALSE
      BY <2>5 DEF Apart
    <3>1. \A d \in 2..(Len(w) + 1) : p[d].id # first.id
      BY <2>2, <2>8, SameId
    <3>2. CASE n = 1 \/ k = 1
      <4>1. n \in 2..(Len(w) + 1) \/ k \in 2..(Len(w) + 1)
        BY <2>4, <3>2
      <4> QED
        BY <2>5, <3>1, <3>2, <4>1
    <3>3. CASE n # 1 /\ k # 1
      <4>1. n - 1 \in 1..Len(w) /\ k - 1 \in 1..Len(w) /\ n - 1 # k - 1
            /\ p[n] = w[n - 1] /\ p[k] = w[k - 1]
        BY <2>4, <2>7, <3>3
      <4>2. w[n - 1].id # w[k - 1].id
        BY <2>4, <4>1 DEF Apart
      <4> QED
        BY <4>1, <4>2
    <3> QED
      BY <3>2, <3>3
  <2>11. Range(o) = Range(s) => Len(p) = Len(o)
    BY <2>2, <2>4, <2>5
  <2> HIDE DEF p
  <2> QED
    BY <2>1, <2>5, <2>9, <2>10, <2>11
<1> QED
  BY <1>1, <1>2

(* Nobody before a better one, but the model asked for by name.            *)
LEMMA PinnedRanks ==
    ASSUME NEW s \in Seq(PoolModel), Apart(s), NEW c, c.weights \in [Dimension -> Int],
           NEW o, o = BestFirst(s, c.weights), NEW p, p = Pinned(o, s, c),
           NEW n \in 1..Len(p), NEW m \in Range(s),
           Composite(m, c.weights) > Composite(p[n], c.weights),
           ~(p[n].upstream = c.explicit /\ c.mode = "prefer-model-fallback")
    PROVE  \E k \in 1..(n - 1) : p[k] = m
<1> DEFINE Score(x) == Composite(x, c.weights)
<1>1. /\ o \in Seq(PoolModel) /\ Apart(o) /\ Len(o) = Len(s) /\ Range(o) = Range(s)
      /\ \A j, k \in 1..Len(o) : j < k => Score(o[j]) >= Score(o[k])
  <2>1. Len(o) = Len(s)
    BY BestFirstIs
  <2> QED
    BY <2>1, BestFirstIs
<1>2. \A d \in 1..Len(o) : Score(o[d]) \in Int
  <2> TAKE d \in 1..Len(o)
  <2>1. o[d] \in PoolModel
    BY <1>1
  <2> QED
    BY <2>1, CompositeType
<1>3. PICK b \in 1..Len(o) : o[b] = m
  <2>1. m \in Range(o) /\ DOMAIN o = 1..Len(o)
    BY <1>1
  <2> QED
    BY <2>1 DEF Range
<1> HIDE DEF Score
<1>4. ASSUME NEW d \in 1..Len(o), Score(m) > Score(o[d]) PROVE b < d
  <2>1. CASE b = d
    BY <1>2, <1>3, <1>4, <2>1
  <2>2. CASE d < b
    <3>1. Score(o[d]) >= Score(o[b])
      BY <1>1, <2>2
    <3> QED
      BY <1>2, <1>3, <1>4, <3>1
  <2> QED
    BY <2>1, <2>2
<1>5. CASE PinsNobody(s, c)
  <2>1. p = o
    BY <1>5 DEF Pinned
  <2>2. b < n
    BY <1>4, <2>1 DEF Score
  <2> QED
    BY <1>3, <2>1, <2>2
<1>6. CASE ~PinsNobody(s, c)
  <2> DEFINE first == Head(Named(s, c))
             w == Without(o, first)
  <2>1. p = <<first>> \o w
    BY <1>6 DEF Pinned
  <2>2. first.upstream = c.explicit /\ c.mode = "prefer-model-fallback" /\ first \in Range(s)
    BY <1>6, NamedIs
  <2>3. first \in PoolModel
    BY <2>2 DEF Range
  <2> HIDE DEF first
  <2>4. w \in Seq(PoolModel) /\ Range(w) = Range(o) \ {first} /\ Thinned(w, o)
    BY <1>1, WithoutIs
  <2> HIDE DEF w
  <2>5. PICK g \in [1..Len(w) -> 1..Len(o)] :
           /\ \A j \in 1..Len(w) : w[j] = o[g[j]]
           /\ \A j, k \in 1..Len(w) : j < k => g[j] < g[k]
    BY <2>4 DEF Thinned
  <2>6. Len(p) = Len(w) + 1 /\ p[1] = first /\ (\A j \in 1..Len(w) : p[j + 1] = w[j])
        /\ Len(w) \in Nat
    BY <2>1, <2>3, <2>4
  <2>7. n # 1
    BY <2>2, <2>6
  <2>8. n - 1 \in 1..Len(w) /\ p[n] = w[n - 1]
    <3>1. n \in 1..(Len(w) + 1)
      BY <2>6
    <3>2. n - 1 \in 1..Len(w) /\ (n - 1) + 1 = n
      BY <2>6, <2>7, <3>1
    <3>3. p[(n - 1) + 1] = w[n - 1]
      BY <2>6, <3>2
    <3> QED
      BY <3>2, <3>3
  <2>9. CASE m = first
    BY <2>6, <2>7, <2>9
  <2>10. CASE m # first
    <3>1. m \in Range(w)
      BY <1>1, <2>4, <2>10
    <3>2. PICK j \in 1..Len(w) : w[j] = m
      BY <2>4, <3>1 DEF Range
    <3>3. g[j] \in 1..Len(o) /\ g[n - 1] \in 1..Len(o) /\ o[g[j]] = m /\ o[g[n - 1]] = p[n]
      BY <2>5, <2>8, <3>2
    <3>4. g[j] = b
      <4>1. DOMAIN o = 1..Len(o) /\ o[g[j]].id = o[b].id
        BY <1>1, <1>3, <3>3
      <4> QED
        BY <1>1, <3>3, <4>1 DEF Apart
    <3>5. g[j] < g[n - 1]
      BY <1>4, <3>3, <3>4 DEF Score
    <3>6. j < n - 1
      <4>1. CASE j = n - 1
        BY <3>3, <3>5, <4>1
      <4>2. CASE n - 1 < j
        <5>1. g[n - 1] < g[j]
          BY <2>5, <2>8, <4>2
        <5> QED
          BY <3>3, <3>5, <5>1
      <4> QED
        BY <2>8, <4>1, <4>2
    <3>7. j + 1 \in 1..(n - 1) /\ p[j + 1] = m
      BY <2>6, <2>8, <3>2, <3>6
    <3> QED
      BY <3>7
  <2> QED
    BY <2>9, <2>10
<1> QED
  BY <1>5, <1>6

LEMMA TrimIs ==
    ASSUME NEW o \in Seq(PoolModel), NEW max \in Nat
    PROVE  /\ Trim(o, max) \in Seq(PoolModel)
           /\ Len(Trim(o, max)) = IF Len(o) < max THEN Len(o) ELSE max
           /\ \A n \in 1..Len(Trim(o, max)) : n \in 1..Len(o) /\ Trim(o, max)[n] = o[n]
<1> DEFINE l == IF Len(o) < max THEN Len(o) ELSE max
<1>1. l \in Nat /\ l <= Len(o) /\ Trim(o, max) = SubSeq(o, 1, l)
  BY DEF Trim
<1> HIDE DEF l
<1> QED
  BY <1>1 DEF l

(* The survivors of the filters, and what those that GET /v1/models drops. *)
LEMMA SurvivorsAre ==
    ASSUME NEW a \in Asks
    PROVE  LET fit == Survivors(a.pool, Context(a)) IN
           /\ fit \in Seq(PoolModel) /\ Apart(fit)
           /\ \A m \in Range(fit) : Listed(m, a.perm)
<1> DEFINE c == Context(a)
           D == {d \in DOMAIN a.pool : Reason(a.pool[d], c) = None}
           fit == Survivors(a.pool, c)
<1>1. a.pool \in Seq(PoolModel) /\ Apart(a.pool)
  BY PlanningAssumption DEF Apart
<1>2. D \in SUBSET DOMAIN a.pool /\ fit = Chosen(a.pool, D)
  BY DEF Survivors
<1>3. \A d \in D : Reason(a.pool[d], c) = None
  OBVIOUS
<1> HIDE DEF D, fit
<1>4. fit \in Seq(PoolModel) /\ Apart(fit) /\ Range(fit) = {a.pool[d] : d \in D}
  BY <1>1, <1>2, ChosenIs
<1>5. ASSUME NEW m, Reason(m, c) = None PROVE Listed(m, a.perm)
  <2>1. c.perm = a.perm
    BY DEF Context
  <2>2. m.status \notin {"disabled", "removed"}
    BY <1>5 DEF Reason, None, PassesStatus
  <2>3. PassesKey(m, a.perm)
    BY <1>5, <2>1 DEF Reason, None
  <2> QED
    BY <2>2, <2>3 DEF Listed, PassesKey
<1> QED
  BY <1>3, <1>4, <1>5 DEF fit

(* decide: the candidates of a request.                                    *)
LEMMA CandidatesAre ==
    ASSUME NEW a \in Asks, NEW p \in CandidateLists(a.pool, Context(a))
    PROVE  LET c == Context(a)
               fit == Survivors(a.pool, c) IN
           /\ p \in Seq(PoolModel) /\ Apart(p) /\ Range(p) \subseteq Range(fit)
           /\ c.mode \in Whole => Len(p) = IF Len(fit) < c.max THEN Len(fit) ELSE c.max
           /\ c.mode \in Ranking =>
                 \A n \in 1..Len(p), m \in Range(fit) :
                     /\ Composite(m, c.weights) > Composite(p[n], c.weights)
                     /\ ~(p[n].upstream = c.explicit /\ c.mode = "prefer-model-fallback")
                     => \E k \in 1..(n - 1) : p[k] = m
<1> DEFINE c == Context(a)
           fit == Survivors(a.pool, c)
<1>1. fit \in Seq(PoolModel) /\ Apart(fit)
  BY SurvivorsAre
<1>2. c.weights \in [Dimension -> Int] /\ c.max \in Nat
  BY PlanningAssumption DEF Context
<1>3. PICK o \in Orders(fit, c) : p = Trim(Pinned(o, fit, c), c.max)
  BY DEF CandidateLists
<1> HIDE DEF c, fit
<1> DEFINE q == Pinned(o, fit, c)
<1>4. /\ o \in Seq(PoolModel) /\ Apart(o) /\ Range(o) \subseteq Range(fit)
      /\ c.mode \in Whole => Len(o) = Len(fit) /\ Range(o) = Range(fit)
      /\ c.mode \in Ranking => o = BestFirst(fit, c.weights)
  BY <1>1, <1>2, <1>3, OrdersAre
<1>5. /\ q \in Seq(PoolModel) /\ Apart(q) /\ Range(q) \subseteq Range(fit)
      /\ Range(o) = Range(fit) => Len(q) = Len(o)
  BY <1>1, <1>4, PinnedIs
<1>6. ASSUME c.mode \in Ranking, NEW n \in 1..Len(q), NEW m \in Range(fit),
             Composite(m, c.weights) > Composite(q[n], c.weights),
             ~(q[n].upstream = c.explicit /\ c.mode = "prefer-model-fallback")
      PROVE  \E k \in 1..(n - 1) : q[k] = m
  <2>1. o = BestFirst(fit, c.weights) /\ q = Pinned(o, fit, c)
    BY <1>4, <1>6
  <2> HIDE DEF q
  <2> QED
    BY <1>1, <1>2, <1>6, <2>1, PinnedRanks
<1> HIDE DEF q
<1>7. p = Trim(q, c.max)
  BY <1>3 DEF q
<1>8. /\ p \in Seq(PoolModel) /\ Len(p) = IF Len(q) < c.max THEN Len(q) ELSE c.max
      /\ \A n \in 1..Len(p) : n \in 1..Len(q) /\ p[n] = q[n]
  BY <1>2, <1>5, <1>7, TrimIs
<1>9. DOMAIN p = 1..Len(p) /\ DOMAIN q = 1..Len(q) /\ Len(p) \in Nat
  BY <1>5, <1>8
<1>10. Apart(p)
  BY <1>5, <1>8, <1>9 DEF Apart
<1>11. Range(p) \subseteq Range(fit)
  <2>1. Range(p) \subseteq Range(q)
    BY <1>8, <1>9 DEF Range
  <2> QED
    BY <1>5, <2>1
<1>12. c.mode \in Whole => Len(p) = IF Len(fit) < c.max THEN Len(fit) ELSE c.max
  BY <1>4, <1>5, <1>8
<1>13. ASSUME c.mode \in Ranking, NEW n \in 1..Len(p), NEW m \in Range(fit),
              Composite(m, c.weights) > Composite(p[n], c.weights),
              ~(p[n].upstream = c.explicit /\ c.mode = "prefer-model-fallback")
       PROVE  \E k \in 1..(n - 1) : p[k] = m
  <2>1. n \in 1..Len(q) /\ p[n] = q[n]
    BY <1>8
  <2>2. PICK k \in 1..(n - 1) : q[k] = m
    BY <1>6, <1>13, <2>1
  <2>3. k \in 1..Len(p)
    BY <1>9, <2>2
  <2> QED
    BY <1>8, <2>2, <2>3
<1> QED
  BY <1>8, <1>10, <1>11, <1>12, <1>13 DEF c, fit

(* POST /v1/embeddings.                                                    *)
LEMMA EmbeddingCandidatesListed ==
    ASSUME NEW a \in Asks, NEW m \in Range(EmbeddingCandidates(a.pool, a.name, a.perm))
    PROVE  Listed(m, a.perm)
<1> DEFINE Serves(x) == /\ x.status \notin {"disabled", "removed"} /\ ~x.blacklisted
                        /\ x.upstream \notin a.perm.deniedModels
                        /\ a.perm.allowedModels = {} \/ x.upstream \in a.perm.allowedModels
                        /\ a.perm.allowedProviders = {} \/ x.slug \in a.perm.allowedProviders
                        /\ a.perm.allowPaid \/ x.isFree
                        /\ IF Resolved(a.name).explicit # None
                           THEN x.upstream = Resolved(a.name).explicit
                           ELSE x.isFree /\ "json" \in x.caps
           D == {d \in DOMAIN a.pool : Serves(a.pool[d])}
           o == Chosen(a.pool, D)
           t == EmbeddingCandidates(a.pool, a.name, a.perm)
<1>1. t = Trim(o, 4)
  BY DEF EmbeddingCandidates
<1>2. a.pool \in Seq(PoolModel) /\ Apart(a.pool)
  BY PlanningAssumption DEF Apart
<1>3. D \in SUBSET DOMAIN a.pool
  OBVIOUS
<1>4. \A d \in D : Listed(a.pool[d], a.perm)
  BY DEF Listed
<1> HIDE DEF D
<1>5. o \in Seq(PoolModel) /\ Range(o) = {a.pool[d] : d \in D}
  BY <1>2, <1>3, ChosenIs
<1> HIDE DEF o
<1>6. t \in Seq(PoolModel) /\ \A n \in 1..Len(t) : n \in 1..Len(o) /\ t[n] = o[n]
  BY <1>1, <1>5, TrimIs
<1> HIDE DEF t
<1>7. Range(t) \subseteq Range(o)
  <2>1. DOMAIN t = 1..Len(t) /\ DOMAIN o = 1..Len(o)
    BY <1>5, <1>6
  <2> QED
    BY <1>6, <2>1 DEF Range
<1>8. m \in {a.pool[d] : d \in D}
  BY <1>5, <1>7 DEF t
<1> QED
  BY <1>4, <1>8

(* What is planned is what the router decided on the request.              *)
PlanDecided == ask \in Asks /\ (Decided => plan \in CandidateLists(ask.pool, Context(ask)))

LEMMA PlanDecidedAlways == PlanSpec => []PlanDecided
<1>1. ASSUME PlanInit PROVE PlanDecided
  BY <1>1 DEF PlanInit, PlanDecided, Decided
<1>2. ASSUME PlanDecided, [PlanNext]_planVars PROVE PlanDecided'
  <2>1. CASE UNCHANGED planVars
    BY <1>2, <2>1 DEF planVars, PlanDecided, Decided
  <2>2. CASE Decide
    BY <1>2, <2>2 DEF Decide, PlanDecided, Decided
  <2>3. ASSUME at = "walking", UNCHANGED <<ask, plan>> PROVE PlanDecided'
    BY <1>2, <2>3 DEF PlanDecided, Decided
  <2>4. CASE Gated
    BY <2>3, <2>4 DEF Gated, Walking
  <2>5. CASE Exhausted
    BY <2>3, <2>5 DEF Exhausted
  <2>6. ASSUME NEW a \in Answers, Answered(a) \/ Retried(a) \/ Stopped(a) PROVE PlanDecided'
    BY <2>3, <2>6 DEF Answered, Retried, Stopped, Called, Walking
  <2> QED
    BY <1>2, <2>1, <2>2, <2>4, <2>5, <2>6 DEF PlanNext
<1> QED
  BY <1>1, <1>2, PTL DEF PlanSpec

(* Whatever the mode, the alias and the permissions, what a key can reach, *)
(* by chat or by embeddings, is what its GET /v1/models shows              *)
(* (Router.decide, POST /v1/embeddings, GET /v1/models).                   *)
THEOREM OnlyListedRouted == PlanSpec => []RoutableIsListed
<1>1. ASSUME PlanDecided PROVE RoutableIsListed
  <2>1. ask \in Asks
    BY <1>1 DEF PlanDecided
  <2>2. ASSUME Decided, NEW m \in Range(plan) PROVE Listed(m, ask.perm)
    <3>1. plan \in CandidateLists(ask.pool, Context(ask))
      BY <1>1, <2>2 DEF PlanDecided
    <3>2. m \in Range(Survivors(ask.pool, Context(ask)))
      BY <2>1, <2>2, <3>1, CandidatesAre
    <3> QED
      BY <2>1, <3>2, SurvivorsAre
  <2> QED
    BY <2>1, <2>2, EmbeddingCandidatesListed DEF RoutableIsListed
<1> QED
  BY <1>1, PlanDecidedAlways, PTL

(* A plan has everybody it should have, once, and nobody before a better   *)
(* one (Router.decide).                                                    *)
THEOREM PlansInOrder == PlanSpec => []PlanInOrder
<1>1. ASSUME PlanDecided, Decided PROVE EveryModelAccounted /\ BestAreTried
  <2> DEFINE c == Context(ask)
             fit == Survivors(ask.pool, c)
  <2>1. ask \in Asks /\ plan \in CandidateLists(ask.pool, Context(ask))
    BY <1>1 DEF PlanDecided
  <2>2. fit \in Seq(PoolModel)
    BY <2>1, SurvivorsAre
  <2>3. /\ plan \in Seq(PoolModel) /\ Apart(plan) /\ Range(plan) \subseteq Range(fit)
        /\ c.mode \in Whole => Len(plan) = IF Len(fit) < c.max THEN Len(fit) ELSE c.max
        /\ c.mode \in Ranking =>
              \A n \in 1..Len(plan), m \in Range(fit) :
                  /\ Composite(m, c.weights) > Composite(plan[n], c.weights)
                  /\ ~(plan[n].upstream = c.explicit /\ c.mode = "prefer-model-fallback")
                  => \E k \in 1..(n - 1) : plan[k] = m
    BY <2>1, CandidatesAre
  <2>4. c.mode = ask.mode
    BY DEF Context
  <2> HIDE DEF c, fit
  <2>5. Cardinality(Ids(plan)) = Len(plan)
    <3> DEFINE f == [n \in 1..Len(plan) |-> plan[n].id]
    <3>1. Len(plan) \in Nat /\ DOMAIN plan = 1..Len(plan)
      BY <2>3
    <3>2. f \in Surjection(1..Len(plan), Ids(plan))
      BY <3>1 DEF Surjection, Ids
    <3>3. f \in Injection(1..Len(plan), Ids(plan))
      BY <2>3, <3>1, <3>2 DEF Injection, IsInjective, Apart, Surjection
    <3>4. IsFiniteSet(1..Len(plan)) /\ Cardinality(1..Len(plan)) = Len(plan)
      BY <3>1, PlacesOf
    <3> HIDE DEF f
    <3> QED
      BY <3>2, <3>3, <3>4, FS_Surjection
  <2>6. Ids(plan) \subseteq Ids(fit)
    BY <2>3, SMTT(30) DEF Ids, Range
  <2>7. EveryModelAccounted
    BY <2>3, <2>5, <2>6 DEF EveryModelAccounted, Whole, c, fit
  <2>8. BestAreTried
    <3> SUFFICES ASSUME ask.mode \in Ranking, NEW n \in DOMAIN plan, NEW m \in Range(fit),
                        Composite(m, c.weights) > Composite(plan[n], c.weights),
                        ~(plan[n].upstream = c.explicit /\ c.mode = "prefer-model-fallback")
                 PROVE  \E k \in 1..(n - 1) : plan[k] = m
      BY DEF BestAreTried, Ranking, c, fit
    <3>1. n \in 1..Len(plan)
      BY <2>3
    <3> QED
      BY <2>3, <2>4, <3>1
  <2> QED
    BY <2>7, <2>8
<1>2. ~Decided => EveryModelAccounted /\ BestAreTried
  BY DEF EveryModelAccounted, BestAreTried
<1>3. PlanDecided => PlanInOrder
  BY <1>1, <1>2 DEF PlanInOrder
<1> QED
  BY <1>3, PlanDecidedAlways, PTL

-----------------------------------------------------------------------------
(* The walk: what is retried on, and how long it waits.                    *)

LEMMA KindRetriable ==
    ASSUME NEW a \in Answer
    PROVE  ProviderKind(a) \in Retriable <=> (a.status \in {NoStatus, 408, 429} \/ ServerError(a))
<1>1. a.status \in Nat
  BY DEF Answer
<1>2. CASE a.status = NoStatus
  BY <1>2 DEF ProviderKind, Retriable
<1>3. CASE a.status # NoStatus /\ a.status \in DOMAIN KindOfStatus
  <2>1. ProviderKind(a) = KindOfStatus[a.status] /\ ~ServerError(a)
    BY <1>3 DEF ProviderKind, KindOfStatus, ServerError
  <2>2. KindOfStatus[a.status] \in Retriable <=> a.status \in {408, 429}
    BY <1>3 DEF KindOfStatus, Retriable
  <2> QED
    BY <1>3, <2>1, <2>2
<1>4. CASE a.status # NoStatus /\ a.status \notin DOMAIN KindOfStatus
  <2>1. a.status \notin {408, 429}
    BY <1>4 DEF KindOfStatus
  <2>2. ProviderKind(a) = IF ServerError(a) THEN "provider_unavailable" ELSE "unknown"
    BY <1>4 DEF ProviderKind
  <2> QED
    BY <1>4, <2>1, <2>2 DEF Retriable
<1> QED
  BY <1>2, <1>3, <1>4

(* The adapter's kind is retriable for the answers that are transient,     *)
(* streamed or not.                                                        *)
LEMMA TransientIsRetriable ==
    ASSUME NEW a \in Answer, ~OutcomeOf(a).ok
    PROVE  OutcomeOf(a).kind \in Retriable <=> Transient(a)
<1>1. a.status \in Nat /\ (Good(a) => ~ServerError(a) /\ a.status \notin {NoStatus, 408, 429})
  BY DEF Answer, Good, ServerError, NoStatus
<1>2. CASE ~ask.stream
  <2>1. OutcomeOf(a) = Complete(a)
    BY <1>2 DEF OutcomeOf
  <2>2. CASE ~Good(a)
    <3>1. OutcomeOf(a).kind = ProviderKind(a)
      BY <2>1, <2>2 DEF Complete, Bad
    <3> QED
      BY <2>2, <3>1, KindRetriable DEF Transient
  <2>3. CASE Good(a) /\ a.says \in {"unreadable", "abort"}
    <3> DEFINE b == [status |-> NoStatus, says |-> a.says]
    <3>1. OutcomeOf(a).kind = ProviderKind(b)
      BY <2>1, <2>3 DEF Complete, Bad
    <3>2. ProviderKind(b) \in Retriable
      BY DEF ProviderKind, Retriable
    <3> QED
      BY <2>3, <3>1, <3>2 DEF Transient
  <2>4. CASE Good(a) /\ a.says \notin {"unreadable", "abort"}
    BY <2>1, <2>4 DEF Complete, Ok
  <2> QED
    BY <2>2, <2>3, <2>4
<1>3. CASE ask.stream
  <2>1. OutcomeOf(a) = Stream(a)
    BY <1>3 DEF OutcomeOf
  <2>2. CASE a.status = NoStatus
    <3>1. OutcomeOf(a).kind = ProviderKind(a)
      BY <2>1, <2>2 DEF Stream, RoutingKind
    <3> QED
      BY <2>2, <3>1, KindRetriable DEF Transient
  <2>3. CASE a.status # NoStatus /\ ~Good(a)
    <3>1. OutcomeOf(a).kind = ProviderKind(a)
      BY <2>1, <2>3 DEF Stream, Bad
    <3> QED
      BY <2>3, <3>1, KindRetriable DEF Transient
  <2>4. CASE Good(a) /\ a.says \in {"unreadable", "abort"}
    BY <1>1, <2>1, <2>4 DEF Stream, Bad, Transient, Retriable
  <2>5. CASE Good(a) /\ a.says \notin {"unreadable", "abort"}
    BY <1>1, <2>1, <2>5 DEF Stream, Ok
  <2> QED
    BY <1>1, <2>2, <2>3, <2>4, <2>5
<1> QED
  BY <1>2, <1>3

(* Powers of two, by counting subsets.                                     *)
LEMMA PowersGrow == ASSUME NEW n \in Nat PROVE 2^n \in Nat /\ 2^n <= 2^(n + 1)
<1>1. /\ IsFiniteSet(1..n) /\ Cardinality(1..n) = n
      /\ IsFiniteSet(1..(n + 1)) /\ Cardinality(1..(n + 1)) = n + 1
  BY FS_Interval
<1>2. /\ IsFiniteSet(SUBSET (1..n)) /\ Cardinality(SUBSET (1..n)) = 2^n
      /\ IsFiniteSet(SUBSET (1..(n + 1))) /\ Cardinality(SUBSET (1..(n + 1))) = 2^(n + 1)
  BY <1>1, FS_SUBSET
<1>3. SUBSET (1..n) \subseteq SUBSET (1..(n + 1))
  OBVIOUS
<1> QED
  BY <1>2, <1>3, FS_Subset, FS_CardinalityType

LEMMA ProductGrows ==
    ASSUME NEW a \in Nat, NEW b \in Nat, NEW c \in Nat, a <= b PROVE a * c <= b * c
OBVIOUS

(* The delay before its jitter: at most the maximum, and growing.          *)
LEMMA BackoffGrows ==
    ASSUME NEW p \in Policy, NEW n \in Nat \ {0}
    PROVE  /\ BaseBackoff(n, p) \in Nat /\ BaseBackoff(n, p) <= p.max
           /\ BaseBackoff(n, p) <= BaseBackoff(n + 1, p)
<1>1. p.initial \in Nat /\ p.max \in Nat
  BY RetryAssumption DEF Policy
<1>2. n - 1 \in Nat /\ (n + 1) - 1 = (n - 1) + 1
  OBVIOUS
<1> DEFINE now == 2^(n - 1)
           next == 2^((n + 1) - 1)
<1>3. now \in Nat /\ next \in Nat /\ now <= next
  BY <1>2, PowersGrow
<1>4. /\ BaseBackoff(n, p) = IF p.initial * now < p.max THEN p.initial * now ELSE p.max
      /\ BaseBackoff(n + 1, p) = IF p.initial * next < p.max THEN p.initial * next ELSE p.max
  BY DEF BaseBackoff
<1> HIDE DEF now, next
<1>5. p.initial * now \in Nat /\ p.initial * next \in Nat /\ p.initial * now <= p.initial * next
  BY <1>1, <1>3, ProductGrows
<1> QED
  BY <1>1, <1>4, <1>5

LEMMA BackoffBounded ==
    ASSUME NEW p \in Policy, NEW n \in Nat \ {0}, NEW w \in Backoffs(n, p)
    PROVE  /\ w \in Int
           /\ 10 * w <= p.max * (10 + p.jitter) + 5
           /\ p.jitter = 0 => w = BaseBackoff(n, p)
<1> DEFINE base == BaseBackoff(n, p)
<1>1. base \in Nat /\ base <= p.max /\ p.max \in Nat /\ p.jitter \in 0..10
  BY BackoffGrows, RetryAssumption DEF Policy
<1>2. w \in Rounded(base * (10 - p.jitter)) .. Rounded(base * (10 + p.jitter))
  BY DEF Backoffs
<1> HIDE DEF base
<1>3. base * (10 + p.jitter) <= p.max * (10 + p.jitter)
  BY <1>1, ProductGrows
<1>4. base * (10 + p.jitter) \in Nat /\ base * (10 - p.jitter) \in Nat
      /\ p.max * (10 + p.jitter) \in Nat
  BY <1>1
<1>5. w \in Int /\ w <= (base * (10 + p.jitter) + 5) \div 10
  BY <1>2, <1>4 DEF Rounded
<1>6. 10 * ((base * (10 + p.jitter) + 5) \div 10) <= base * (10 + p.jitter) + 5
  BY <1>4
<1>7. 10 * w <= p.max * (10 + p.jitter) + 5
  BY <1>3, <1>4, <1>5, <1>6
<1>8. ASSUME p.jitter = 0 PROVE w = base
  <2>1. w \in Rounded(base * 10) .. Rounded(base * 10)
    BY <1>2, <1>8
  <2>2. Rounded(base * 10) = base
    BY <1>1 DEF Rounded
  <2> QED
    BY <1>1, <2>1, <2>2
<1> QED
  BY <1>5, <1>7, <1>8 DEF base

(* A delay is no longer than the next one would be without its jitter.     *)
WaitsGrow == policy.jitter = 0 /\ waits # <<>> => waits[Len(waits)] <= BaseBackoff(i, policy)

WalkInv ==
    /\ at = "asked" => calls = <<>> /\ waits = <<>>
    /\ policy \in Policy /\ i \in Nat \ {0}
    /\ calls \in Seq(Answer) /\ waits \in Seq(Int)
    /\ FallbackContract /\ WaitsBounded /\ WaitsGrow

LEMMA WalkInitInv == ASSUME PlanInit PROVE WalkInv
<1>1. DefaultPolicy \in Policy
  BY RetryAssumption DEF DefaultPolicy, Policy
<1> QED
  BY <1>1 DEF PlanInit, WalkInv, FallbackContract, WaitsBounded, WaitsGrow

LEMMA WalkStepInv == ASSUME WalkInv, [PlanNext]_planVars PROVE WalkInv'
<1>1. CASE UNCHANGED planVars
  BY <1>1 DEF planVars, WalkInv, FallbackContract, WaitsBounded, WaitsGrow
<1>2. CASE Decide
  <2>1. /\ calls' = <<>> /\ waits' = <<>> /\ i' = i /\ at' # "asked"
        /\ policy' \in Policies \/ policy' = policy
    BY <1>2 DEF Decide, WalkInv
  <2> QED
    BY <2>1, PlanningAssumption DEF WalkInv, FallbackContract, WaitsBounded, WaitsGrow
<1>3. CASE Gated
  <2>1. /\ at = "walking" /\ at' = at /\ policy' = policy /\ calls' = calls /\ waits' = waits
        /\ i' = i + 1
    BY <1>3 DEF Gated, Walking
  <2>2. BaseBackoff(i, policy) \in Nat /\ BaseBackoff(i, policy) <= BaseBackoff(i + 1, policy)
        /\ BaseBackoff(i + 1, policy) \in Nat
    <3>1. policy \in Policy /\ i \in Nat \ {0} /\ i + 1 \in Nat \ {0}
      BY DEF WalkInv
    <3> QED
      BY <3>1, BackoffGrows
  <2>3. waits # <<>> => waits[Len(waits)] \in Int
    BY DEF WalkInv
  <2>4. WaitsGrow'
    BY <2>1, <2>2, <2>3 DEF WalkInv, WaitsGrow
  <2> QED
    BY <2>1, <2>4 DEF WalkInv, FallbackContract, WaitsBounded
<1>4. CASE Exhausted
  BY <1>4 DEF Exhausted, WalkInv, FallbackContract, WaitsBounded, WaitsGrow
<1>5. ASSUME NEW a \in Answers, Answered(a) PROVE WalkInv'
  <2>1. a \in Answer
    BY PlanningAssumption
  <2> QED
    BY <1>5, <2>1 DEF Answered, Called, Walking, WalkInv, FallbackContract, WaitsBounded, WaitsGrow
<1>6. ASSUME NEW a \in Answers, Stopped(a) PROVE WalkInv'
  <2>1. a \in Answer
    BY PlanningAssumption
  <2>2. /\ at' = "stopped" /\ policy' = policy /\ waits' = waits /\ i' = i
        /\ calls' = Append(calls, a)
    BY <1>6 DEF Stopped, Called
  <2>3. calls' \in Seq(Answer) /\ calls'[Len(calls')] = a
    BY <2>1, <2>2 DEF WalkInv
  <2>4. policy.statuses = {} /\ policy.kinds = {} => ~Transient(a)
    BY <1>6, <2>1, TransientIsRetriable DEF Stopped, ShouldRetry
  <2>5. FallbackContract'
    BY <2>2, <2>3, <2>4 DEF FallbackContract
  <2> QED
    BY <2>2, <2>3, <2>5 DEF WalkInv, WaitsBounded, WaitsGrow
<1>7. ASSUME NEW a \in Answers, Retried(a) PROVE WalkInv'
  <2>1. a \in Answer
    BY PlanningAssumption
  <2>2. PICK w \in Backoffs(i, policy) : waits' = Append(waits, w)
    BY <1>7 DEF Retried
  <2>3. /\ at = "walking" /\ at' = at /\ policy' = policy /\ i' = i + 1
        /\ calls' = Append(calls, a)
    BY <1>7 DEF Retried, Called, Walking
  <2>4. calls' \in Seq(Answer) /\ calls'[Len(calls')] = a
    BY <2>1, <2>3 DEF WalkInv
  <2>5. policy.statuses = {} /\ policy.kinds = {} => Transient(a)
    BY <1>7, <2>1, TransientIsRetriable DEF Retried, ShouldRetry
  <2>6. FallbackContract'
    BY <2>3, <2>4, <2>5 DEF FallbackContract
  <2>7. /\ w \in Int /\ 10 * w <= policy.max * (10 + policy.jitter) + 5
        /\ policy.jitter = 0 => w = BaseBackoff(i, policy)
    BY BackoffBounded DEF WalkInv
  <2>8. /\ waits' \in Seq(Int) /\ Len(waits') = Len(waits) + 1 /\ waits'[Len(waits')] = w
        /\ \A n \in 1..Len(waits) : waits'[n] = waits[n] /\ waits[n] \in Int
        /\ Len(waits) \in Nat
    BY <2>2, <2>7 DEF WalkInv
  <2>9. BaseBackoff(i, policy) <= BaseBackoff(i + 1, policy)
    BY BackoffGrows DEF WalkInv
  <2>10. WaitsGrow'
    BY <2>3, <2>7, <2>8, <2>9 DEF WaitsGrow
  <2>11. \A n \in DOMAIN waits' : 10 * waits'[n] <= policy'.max * (10 + policy'.jitter) + 5
    <3> SUFFICES ASSUME NEW n \in 1..Len(waits')
                 PROVE  10 * waits'[n] <= policy.max * (10 + policy.jitter) + 5
      BY <2>3, <2>8
    <3>1. CASE n = Len(waits')
      BY <2>7, <2>8, <3>1
    <3>2. CASE n # Len(waits')
      <4>1. n \in 1..Len(waits) /\ waits'[n] = waits[n]
        BY <2>8, <3>2
      <4> QED
        BY <4>1 DEF WalkInv, WaitsBounded
    <3> QED
      BY <3>1, <3>2
  <2>12. policy'.jitter = 0 => \A n \in 1..(Len(waits') - 1) : waits'[n] <= waits'[n + 1]
    <3> SUFFICES ASSUME policy.jitter = 0, NEW n \in 1..Len(waits)
                 PROVE  waits'[n] <= waits'[n + 1]
      BY <2>3, <2>8
    <3>1. CASE n = Len(waits)
      <4>1. waits # <<>> /\ waits'[n] = waits[Len(waits)] /\ waits'[n + 1] = w
        BY <2>8, <3>1
      <4> QED
        BY <2>7, <4>1 DEF WalkInv, WaitsGrow
    <3>2. CASE n # Len(waits)
      <4>1. n \in 1..(Len(waits) - 1) /\ n + 1 \in 1..Len(waits)
        BY <2>8, <3>2
      <4> QED
        BY <2>8, <4>1 DEF WalkInv, WaitsBounded
    <3> QED
      BY <3>1, <3>2
  <2> QED
    BY <2>3, <2>4, <2>6, <2>8, <2>10, <2>11, <2>12 DEF WalkInv, WaitsBounded
<1> QED
  BY <1>1, <1>2, <1>3, <1>4, <1>5, <1>6, <1>7 DEF PlanNext

(* The walk goes on when it should and stops when it should, and waits no  *)
(* longer than its policy allows: whatever the pool, the policy and the    *)
(* answers (RouteExecutorService.execute, shouldRetry, computeBackoff).    *)
THEOREM WalksInOrder == PlanSpec => []WalkInOrder
<1>1. WalkInv => WalkInOrder
  BY DEF WalkInv, WalkInOrder
<1> QED
  BY <1>1, WalkInitInv, WalkStepInv, PTL DEF PlanSpec

-----------------------------------------------------------------------------
(* What a model is judged by.                                              *)
(*                                                                         *)
(* The scores.  A column alone does not tell why it is where it is: the    *)
(* counters behind the stability must have been moved by a sample of their *)
(* kind too, and so must every copy that a recorder has read and not yet   *)
(* written back.                                                           *)
Score == [ok : Nat, bad : Nat, availability : 0..100, stability : 0..100, latency : 0..100,
          rateLimit : 0..100]

HasSeen(sample) == IF sample.ok THEN "good" \in had ELSE "bad" \in had

(* A column that is no better and no worse than what has been seen, and a  *)
(* sample that carries a column no further.                                *)
Told(v) == v \in 0..100 /\ (v > 50 => "good" \in had) /\ (v < 50 => "bad" \in had)
Tells(v) == v \in 0..100 /\ ("good" \notin had => v = 0) /\ ("bad" \notin had => v = 100)

EarnedScore(x) ==
    /\ x \in Score
    /\ x.ok > 0 => "good" \in had
    /\ x.bad > 0 => "bad" \in had
    /\ Told(x.availability) /\ Told(x.stability) /\ Told(x.rateLimit)

ScoreInv ==
    /\ EarnedScore(row)
    /\ rec \in [Recorder -> [busy : BOOLEAN, read : Score, sample : Sample \cup {NoSample}]]
    /\ \A r \in Recorder :
          EarnedScore(rec[r].read) /\ (rec[r].busy => rec[r].sample \in Sample /\ HasSeen(rec[r].sample))

(* The rows.  A row that is held against a model is one of a request that  *)
(* nobody answered; the rest says how far each request is with its row.    *)
LogRow == [model : Candidate \cup {Nobody}, ok : BOOLEAN, kind : BOOLEAN]
Request == [at : {"idle", "executes", "persists", "finishes"}, row : Nat, attempts : Attempts]

RowsType ==
    /\ logRows \in Seq(LogRow)
    /\ answeredBy \in Seq(Candidate \cup {Nobody})
    /\ Len(answeredBy) = Len(logRows)
    /\ client \in [Client -> Request]

Active(q) == client[q].at # "idle"

RowsApart ==
    \A q \in Client :
        Active(q) => /\ client[q].row \in 1..Len(logRows)
                     /\ \A p \in Client : p # q /\ Active(p) => client[p].row # client[q].row

StageOf(q) ==
    LET n == client[q].row IN
    /\ client[q].at = "executes" => logRows[n].model = Nobody /\ answeredBy[n] = Nobody
    /\ client[q].at \in {"executes", "persists"} => ~logRows[n].kind /\ logRows[n].model = Nobody
    /\ client[q].at = "persists" /\ answeredBy[n] # Nobody =>
          client[q].attempts # <<>> /\ Last(client[q].attempts).did = "succeeded"
    /\ client[q].at = "finishes" /\ answeredBy[n] # Nobody => ~logRows[n].kind

FailuresUnanswered ==
    \A n \in 1..Len(logRows) :
        logRows[n].model # Nobody /\ IsFailure(logRows[n]) => answeredBy[n] = Nobody

BlacklistInv ==
    /\ RowsType /\ RowsApart /\ FailuresUnanswered
    /\ \A q \in Client : StageOf(q)

(* One column, moved toward a sample.                                      *)
LEMMA ColumnEarned ==
    ASSUME NEW old, Told(old), NEW v, Tells(v), NEW alpha \in {1, 2}
    PROVE  Told(Ewma(old, v, alpha))
<1>1. CASE alpha = 1
  <2>1. Ewma(old, v, alpha) = (old * 9 + v) \div 10
    BY <1>1 DEF Ewma, Told, Tells
  <2> QED
    BY <2>1 DEF Told, Tells
<1>2. CASE alpha = 2
  <2>1. Ewma(old, v, alpha) = (old * 8 + v * 2) \div 10
    BY <1>2 DEF Ewma, Told, Tells
  <2> QED
    BY <2>1 DEF Told, Tells
<1> QED
  BY <1>1, <1>2

(* The share of the successes.                                             *)
LEMMA Share ==
    ASSUME NEW good \in Nat, NEW of \in Nat, of > 0, good <= of
    PROVE  /\ (100 * good) \div of \in 0..100
           /\ good = 0 => (100 * good) \div of = 0
           /\ good = of => (100 * good) \div of = 100
<1>1. 100 * good <= 100 * of
  OBVIOUS
<1>2. (100 * good) \div of \in Nat
  OBVIOUS
<1>3. (100 * good) \div of <= 100
  BY <1>1
<1> QED
  BY <1>2, <1>3

LEMMA SampleType ==
    ASSUME NEW s \in Sample PROVE (s.ok = TRUE \/ s.ok = FALSE) /\ s.seconds \in 0..60
<1>1. s.ok = TRUE \/ s.ok = FALSE
  BY DEF Sample
<1>2. s.seconds \in 0..60
  BY ScoresAssumption DEF Sample
<1> QED
  BY <1>1, <1>2

LEMMA AfterSampleEarned ==
    ASSUME NEW x, EarnedScore(x), NEW s \in Sample, HasSeen(s)
    PROVE  EarnedScore(AfterSample(x, s))
<1> DEFINE ok == x.ok + (IF s.ok THEN 1 ELSE 0)
           bad == x.bad + (IF s.ok THEN 0 ELSE 1)
           total == IF ok + bad = 0 THEN 1 ELSE ok + bad
           y == AfterSample(x, s)
           late == Clamp(100 - (100 * s.seconds) \div 60, 0, 100)
<1>1. (s.ok = TRUE \/ s.ok = FALSE) /\ s.seconds \in 0..60
  BY SampleType
<1>2. x.ok \in Nat /\ x.bad \in Nat
  BY DEF EarnedScore, Score, Told
<1>3. ok \in Nat /\ bad \in Nat /\ total = ok + bad /\ total > 0 /\ ok <= total
  BY <1>1, <1>2
<1>4. (ok > 0 => "good" \in had) /\ (bad > 0 => "bad" \in had)
  BY <1>1, <1>2 DEF EarnedScore, HasSeen
<1> HIDE DEF ok, bad, total
<1>5. (100 * ok) \div total \in 0..100
      /\ (ok = 0 => (100 * ok) \div total = 0) /\ (bad = 0 => (100 * ok) \div total = 100)
  BY <1>3, Share
<1>6. late \in 0..100
  BY <1>1 DEF Clamp
<1> HIDE DEF late
<1>7. y = [ok |-> ok, bad |-> bad,
           availability |-> Ewma(x.availability, IF s.ok THEN 100 ELSE 0, 1),
           stability |-> Ewma(x.stability, (100 * ok) \div total, 2),
           latency |-> Ewma(x.latency, late, 2),
           rateLimit |-> IF s.kind = "rate_limited" THEN Ewma(x.rateLimit, 0, 2)
                         ELSE IF s.ok THEN Ewma(x.rateLimit, 100, 2)
                         ELSE x.rateLimit]
  BY DEF AfterSample, ok, bad, total, late
<1> HIDE DEF y
<1>8. x.availability \in 0..100 /\ x.stability \in 0..100 /\ x.latency \in 0..100
      /\ x.rateLimit \in 0..100
  BY DEF EarnedScore, Score, Told
<1>9. y.ok = ok /\ y.bad = bad /\ y.latency \in 0..100
  BY <1>6, <1>7, <1>8, SMTT(30) DEF Ewma
<1>10. Told(x.availability) /\ Told(x.stability) /\ Told(x.rateLimit)
  BY DEF EarnedScore
<1>11. /\ s.ok => Tells(100)
       /\ ~s.ok => Tells(0)
       /\ Tells((100 * ok) \div total)
  <2>1. 100 \in 0..100 /\ 0 \in 0..100
    OBVIOUS
  <2>2. s.ok => Tells(100)
    BY <2>1 DEF Tells, HasSeen
  <2>3. ~s.ok => Tells(0)
    BY <2>1 DEF Tells, HasSeen
  <2>4. ("good" \notin had => ok = 0) /\ ("bad" \notin had => bad = 0)
    BY <1>3, <1>4
  <2>5. Tells((100 * ok) \div total)
    BY <1>5, <2>4 DEF Tells
  <2> QED
    BY <2>2, <2>3, <2>5
<1>12. Told(y.availability) /\ Told(y.stability) /\ Told(y.rateLimit)
  <2>1. y.stability = Ewma(x.stability, (100 * ok) \div total, 2)
    BY <1>7
  <2>2. Told(y.stability)
    BY <1>10, <1>11, <2>1, ColumnEarned
  <2>3. CASE s.ok
    <3>1. s.kind = "none"
      BY <2>3 DEF Sample
    <3>2. /\ y.availability = Ewma(x.availability, 100, 1)
          /\ y.rateLimit = Ewma(x.rateLimit, 100, 2)
      BY <1>7, <2>3, <3>1
    <3> QED
      BY <1>10, <1>11, <2>2, <2>3, <3>2, ColumnEarned
  <2>4. CASE ~s.ok
    <3>1. /\ y.availability = Ewma(x.availability, 0, 1)
          /\ y.rateLimit = Ewma(x.rateLimit, 0, 2) \/ y.rateLimit = x.rateLimit
      BY <1>7, <2>4
    <3> QED
      BY <1>10, <1>11, <2>2, <2>4, <3>1, ColumnEarned
  <2> QED
    BY <2>3, <2>4
<1>13. y \in Score
  BY <1>3, <1>7, <1>9, <1>12 DEF Score, Told
<1> QED
  BY <1>4, <1>9, <1>12, <1>13 DEF EarnedScore, y

LEMMA ScoreInitInv == ASSUME ScoreInit PROVE ScoreInv
<1>1. EarnedScore(Seed)
  BY DEF EarnedScore, Told, Score, Seed
<1>2. Unused \in [busy : BOOLEAN, read : Score, sample : Sample \cup {NoSample}]
  BY <1>1 DEF Unused, EarnedScore
<1> QED
  BY <1>1, <1>2 DEF ScoreInit, ScoreInv, Unused

LEMMA ScoreStepInv == ASSUME ScoreInv, [ScoreNext]_scoreVars PROVE ScoreInv'
<1>1. CASE UNCHANGED scoreVars
  BY <1>1, ZenonT(30) DEF ScoreInv, scoreVars, EarnedScore, Told, HasSeen
<1>2. ASSUME NEW r \in Recorder, SampleRead(r) PROVE ScoreInv'
  <2>1. PICK s \in Sample :
          /\ rec' = [rec EXCEPT ![r] = [busy |-> TRUE, read |-> row, sample |-> s]]
          /\ had' = had \cup {IF s.ok THEN "good" ELSE "bad"}
    BY <1>2 DEF SampleRead
  <2>2. had \subseteq had' /\ HasSeen(s)' /\ row' = row
    BY <1>2, <2>1 DEF SampleRead, HasSeen
  <2>3. EarnedScore(row)'
    BY <2>2 DEF ScoreInv, EarnedScore, Told
  <2>4. rec' \in [Recorder -> [busy : BOOLEAN, read : Score, sample : Sample \cup {NoSample}]]
    BY <2>1 DEF ScoreInv, EarnedScore
  <2>5. ASSUME NEW p \in Recorder
        PROVE  EarnedScore(rec[p].read)'
               /\ (rec'[p].busy => rec'[p].sample \in Sample /\ HasSeen(rec[p].sample)')
    <3>1. CASE p = r
      <4>1. rec'[p] = [busy |-> TRUE, read |-> row, sample |-> s]
        BY <2>1, <3>1 DEF ScoreInv
      <4> QED
        BY <2>2, <2>3, <4>1 DEF HasSeen, EarnedScore, Told
    <3>2. CASE p # r
      <4>1. rec'[p] = rec[p]
        BY <2>1, <3>2 DEF ScoreInv
      <4> QED
        BY <2>2, <4>1, ZenonT(30) DEF ScoreInv, EarnedScore, Told, HasSeen
    <3> QED
      BY <3>1, <3>2
  <2> QED
    BY <2>3, <2>4, <2>5 DEF ScoreInv
<1>3. ASSUME NEW r \in Recorder, SampleWrite(r) PROVE ScoreInv'
  <2>1. had' = had /\ row' = AfterSample(rec[r].read, rec[r].sample)
        /\ rec' = [rec EXCEPT ![r] = Unused]
    BY <1>3 DEF SampleWrite
  <2>2. EarnedScore(row)'
    <3> DEFINE y == AfterSample(rec[r].read, rec[r].sample)
    <3>1. EarnedScore(rec[r].read) /\ rec[r].sample \in Sample /\ HasSeen(rec[r].sample)
      BY <1>3 DEF ScoreInv, SampleWrite
    <3>2. EarnedScore(y)
      BY <3>1, AfterSampleEarned
    <3>3. row' = y /\ had' = had
      BY <2>1
    <3> HIDE DEF y
    <3> QED
      BY <3>2, <3>3 DEF EarnedScore, Told
  <2>3. EarnedScore(Seed)'
    BY DEF EarnedScore, Told, Score, Seed
  <2>4. Unused \in [busy : BOOLEAN, read : Score, sample : Sample \cup {NoSample}]
    BY <2>3 DEF Unused, EarnedScore
  <2>5. rec' \in [Recorder -> [busy : BOOLEAN, read : Score, sample : Sample \cup {NoSample}]]
    BY <2>1, <2>4 DEF ScoreInv
  <2>6. ASSUME NEW p \in Recorder
        PROVE  EarnedScore(rec[p].read)'
               /\ (rec'[p].busy => rec'[p].sample \in Sample /\ HasSeen(rec[p].sample)')
    <3>1. CASE p = r
      <4>1. rec'[p] = Unused
        BY <2>1, <3>1 DEF ScoreInv
      <4> QED
        BY <2>3, <4>1 DEF Unused, EarnedScore, Told
    <3>2. CASE p # r
      <4>1. rec'[p] = rec[p]
        BY <2>1, <3>2 DEF ScoreInv
      <4> QED
        BY <2>1, <4>1, ZenonT(30) DEF ScoreInv, EarnedScore, Told, HasSeen
    <3> QED
      BY <3>1, <3>2
  <2> QED
    BY <2>2, <2>5, <2>6 DEF ScoreInv
<1> QED
  BY <1>1, <1>2, <1>3 DEF ScoreNext

LEMMA ScoreSafe == ScoreSpec => []ScoreIsEarned
<1>1. ScoreInv => ScoreIsEarned
  BY DEF ScoreInv, EarnedScore, Told, ScoreIsEarned
<1> QED
  BY <1>1, ScoreInitInv, ScoreStepInv, PTL DEF ScoreSpec

AttemptOf == [model : Candidate, did : {"succeeded", "lost", "failed", "skipped"}]

LEMMA AttemptsAre ==
    ASSUME NEW s \in Attempts
    PROVE  s \in Seq(AttemptOf) /\ (s # <<>> => Len(s) \in DOMAIN s /\ Last(s) = s[Len(s)])
<1>1. s \in SeqOf(AttemptOf, 2)
  BY DEF Attempts, AttemptOf
<1>2. PICK m \in 0..2 : s \in [1..m -> AttemptOf]
  BY <1>1 DEF SeqOf
<1>3. s \in Seq(AttemptOf)
  BY <1>2
<1>4. Last(s) = s[Len(s)]
  BY DEF Last
<1> QED
  BY <1>3, <1>4

(* What execute names in the row.                                          *)
LEMMA PersistedType ==
    ASSUME NEW s \in Attempts, s # <<>>
    PROVE  /\ Persisted(s) \in LogRow
           /\ Last(s).did = "succeeded" => Persisted(s).ok /\ ~Persisted(s).kind
<1> DEFINE good == {n \in DOMAIN s : Reported(s[n])}
           who == IF good # {} THEN s[Min(good)].model ELSE Last(s).model
<1>1. s \in Seq(AttemptOf) /\ Len(s) \in DOMAIN s /\ Last(s) = s[Len(s)]
  BY AttemptsAre
<1>2. good \in SUBSET Nat
  BY <1>1
<1>3. ASSUME NEW n \in DOMAIN s PROVE s[n].model \in Candidate
  <2>1. s[n] \in AttemptOf
    BY <1>1, <1>3
  <2> QED
    BY <2>1 DEF AttemptOf
<1>4. who \in Candidate
  <2>1. CASE good # {}
    <3>1. Min(good) \in good
      BY <1>2, <2>1, MinIsMember
    <3> QED
      BY <1>3, <2>1, <3>1
  <2>2. CASE good = {}
    BY <1>1, <1>3, <2>2
  <2> QED
    BY <2>1, <2>2
<1>5. Persisted(s) = [model |-> who, ok |-> good # {}, kind |-> good = {}]
  BY DEF Persisted
<1>6. Last(s).did = "succeeded" => good # {}
  BY <1>1 DEF Reported
<1> HIDE DEF good, who
<1>7. CASE good # {}
  <2>1. Persisted(s) = [model |-> who, ok |-> TRUE, kind |-> FALSE]
    BY <1>5, <1>7
  <2> QED
    BY <1>4, <2>1 DEF LogRow
<1>8. CASE good = {}
  <2>1. Persisted(s) = [model |-> who, ok |-> FALSE, kind |-> TRUE]
    BY <1>5, <1>8
  <2> QED
    BY <1>4, <1>6, <1>8, <2>1 DEF LogRow
<1> QED
  BY <1>7, <1>8

LEMMA NoRequestType == NoRequest \in Request
<1>1. <<>> \in [1..0 -> [model : Candidate, did : {"succeeded", "lost", "failed", "skipped"}]]
  OBVIOUS
<1>2. <<>> \in Attempts
  BY <1>1 DEF Attempts, SeqOf
<1> QED
  BY <1>2 DEF NoRequest, Request

LEMMA BlacklistInitInv == ASSUME BlacklistInit PROVE BlacklistInv
BY NoRequestType DEF BlacklistInit, BlacklistInv, RowsType, RowsApart, FailuresUnanswered,
   StageOf, Active, NoRequest

(* A client at rest asks nothing of its row.                               *)
LEMMA StageAtRest == ASSUME NEW q, client[q].at = "idle" PROVE StageOf(q)
BY DEF StageOf

LEMMA LogStartInv == ASSUME BlacklistInv, NEW q \in Client, LogStart(q) PROVE BlacklistInv'
<1> DEFINE fresh == [model |-> Nobody, ok |-> FALSE, kind |-> FALSE]
           n == Len(logRows) + 1
<1>1. /\ client[q].at = "idle"
      /\ logRows' = Append(logRows, fresh) /\ answeredBy' = Append(answeredBy, Nobody)
      /\ client' = [client EXCEPT ![q] = [NoRequest EXCEPT !.at = "executes", !.row = Len(logRows')]]
  BY DEF LogStart
<1>2. RowsType
  BY DEF BlacklistInv
<1>3. /\ logRows' \in Seq(LogRow) /\ answeredBy' \in Seq(Candidate \cup {Nobody})
      /\ Len(logRows') = n /\ Len(answeredBy') = n /\ n \in Nat
  <2>1. fresh \in LogRow
    BY DEF LogRow
  <2> QED
    BY <1>1, <1>2, <2>1 DEF RowsType
<1>4. [NoRequest EXCEPT !.at = "executes", !.row = n] \in Request
  BY <1>3, NoRequestType DEF Request
<1>5. /\ client' \in [Client -> Request]
      /\ client'[q].at = "executes" /\ client'[q].row = n
      /\ \A p \in Client : p # q => client'[p] = client[p]
  BY <1>1, <1>2, <1>3, <1>4 DEF RowsType, NoRequest
<1>6. /\ \A k \in 1..Len(logRows) : logRows'[k] = logRows[k] /\ answeredBy'[k] = answeredBy[k]
      /\ logRows'[n] = fresh /\ answeredBy'[n] = Nobody
  BY <1>1, <1>2 DEF RowsType
<1>7. RowsType'
  BY <1>3, <1>5 DEF RowsType
<1>8. \A p \in Client : p # q /\ client[p].at # "idle" => client[p].row \in 1..Len(logRows)
  BY DEF BlacklistInv, RowsApart, Active
<1>9. RowsApart'
  <2>1. ASSUME NEW p \in Client, client'[p].at # "idle"
        PROVE  client'[p].row \in 1..n /\ (p # q => client'[p].row < n)
    BY <1>2, <1>3, <1>5, <1>8, <2>1 DEF RowsType
  <2>2. ASSUME NEW p \in Client, client'[p].at # "idle",
               NEW o \in Client, client'[o].at # "idle", p # o
        PROVE  client'[p].row # client'[o].row
    <3>1. CASE p = q
      BY <1>3, <1>5, <2>1, <2>2, <3>1
    <3>2. CASE o = q
      BY <1>3, <1>5, <2>1, <2>2, <3>2
    <3>3. CASE p # q /\ o # q
      BY <1>5, <2>2, <3>3 DEF BlacklistInv, RowsApart, Active
    <3> QED
      BY <3>1, <3>2, <3>3
  <2> QED
    BY <1>3, <2>1, <2>2 DEF RowsApart, Active
<1>10. FailuresUnanswered'
  <2>1. ASSUME NEW k \in 1..n PROVE logRows'[k].model # Nobody /\ IsFailure(logRows'[k])
                                    => answeredBy'[k] = Nobody
    <3>1. CASE k = n
      BY <1>6, <3>1
    <3>2. CASE k \in 1..Len(logRows)
      BY <1>6, <3>2 DEF BlacklistInv, FailuresUnanswered, IsFailure
    <3> QED
      BY <1>3, <2>1, <3>1, <3>2
  <2> QED
    BY <1>3, <2>1 DEF FailuresUnanswered, IsFailure
<1>11. ASSUME NEW p \in Client PROVE StageOf(p)'
  <2>1. CASE p = q
    BY <1>5, <1>6, <2>1 DEF StageOf
  <2>2. CASE p # q /\ client[p].at = "idle"
    BY <1>5, <2>2 DEF StageOf
  <2>3. CASE p # q /\ client[p].at # "idle"
    BY <1>5, <1>6, <1>8, <2>3 DEF StageOf, BlacklistInv
  <2> QED
    BY <2>1, <2>2, <2>3
<1> QED
  BY <1>7, <1>9, <1>10, <1>11 DEF BlacklistInv

(* A step of q, which is at work on its own row alone: what is to be shown *)
(* of the row and of q gives the rest.                                     *)
LEMMA OwnRow ==
    ASSUME BlacklistInv, NEW q \in Client, client[q].at # "idle",
           NEW c \in Request, c.at # "idle" => c.row = client[q].row,
           client' = [client EXCEPT ![q] = c],
           NEW r \in LogRow, NEW by \in Candidate \cup {Nobody},
           logRows' = [logRows EXCEPT ![client[q].row] = r],
           answeredBy' = [answeredBy EXCEPT ![client[q].row] = by],
           r.model # Nobody /\ IsFailure(r) => by = Nobody,
           StageOf(q)'
    PROVE  BlacklistInv'
<1> DEFINE n == client[q].row
<1>1. RowsType /\ n \in 1..Len(logRows) /\ n \in 1..Len(answeredBy)
  BY DEF BlacklistInv, RowsApart, Active, RowsType
<1>2. /\ logRows' \in Seq(LogRow) /\ Len(logRows') = Len(logRows) /\ logRows'[n] = r
      /\ \A k \in 1..Len(logRows) : k # n => logRows'[k] = logRows[k]
  BY <1>1 DEF RowsType
<1>3. /\ answeredBy' \in Seq(Candidate \cup {Nobody}) /\ Len(answeredBy') = Len(answeredBy)
      /\ answeredBy'[n] = by
      /\ \A k \in 1..Len(logRows) : k # n => answeredBy'[k] = answeredBy[k]
  BY <1>1 DEF RowsType
<1>4. /\ client' \in [Client -> Request] /\ client'[q] = c
      /\ \A p \in Client : p # q => client'[p] = client[p]
  BY <1>1 DEF RowsType
<1>5. RowsType'
  BY <1>1, <1>2, <1>3, <1>4 DEF RowsType
<1>6. \A p \in Client :
        client'[p].at # "idle" => client[p].at # "idle" /\ client'[p].row = client[p].row
  BY <1>4
<1>7. RowsApart'
  BY <1>2, <1>6 DEF BlacklistInv, RowsApart, Active
<1>8. FailuresUnanswered'
  <2> SUFFICES ASSUME NEW k \in 1..Len(logRows),
                      logRows'[k].model # Nobody, IsFailure(logRows'[k])
               PROVE  answeredBy'[k] = Nobody
    BY <1>2 DEF FailuresUnanswered, IsFailure
  <2>1. CASE k = n
    BY <1>2, <1>3, <2>1
  <2>2. CASE k # n
    BY <1>2, <1>3, <2>2 DEF BlacklistInv, FailuresUnanswered
  <2> QED
    BY <2>1, <2>2
<1>9. ASSUME NEW p \in Client PROVE StageOf(p)'
  <2>1. CASE p # q /\ client[p].at = "idle"
    BY <1>4, <2>1 DEF StageOf
  <2>2. CASE p # q /\ client[p].at # "idle"
    <3>1. client[p].row \in 1..Len(logRows) /\ client[p].row # n
      BY <2>2 DEF BlacklistInv, RowsApart, Active
    <3> QED
      BY <1>2, <1>3, <1>4, <2>2, <3>1 DEF StageOf, BlacklistInv
  <2> QED
    BY <2>1, <2>2
<1> QED
  BY <1>5, <1>7, <1>8, <1>9 DEF BlacklistInv

(* The row of q, and what is in it.                                        *)
LEMMA RowOf ==
    ASSUME BlacklistInv, NEW q \in Client, client[q].at # "idle"
    PROVE  LET n == client[q].row IN
           /\ n \in 1..Len(logRows) /\ n \in 1..Len(answeredBy)
           /\ logRows[n] \in LogRow /\ answeredBy[n] \in Candidate \cup {Nobody}
           /\ logRows = [logRows EXCEPT ![n] = logRows[n]]
           /\ answeredBy = [answeredBy EXCEPT ![n] = answeredBy[n]]
           /\ client[q] \in Request
           /\ StageOf(q)
           /\ logRows[n].model # Nobody /\ IsFailure(logRows[n]) => answeredBy[n] = Nobody
<1>1. client[q].row \in 1..Len(logRows)
  BY DEF BlacklistInv, RowsApart, Active
<1> QED
  BY <1>1 DEF BlacklistInv, RowsType, FailuresUnanswered

LEMMA ExecutesInv == ASSUME BlacklistInv, NEW q \in Client, Executes(q) PROVE BlacklistInv'
<1> DEFINE n == client[q].row
<1>1. PICK s \in Attempts :
        /\ client' = [client EXCEPT ![q].at = "persists", ![q].attempts = s]
        /\ answeredBy' = IF s # <<>> /\ Last(s).did = "succeeded"
                         THEN [answeredBy EXCEPT ![n] = Last(s).model] ELSE answeredBy
  BY DEF Executes
<1> DEFINE c == [client[q] EXCEPT !.at = "persists", !.attempts = s]
           by == IF s # <<>> /\ Last(s).did = "succeeded" THEN Last(s).model ELSE Nobody
<1>2. client[q].at = "executes" /\ logRows' = logRows
  BY DEF Executes
<1>3. /\ n \in 1..Len(logRows) /\ n \in 1..Len(answeredBy)
      /\ logRows[n] \in LogRow /\ client[q] \in Request /\ StageOf(q)
      /\ logRows = [logRows EXCEPT ![n] = logRows[n]]
      /\ answeredBy = [answeredBy EXCEPT ![n] = answeredBy[n]]
  BY <1>2, RowOf
<1>4. answeredBy[n] = Nobody /\ logRows[n].model = Nobody /\ ~logRows[n].kind
  BY <1>2, <1>3 DEF StageOf
<1>5. by \in Candidate \cup {Nobody}
  <2>1. ASSUME s # <<>> PROVE Last(s).model \in Candidate
    <3>1. Last(s) \in AttemptOf
      BY <2>1, AttemptsAre
    <3> QED
      BY <3>1 DEF AttemptOf
  <2> QED
    BY <2>1
<1>6. answeredBy' = [answeredBy EXCEPT ![n] = by]
  BY <1>1, <1>3, <1>4
<1>7. /\ c \in Request /\ c.row = n /\ c.at = "persists" /\ c.attempts = s
      /\ client' = [client EXCEPT ![q] = c]
  BY <1>1, <1>3 DEF Request
<1>8. client'[q] = c
  BY <1>7 DEF BlacklistInv, RowsType
<1>9. answeredBy'[n] = by
  BY <1>3, <1>6 DEF BlacklistInv, RowsType
<1>10. by # Nobody => s # <<>> /\ Last(s).did = "succeeded"
  OBVIOUS
<1> HIDE DEF by, c
<1>11. StageOf(q)'
  BY <1>2, <1>4, <1>7, <1>8, <1>9, <1>10 DEF StageOf
<1> QED
  BY <1>2, <1>3, <1>4, <1>5, <1>6, <1>7, <1>11, OwnRow

LEMMA PersistsInv == ASSUME BlacklistInv, NEW q \in Client, Persists(q) PROVE BlacklistInv'
<1> DEFINE n == client[q].row
           s == client[q].attempts
           c == [client[q] EXCEPT !.at = "finishes", !.attempts = <<>>]
<1>1. /\ client[q].at = "persists"
      /\ client' = [client EXCEPT ![q].at = "finishes", ![q].attempts = <<>>]
      /\ answeredBy' = answeredBy
  BY DEF Persists
<1>2. /\ n \in 1..Len(logRows) /\ n \in 1..Len(answeredBy)
      /\ logRows[n] \in LogRow /\ answeredBy[n] \in Candidate \cup {Nobody}
      /\ client[q] \in Request /\ StageOf(q)
      /\ logRows = [logRows EXCEPT ![n] = logRows[n]]
      /\ answeredBy = [answeredBy EXCEPT ![n] = answeredBy[n]]
      /\ logRows[n].model # Nobody /\ IsFailure(logRows[n]) => answeredBy[n] = Nobody
  BY <1>1, RowOf
<1>3. <<>> \in Attempts
  BY NoRequestType DEF NoRequest, Request
<1>4. /\ c \in Request /\ c.row = n /\ c.at = "finishes" /\ s \in Attempts
      /\ client' = [client EXCEPT ![q] = c]
  BY <1>1, <1>2, <1>3 DEF Request
<1>5. client'[q] = c
  BY <1>4 DEF BlacklistInv, RowsType
<1> HIDE DEF c
<1>6. /\ ~logRows[n].kind
      /\ answeredBy[n] # Nobody => s # <<>> /\ Last(s).did = "succeeded"
  BY <1>1, <1>2 DEF StageOf
<1>7. CASE logRows' = logRows
  <2>1. StageOf(q)'
    BY <1>1, <1>4, <1>5, <1>6, <1>7 DEF StageOf
  <2> QED
    BY <1>1, <1>2, <1>4, <1>7, <2>1, OwnRow
<1>8. CASE s # <<>> /\ logRows' = [logRows EXCEPT ![n] = Persisted(s)]
  <2>1. Persisted(s) \in LogRow
        /\ (Last(s).did = "succeeded" => Persisted(s).ok /\ ~Persisted(s).kind)
    BY <1>4, <1>8, PersistedType
  <2>2. logRows'[n] = Persisted(s)
    BY <1>2, <1>8 DEF BlacklistInv, RowsType
  <2>3. StageOf(q)'
    BY <1>1, <1>4, <1>5, <1>6, <2>1, <2>2 DEF StageOf
  <2>4. IsFailure(Persisted(s)) => answeredBy[n] = Nobody
    BY <1>6, <2>1 DEF IsFailure
  <2> QED
    BY <1>1, <1>2, <1>4, <1>8, <2>1, <2>3, <2>4, OwnRow
<1>9. \/ logRows' = logRows
      \/ s # <<>> /\ logRows' = [logRows EXCEPT ![n] = Persisted(s)]
  <2>1. logRows' = (IF s = <<>> THEN logRows ELSE [logRows EXCEPT ![n] = Persisted(s)])
        \/ UNCHANGED logRows
    BY Zenon DEF Persists
  <2> QED
    BY <2>1, Zenon
<1> QED
  BY <1>7, <1>8, <1>9

LEMMA FinishesInv == ASSUME BlacklistInv, NEW q \in Client, Finishes(q) PROVE BlacklistInv'
<1> DEFINE n == client[q].row
           by == answeredBy[n]
           r == Finished(logRows[n], by)
<1>1. /\ client[q].at = "finishes"
      /\ client' = [client EXCEPT ![q] = NoRequest]
      /\ answeredBy' = answeredBy
      /\ logRows' = logRows \/ logRows' = [logRows EXCEPT ![n] = Finished(@, by)]
  BY DEF Finishes
<1>2. /\ n \in 1..Len(logRows) /\ n \in 1..Len(answeredBy)
      /\ logRows[n] \in LogRow /\ by \in Candidate \cup {Nobody}
      /\ client[q] \in Request /\ StageOf(q)
  BY <1>1, RowOf
<1>3. NoRequest \in Request /\ NoRequest.at = "idle" /\ client'[q] = NoRequest
  BY <1>1, NoRequestType DEF NoRequest, BlacklistInv, RowsType
<1>4. StageOf(q)'
  BY <1>3 DEF StageOf
<1>5. CASE logRows' = logRows
  BY <1>1, <1>2, <1>3, <1>4, <1>5, RowOf, OwnRow
<1>6. CASE logRows' = [logRows EXCEPT ![n] = r]
  <2>1. r \in LogRow
    BY <1>2 DEF Finished, LogRow
  <2>2. r.model # Nobody /\ IsFailure(r) => by = Nobody
    <3>1. by # Nobody => ~logRows[n].kind
      BY <1>1, <1>2 DEF StageOf
    <3> QED
      BY <1>2, <3>1 DEF Finished, IsFailure, LogRow
  <2>3. answeredBy' = [answeredBy EXCEPT ![n] = by]
    BY <1>1, RowOf
  <2> QED
    BY <1>1, <1>2, <1>3, <1>4, <1>6, <2>1, <2>2, <2>3, OwnRow
<1> QED
  BY <1>1, <1>5, <1>6

LEMMA BlacklistStepInv ==
    ASSUME BlacklistInv, [BlacklistNext]_blacklistVars PROVE BlacklistInv'
<1>1. CASE UNCHANGED blacklistVars
  BY <1>1 DEF blacklistVars, BlacklistInv, RowsType, RowsApart, FailuresUnanswered, StageOf, Active,
     IsFailure
<1>2. CASE CutOff
  <2>1. logRows' = logRows /\ answeredBy' = answeredBy /\ client' = [q \in Client |-> NoRequest]
    BY <1>2 DEF CutOff
  <2>2. \A q \in Client : client'[q].at = "idle"
    BY <2>1 DEF NoRequest
  <2>3. RowsType'
    BY <2>1, NoRequestType DEF BlacklistInv, RowsType
  <2>4. RowsApart' /\ \A q \in Client : StageOf(q)'
    BY <2>2 DEF RowsApart, Active, StageOf
  <2>5. FailuresUnanswered'
    BY <2>1 DEF BlacklistInv, FailuresUnanswered, IsFailure
  <2> QED
    BY <2>3, <2>4, <2>5 DEF BlacklistInv
<1> QED
  BY <1>1, <1>2, LogStartInv, ExecutesInv, PersistsInv, FinishesInv DEF BlacklistNext

(* From the rows to the verdict: the failures are among the unanswered,    *)
(* and the answered among the good.                                        *)
LEMMA EarnedFromRows == ASSUME BlacklistInv PROVE BlacklistEarned
<1> SUFFICES ASSUME NEW m \in Candidate, NEW since \in 1..Len(logRows),
                    ShouldBlacklist(LogsOf(m, since))
             PROVE  LET named == LogsOf(m, since)
                        left == {n \in named : answeredBy[n] = Nobody}
                        answered == {n \in named : answeredBy[n] = m}
                    IN \/ Cardinality({n \in left : \A k \in answered : k < n}) >= Streak
                       \/ Cardinality(named) >= Samples /\ Cardinality(left) > Cardinality(answered)
  BY DEF BlacklistEarned
<1> DEFINE named == LogsOf(m, since)
           good == {n \in named : ~IsFailure(logRows[n])}
           streak == {n \in named : \A k \in good : k < n}
           left == {n \in named : answeredBy[n] = Nobody}
           answered == {n \in named : answeredBy[n] = m}
           newer == {n \in left : \A k \in answered : k < n}
<1>1. Len(logRows) \in Nat /\ m # Nobody
  BY BlacklistAssumption DEF BlacklistInv, RowsType
<1>2. /\ IsFiniteSet(named) /\ named \subseteq Nat
      /\ \A n \in named : n \in 1..Len(logRows) /\ logRows[n].model = m
  <2>1. named \subseteq since..Len(logRows)
    BY DEF LogsOf
  <2>2. since..Len(logRows) \subseteq 1..Len(logRows)
    BY <1>1
  <2>3. IsFiniteSet(1..Len(logRows))
    BY <1>1, FS_Interval
  <2> QED
    BY <1>1, <2>1, <2>2, <2>3, FS_Subset DEF LogsOf
<1>3. \A n \in named : IsFailure(logRows[n]) => answeredBy[n] = Nobody
  BY <1>1, <1>2 DEF BlacklistInv, FailuresUnanswered
<1>4. named \ good \subseteq left /\ answered \subseteq good
  BY <1>1, <1>3
<1>5. streak \subseteq newer
  <2> SUFFICES ASSUME NEW n \in streak PROVE n \in newer
    OBVIOUS
  <2>1. n \in named /\ n \in Nat /\ n \notin good
    BY <1>2
  <2> QED
    BY <1>4, <2>1
<1>6. \/ Cardinality(streak) >= Streak
      \/ Cardinality(named) >= Samples /\ 2 * Cardinality(good) < Cardinality(named)
  BY DEF ShouldBlacklist
<1> HIDE DEF named, good
<1>7. IsFiniteSet(good) /\ IsFiniteSet(left) /\ IsFiniteSet(answered) /\ IsFiniteSet(newer)
      /\ good \subseteq named
  BY <1>2, FS_Subset DEF good
<1> HIDE DEF streak, left, answered, newer
<1>8. CASE Cardinality(streak) >= Streak
  <2>1. IsFiniteSet(streak) /\ Cardinality(streak) <= Cardinality(newer)
    BY <1>5, <1>7, FS_Subset
  <2>2. Cardinality(streak) \in Nat /\ Cardinality(newer) \in Nat /\ Streak \in Nat
    BY <1>7, <2>1, FS_CardinalityType, BlacklistAssumption
  <2> QED
    BY <1>8, <2>1, <2>2 DEF newer, left, answered, named
<1>9. CASE Cardinality(named) >= Samples /\ 2 * Cardinality(good) < Cardinality(named)
  <2>1. Cardinality(answered) <= Cardinality(good)
    BY <1>4, <1>7, FS_Subset
  <2>2. Cardinality(named \ good) = Cardinality(named) - Cardinality(good)
    <3>1. named \cap good = good
      BY <1>7
    <3> QED
      BY <1>2, <3>1, FS_Difference, ZenonT(30)
  <2>3. Cardinality(named \ good) <= Cardinality(left)
    BY <1>4, <1>7, FS_Subset
  <2>4. /\ Cardinality(answered) \in Nat /\ Cardinality(good) \in Nat
        /\ Cardinality(named) \in Nat /\ Cardinality(left) \in Nat
    BY <1>2, <1>7, FS_CardinalityType
  <2>5. Cardinality(left) > Cardinality(answered)
    BY <1>9, <2>1, <2>2, <2>3, <2>4
  <2> QED
    BY <1>9, <2>5 DEF left, answered, named
<1> QED
  BY <1>6, <1>8, <1>9

LEMMA BlacklistSafe == BlacklistSpec => []BlacklistEarned
BY BlacklistInitInv, BlacklistStepInv, EarnedFromRows, PTL DEF BlacklistSpec

(* A model is judged by its deeds: its scores move only as far as its      *)
(* samples carry them, however many attempts update the row at once, and   *)
(* it is blacklisted only for requests that it left without an answer      *)
(* (ScoreUpdaterService.recordAttempt, evaluateModelLogs).                 *)
THEOREM JudgedByItsDeeds == ScoreSpec /\ BlacklistSpec => []JudgedByDeeds
<1>1. ScoreIsEarned /\ BlacklistEarned => JudgedByDeeds
  BY DEF JudgedByDeeds
<1> QED
  BY <1>1, ScoreSafe, BlacklistSafe, PTL
=============================================================================
