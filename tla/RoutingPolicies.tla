--------------------------- MODULE RoutingPolicies --------------------------
(***************************************************************************)
(* The rows of routing_policies and the routes that write them: creation,  *)
(* activation and deletion, whose writes are transactions after reads made *)
(* outside them, and the two editors, PATCH and PUT.  Of a row only        *)
(* whether it is the default matters here.                                 *)
(***************************************************************************)
EXTENDS Naturals, FiniteSets, FiniteSetsExt

CONSTANTS
    Name,       \* names of policies: numbers, in the order of orderBy name
    Editor,     \* requests in progress at once
    MaxEdits,   \* bound: requests
    WithEditors \* whether PATCH and PUT are used

ASSUME PolicyAssumption == Name \subseteq Nat /\ MaxEdits \in Nat /\ WithEditors \in BOOLEAN

VARIABLES
    rows,    \* the policies there are
    active,  \* those with isDefault
    edit,    \* edit[e]: what request e has read and decided
    edits,   \* requests so far
    orderly  \* history: no request overlapped another or set isDefault by hand

policyVars == <<rows, active, edit, edits, orderly>>

Edit == [does : {"none", "create", "activate", "delete", "patch"}, name : Name \cup {0},
         flag : BOOLEAN]
NoEdit == [does |-> "none", name |-> 0, flag |-> FALSE]

(* The seed creates one policy, the default.                               *)
PolicyInit ==
    /\ \E n \in Name : rows = {n} /\ active = {n}
    /\ edit = [e \in Editor |-> NoEdit] /\ edits = 0 /\ orderly = TRUE

Quiet == \A e \in Editor : edit[e].does = "none"

Start(e, what, n, flag, plain) ==
    /\ edit[e].does = "none" /\ edits < MaxEdits
    /\ edit' = [edit EXCEPT ![e] = [does |-> what, name |-> n, flag |-> flag]]
    /\ edits' = edits + 1
    /\ orderly' = (orderly /\ Quiet /\ plain)

Finish(e) == edit' = [edit EXCEPT ![e] = NoEdit] /\ UNCHANGED <<edits, orderly>>

(* POST /admin/routing-policies reads the name and the count; activate is  *)
(* the body's or, without one, whether this is the first.  A first policy  *)
(* that asks not to be active leaves none.                                 *)
CreateRead(e, n) ==
    /\ n \notin rows
    /\ \E activate \in BOOLEAN : Start(e, "create", n, activate, activate \/ rows # {})
    /\ UNCHANGED <<rows, active>>

(* Its transaction; a name taken meanwhile makes it fail.                  *)
CreateWrite(e) ==
    LET n == edit[e].name IN
    /\ edit[e].does = "create"
    /\ rows' = rows \cup {n}
    /\ active' = IF n \in rows \/ ~edit[e].flag THEN active ELSE {n}
    /\ Finish(e)

(* POST .../activate; without the row the transaction is rolled back.      *)
ActivateRead(e, n) ==
    /\ n \in rows
    /\ Start(e, "activate", n, TRUE, TRUE)
    /\ UNCHANGED <<rows, active>>

ActivateWrite(e) ==
    /\ edit[e].does = "activate"
    /\ active' = IF edit[e].name \in rows THEN {edit[e].name} ELSE active
    /\ Finish(e) /\ UNCHANGED rows

(* DELETE remembers whether the policy was the default when it read it.    *)
RemoveRead(e, n) ==
    /\ n \in rows
    /\ Start(e, "delete", n, n \in active, TRUE)
    /\ UNCHANGED <<rows, active>>

(* Mutant: nobody takes over.                                              *)
RemoveWithoutFallback(e) ==
    /\ edit[e].does = "delete"
    /\ rows' = rows \ {edit[e].name}
    /\ active' = active \ {edit[e].name}
    /\ Finish(e)

RemoveWrite(e) ==
    LET n == edit[e].name
        left == rows \ {n}
    IN
    /\ edit[e].does = "delete"
    /\ rows' = left
    /\ active' = IF n \in rows /\ edit[e].flag /\ left # {}
                 THEN (active \ {n}) \cup {Min(left)} ELSE active \ {n}
    /\ Finish(e)

(* PATCH sets isDefault when the body does, and does not take it from the  *)
(* others.                                                                 *)
PatchRead(e, n) ==
    /\ WithEditors /\ n \in rows
    /\ Start(e, "patch", n, TRUE, FALSE)
    /\ UNCHANGED <<rows, active>>

PatchWrite(e) ==
    /\ edit[e].does = "patch"
    /\ active' = active \cup ({edit[e].name} \cap rows)
    /\ Finish(e) /\ UNCHANGED rows

(* PUT is one upsert.                                                      *)
Put(n) ==
    /\ WithEditors /\ edits < MaxEdits
    /\ \E isDefault \in BOOLEAN :
          active' = IF isDefault THEN active \cup {n} ELSE active \ {n}
    /\ rows' = rows \cup {n}
    /\ edits' = edits + 1 /\ orderly' = FALSE
    /\ UNCHANGED edit

PolicyNext ==
    \/ \E e \in Editor :
          \/ \E n \in Name : CreateRead(e, n) \/ ActivateRead(e, n) \/ RemoveRead(e, n)
                             \/ PatchRead(e, n)
          \/ CreateWrite(e) \/ ActivateWrite(e) \/ RemoveWrite(e) \/ PatchWrite(e)
    \/ \E n \in Name : Put(n)

PolicySpec == PolicyInit /\ [][PolicyNext]_policyVars

-----------------------------------------------------------------------------
(* One after the other, creation, activation and deletion leave exactly    *)
(* one default, and one that exists, as long as there is a policy          *)
(* (routing-policies-crud).                                                *)
OneActiveInOrder ==
    orderly /\ Quiet /\ rows # {} => \E n \in rows : active = {n}

(* The comments of routing-policies-crud say their transactions keep a     *)
(* single active policy.                                                   *)
(* The code does not keep it: the other two routes set isDefault and take  *)
(* it from nobody, and a deletion hands it on by what it read.             *)
SingleActive == Cardinality(active) <= 1
=============================================================================
