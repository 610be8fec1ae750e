--------------------------- MODULE MCModelCatalog ---------------------------
(***************************************************************************)
(* TLC instance of ModelCatalog, which keeps the models, and of PoolCache, *)
(* which keeps the pool that is built of them.  The cache is modelled with *)
(* versions of the rows, not with rows: a behaviour follows one of the two *)
(* and leaves the other at rest.                                           *)
(***************************************************************************)
EXTENDS ModelCatalog, PoolCache

CONSTANTS f1, f2

VARIABLE part

(* A model is offered free, for money, or free with other facts.           *)
Offers == {[class |-> "free", facts |-> f1], [class |-> "paid", facts |-> f1],
           [class |-> "free", facts |-> f2]}

bothVars == <<part, vars, poolVars>>

(* A cache at rest holds the current version.                              *)
CacheAtRest ==
    /\ source = 0 /\ owed = 0 /\ faults = 0
    /\ value = 0 /\ unexpired = TRUE /\ inFlight = NoLoad /\ refreshing = FALSE
    /\ load = [b \in Load |-> Idle]
    /\ reader = [r \in Reader |-> [waits |-> NoLoad, got |-> NoValue]]

BothInit ==
    /\ Init
    /\ \/ part = "catalog" /\ CacheAtRest
       \/ part = "pool" /\ CacheInit /\ upstream = [m \in Model |-> Unlisted]

InPool(A) == part = "pool" /\ A /\ UNCHANGED <<part, vars>>
InCatalog(A) == part = "catalog" /\ A /\ UNCHANGED <<part, poolVars>>

BothNext == InPool(CacheNext) \/ InCatalog(Next)

(* CacheFairSpec and FairSpec, each in its part.                           *)
BothFairSpec ==
    /\ BothInit /\ [][BothNext]_bothVars
    /\ WF_bothVars(InPool(Expire)) /\ WF_bothVars(InPool(Invalidate))
    /\ WF_bothVars(InPool(\E r \in Reader : Get(r)))
    /\ \A b \in Load : WF_bothVars(InPool(LoadStep(b)))
    /\ \A r \in Refresher : WF_bothVars(InCatalog(Discovery(r)))
=============================================================================
