----------------------------- MODULE Providers ------------------------------
(***************************************************************************)
(* ProviderAdminService, ProviderInstaller and the ProviderRegistry: one   *)
(* provider, from its creation over the rotation of its key to its         *)
(* deletion, and the adapter that the running process holds for it.        *)
(*                                                                         *)
(* The table and the registry are two states.  Every operation writes the  *)
(* table query by query and then brings the registry up to date, and       *)
(* operations of several administrators overlap.  An operation on another  *)
(* provider matters by its refresh alone, which is Elsewhere.              *)
(*                                                                         *)
(* A key is the number of its row; the credential an adapter was made with *)
(* is a key, or 0 where resolveKey fell back to the environment.           *)
(***************************************************************************)
EXTENDS Integers, FiniteSets, FiniteSetsExt

CONSTANTS
    Operator,        \* requests of administrators in progress at once
    Deployment,      \* what FREELLM_NODE_ENV may be, a subset of {"production", "development"}
    MaxOperations,   \* bound: requests
    MaxKeyRows,      \* bound: rows of upstream_keys
    MaxDefects       \* bound: failing queries and restarts

ASSUME ProviderAssumption ==
    /\ Deployment \subseteq {"production", "development"}
    /\ MaxOperations \in Nat /\ MaxKeyRows \in Nat /\ MaxDefects \in Nat

VARIABLES
    provider,     \* the row of the provider: [id, enabled, config]
    upstreamKeys, \* its rows of upstream_keys: [of, text, enabled]; of is Absent until it is
                  \* made and Removed once it is gone
    adapter,      \* registry entry: a credential, or Unregistered
    request,      \* request[o]: an operation and what it has read
    operations,   \* requests so far
    rowIds,       \* ids given to provider rows
    defects,      \* history: failing queries and restarts
    inTurn        \* history: since the last boot, no query failed and no two
                  \* operations overlapped

providerVars ==
    <<provider, upstreamKeys, adapter, request, operations, rowIds, defects, inTurn>>

(* What installFromDatabase can do with the row: install it; refuse its    *)
(* config, for a limit of 0, a slug that is too long or a kind that the    *)
(* schema does not list, all of which the service accepts; or find no      *)
(* factory for its kind.  A kind is given at the creation and for good.    *)
Config == {"installs", "refused", "unmakeable"}
NoProvider == [id |-> 0, enabled |-> FALSE, config |-> "none"]
Unregistered == -1
KeyRow == 1..MaxKeyRows
Absent == 0
Removed == -1
KeyOf(id) == [of |-> id, text |-> "pending", enabled |-> id > 0]
Idle == [at |-> "idle", does |-> "nothing", id |-> 0, keys |-> {}, key |-> 0, factory |-> FALSE]

ProvidersInit ==
    /\ provider = NoProvider /\ upstreamKeys = [k \in KeyRow |-> KeyOf(Absent)]
    /\ adapter = Unregistered /\ request = [o \in Operator |-> Idle]
    /\ operations = 0 /\ rowIds = 0 /\ defects = 0 /\ inTurn = TRUE

-----------------------------------------------------------------------------
KeysOf(id) == {k \in KeyRow : upstreamKeys[k].of = id /\ id > 0}
EnabledKeys == {k \in KeysOf(provider.id) : upstreamKeys[k].enabled}

(* DbEncryptedSecretStore.read: nothing for a placeholder.                 *)
Readable(k) == k # 0 /\ upstreamKeys[k].of # Removed /\ upstreamKeys[k].text # "pending"
Credential(k) == IF Readable(k) THEN k ELSE 0

(* resolveKey's findFirst: priorities are equal, the newest comes first.   *)
NewestKey(ks) == IF ks = {} THEN 0 ELSE Max(ks)

AllIdle == \A o \in Operator : request[o].at = "idle"
Booting == \E o \in Operator : request[o].does = "boot"
OnlyRequest(o) == \A p \in Operator \ {o} : request[p].at = "idle"

At(o, pc) == request[o].at = pc
Go(o, pc) == request' = [request EXCEPT ![o].at = pc]
Done(o) == request' = [request EXCEPT ![o] = Idle]

Arrive(o, does) ==
    /\ request[o].at = "idle" /\ operations < MaxOperations /\ ~Booting
    /\ operations' = operations + 1
    /\ inTurn' = (inTurn /\ OnlyRequest(o))
    /\ UNCHANGED <<upstreamKeys, adapter, defects, rowIds, provider>>

(* create, update, delete and rotateApiKey look for the row first.         *)
BeginCreate(o) ==
    /\ Arrive(o, "create") /\ provider = NoProvider
    /\ request' = [request EXCEPT ![o] = [Idle EXCEPT !.at = "insert", !.does = "create"]]

BeginUpdate(o) ==
    /\ Arrive(o, "update") /\ provider # NoProvider
    /\ request' = [request EXCEPT ![o] = [Idle EXCEPT !.at = "update", !.does = "update"]]

BeginDelete(o) ==
    /\ Arrive(o, "delete") /\ provider # NoProvider
    /\ request' = [request EXCEPT ![o] =
                     [Idle EXCEPT !.at = "keys", !.does = "delete", !.id = provider.id]]

BeginRotate(o) ==
    /\ Arrive(o, "rotate") /\ provider # NoProvider
    /\ request' = [request EXCEPT ![o] =
                     [Idle EXCEPT !.at = "strip", !.does = "rotate", !.id = provider.id,
                                  !.keys = KeysOf(provider.id)]]

(* Another provider is created, updated or given a key.                    *)
Elsewhere(o) ==
    /\ Arrive(o, "elsewhere")
    /\ request' = [request EXCEPT ![o] = [Idle EXCEPT !.at = "rows", !.does = "elsewhere"]]

-----------------------------------------------------------------------------
Kept == UNCHANGED <<operations, defects, inTurn>>

(* The slug is unique: the later of two creates throws.                    *)
Insert(o) ==
    /\ At(o, "insert")
    /\ IF provider # NoProvider
       THEN Done(o) /\ UNCHANGED <<provider, rowIds>>
       ELSE \E enabled \in BOOLEAN, config \in Config, next \in {"attach", "rows"} :
              /\ rowIds' = rowIds + 1
              /\ provider' = [id |-> rowIds', enabled |-> enabled, config |-> config]
              /\ request' = [request EXCEPT ![o].at = next, ![o].id = rowIds']
    /\ Kept /\ UNCHANGED <<upstreamKeys, adapter>>

(* A row that was deleted since makes the update throw.                    *)
Update(o) ==
    /\ At(o, "update")
    /\ IF provider = NoProvider
       THEN Done(o) /\ UNCHANGED provider
       ELSE \E enabled \in BOOLEAN, config \in Config :
              /\ config = "unmakeable" <=> provider.config = "unmakeable"
              /\ provider' = [id |-> provider.id, enabled |-> enabled, config |-> config]
              /\ Go(o, "rows")
    /\ Kept /\ UNCHANGED <<upstreamKeys, adapter, rowIds>>

ListKeys(o) ==
    /\ At(o, "keys")
    /\ request' = [request EXCEPT ![o].at = "strip", ![o].keys = KeysOf(request[o].id)]
    /\ Kept /\ UNCHANGED <<provider, upstreamKeys, adapter, rowIds>>

(* secrets.remove, key by key: what fails here is ignored.                 *)
Strip(o) ==
    /\ At(o, "strip") /\ request[o].keys # {}
    /\ LET k == Min(request[o].keys)
       IN /\ request' = [request EXCEPT ![o].keys = @ \ {k}]
          /\ upstreamKeys' = [upstreamKeys EXCEPT ![k].text = "pending"]
    /\ Kept /\ UNCHANGED <<provider, adapter, rowIds>>

Disable(o) ==
    /\ At(o, "strip") /\ request[o].does = "rotate" /\ request[o].keys = {}
    /\ upstreamKeys' = [k \in KeyRow |-> IF k \in KeysOf(request[o].id)
                                         THEN [upstreamKeys[k] EXCEPT !.enabled = FALSE]
                                         ELSE upstreamKeys[k]]
    /\ Go(o, "attach")
    /\ Kept /\ UNCHANGED <<provider, adapter, rowIds>>

(* The keys go, then the row, by its slug: the keys a row made since has   *)
(* go with it.                                                             *)
Without(id) == [k \in KeyRow |-> IF k \in KeysOf(id) THEN KeyOf(Removed) ELSE upstreamKeys[k]]

DropKeys(o) ==
    /\ At(o, "strip") /\ request[o].does = "delete" /\ request[o].keys = {}
    /\ upstreamKeys' = Without(request[o].id)
    /\ Go(o, "drop")
    /\ Kept /\ UNCHANGED <<provider, adapter, rowIds>>

(* Mutant: the registry keeps what the table has lost.                     *)
DropForgotten(o) ==
    /\ At(o, "drop")
    /\ upstreamKeys' = Without(provider.id) /\ provider' = NoProvider
    /\ Done(o)
    /\ Kept /\ UNCHANGED <<adapter, rowIds>>

Drop(o) ==
    /\ At(o, "drop")
    /\ IF provider = NoProvider
       THEN Done(o) /\ UNCHANGED <<provider, upstreamKeys>>
       ELSE /\ upstreamKeys' = Without(provider.id) /\ provider' = NoProvider
            /\ Go(o, "unregister")
    /\ Kept /\ UNCHANGED <<adapter, rowIds>>

Unregister(o) ==
    /\ At(o, "unregister")
    /\ adapter' = Unregistered
    /\ Done(o)
    /\ Kept /\ UNCHANGED <<provider, upstreamKeys, rowIds>>

(* attachApiKey: an enabled row that holds a placeholder, then its secret. *)
(* The foreign key refuses a row for a provider that is gone.              *)
Attach(o) ==
    /\ At(o, "attach")
    /\ IF provider.id # request[o].id
       THEN Done(o) /\ UNCHANGED upstreamKeys
       ELSE \E k \in KeyRow :
              /\ \A j \in KeyRow : upstreamKeys[j].of = Absent <=> j >= k
              /\ upstreamKeys' = [upstreamKeys EXCEPT ![k] = KeyOf(request[o].id)]
              /\ request' = [request EXCEPT ![o].at = "seal", ![o].key = k]
    /\ Kept /\ UNCHANGED <<provider, adapter, rowIds>>

KeyGone(o) == upstreamKeys[request[o].key].of = Removed

Seal(o) ==
    /\ At(o, "seal")
    /\ IF KeyGone(o)
       THEN Done(o) /\ UNCHANGED upstreamKeys
       ELSE upstreamKeys' = [upstreamKeys EXCEPT ![request[o].key].text = "sealed"] /\ Go(o, "rows")
    /\ Kept /\ UNCHANGED <<provider, adapter, rowIds>>

-----------------------------------------------------------------------------
(* installFromDatabase, the part of its loop that is about this provider.  *)
(* A row that is not enabled is not among those read, and one with a       *)
(* config that is refused is skipped.                                      *)
ReadRows(o) ==
    /\ At(o, "rows")
    /\ IF provider.enabled /\ provider.config # "refused"
       THEN request' = [request EXCEPT ![o].at = "key",
                                       ![o].factory = provider.config # "unmakeable"]
       ELSE Done(o)
    /\ Kept /\ UNCHANGED <<provider, upstreamKeys, adapter, rowIds>>

FindKey(o) ==
    /\ At(o, "key")
    /\ request' = [request EXCEPT ![o].at = "secret", ![o].key = NewestKey(EnabledKeys)]
    /\ Kept /\ UNCHANGED <<provider, upstreamKeys, adapter, rowIds>>

ReadSecret(o) ==
    /\ At(o, "secret")
    /\ request' = [request EXCEPT ![o].at = "install", ![o].key = Credential(request[o].key)]
    /\ Kept /\ UNCHANGED <<provider, upstreamKeys, adapter, rowIds>>

(* registry.install throws where there is no factory, which is caught.     *)
Install(o) ==
    /\ At(o, "install")
    /\ adapter' = IF request[o].factory THEN request[o].key ELSE adapter
    /\ Done(o)
    /\ Kept /\ UNCHANGED <<provider, upstreamKeys, rowIds>>

-----------------------------------------------------------------------------
Defect == defects < MaxDefects /\ defects' = defects + 1

(* A query fails.  The removal of a secret goes on with the next key, and  *)
(* a secret that cannot be read counts as none; a secret that cannot be    *)
(* written is kept in plain text in development, and takes its row with it *)
(* in production.  Any other failure ends the operation where it stands.   *)
QueryFails(o) ==
    /\ Defect /\ inTurn' = FALSE
    /\ \/ /\ \/ request[o].at \in {"insert", "update", "keys", "drop", "attach", "rows", "key"}
             \/ request[o].at = "strip" /\ request[o].keys = {}
          /\ Done(o) /\ UNCHANGED upstreamKeys
       \/ /\ At(o, "strip") /\ request[o].keys # {}
          /\ request' = [request EXCEPT ![o].keys = @ \ {Min(@)}] /\ UNCHANGED upstreamKeys
       \/ /\ At(o, "secret")
          /\ request' = [request EXCEPT ![o].at = "install", ![o].key = 0] /\ UNCHANGED upstreamKeys
       \/ /\ At(o, "seal") /\ ~KeyGone(o) /\ "production" \in Deployment
          /\ upstreamKeys' = [upstreamKeys EXCEPT ![request[o].key] = KeyOf(Removed)]
          /\ Done(o)
       \/ /\ At(o, "seal") /\ ~KeyGone(o) /\ "development" \in Deployment
          /\ upstreamKeys' = [upstreamKeys EXCEPT ![request[o].key].text = "plain"]
          /\ Go(o, "rows")
    /\ UNCHANGED <<provider, adapter, operations, rowIds>>

(* The process starts again: the registry is built from the table before   *)
(* the server listens.                                                     *)
Reboot ==
    /\ Defect /\ inTurn' = TRUE
    /\ adapter' = Unregistered
    /\ \E o \in Operator :
          request' = [[p \in Operator |-> Idle] EXCEPT ![o] = [Idle EXCEPT !.at = "rows", !.does = "boot"]]
    /\ UNCHANGED <<provider, upstreamKeys, operations, rowIds>>

ProviderStep(o) ==
    \/ BeginCreate(o) \/ BeginUpdate(o) \/ BeginDelete(o) \/ BeginRotate(o) \/ Elsewhere(o)
    \/ Insert(o) \/ Update(o) \/ ListKeys(o) \/ Strip(o) \/ Disable(o) \/ DropKeys(o) \/ Drop(o)
    \/ Unregister(o) \/ Attach(o) \/ Seal(o)
    \/ ReadRows(o) \/ FindKey(o) \/ ReadSecret(o) \/ Install(o)
    \/ QueryFails(o)

ProviderNext == Reboot \/ \E o \in Operator : ProviderStep(o)

ProviderSpec == ProvidersInit /\ [][ProviderNext]_providerVars

-----------------------------------------------------------------------------
(* However creates, rotations and deletions overlap, an enabled key whose  *)
(* secret cannot be read belongs to an operation that is still writing or  *)
(* removing it, as long as nothing has failed: attachApiKey enables the    *)
(* row before its secret is written and rotateApiKey takes the secrets     *)
(* away before it disables the rows.                                       *)
EnabledKeysReadable ==
    defects = 0 =>
        \A k \in EnabledKeys :
            \/ Readable(k)
            \/ \E o \in Operator : \/ request[o].at = "seal" /\ request[o].key = k
                                   \/ request[o].at \in {"strip", "drop"} /\ request[o].id = provider.id

(* Whatever the operations, in whichever order, that have come one after   *)
(* the other without a failure since the process started: an enabled       *)
(* provider that can be installed is called with its newest enabled key,   *)
(* whatever it was before, and nothing is called that the table does not   *)
(* have or that no factory makes.  A row whose config is refused keeps the *)
(* adapter it had, with the key that may have been rotated away since.     *)
RegistryInOrder ==
    (inTurn /\ AllIdle) =>
        /\ provider.enabled /\ provider.config = "installs" =>
               adapter = Credential(NewestKey(EnabledKeys))
        /\ provider = NoProvider \/ provider.config = "unmakeable" => adapter = Unregistered

(* Both: what is in use can be read, and what is registered is in use.     *)
ProvidersInOrder == EnabledKeysReadable /\ RegistryInOrder

(* The comment above refreshRegistry: the registry reflects the enabled    *)
(* rows, those that can be installed at least.  installFromDatabase never  *)
(* takes an adapter away.                                                  *)
RegistryReflectsEnabled ==
    (inTurn /\ AllIdle /\ provider.config = "installs") =>
        (adapter # Unregistered <=> provider.enabled)
=============================================================================
