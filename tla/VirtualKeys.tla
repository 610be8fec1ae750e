---------------------------- MODULE VirtualKeys -----------------------------
(***************************************************************************)
(* The table virtual_keys and its writers: VirtualKeyService behind the    *)
(* administrator's routes, and the public route that issues demo keys.     *)
(* Each writer is one query, except for the demo route, which creates a    *)
(* key and then marks it; the queries before a write read columns nothing  *)
(* changes (environment, ownerId).                                         *)
(*                                                                         *)
(* A secret is a number, fresh with each create and rotate; the table      *)
(* keeps its hash, the caller gets it once.                                *)
(***************************************************************************)
EXTENDS RateLimits

CONSTANTS
    Limits,      \* permission limits an administrator may set: [rpm, requests, tokens, embeddings]
    DemoLimits,  \* the limits the demo route sets
    IpLimit,     \* DEMO_IP_LIMIT_PER_HOUR
    Ip,          \* the counter of the callers' address
    Org,         \* counters of organisations with an rpmLimit
    NoOrg,       \* the key's project has no such organisation
    MaxSecrets,  \* bound: secrets ever issued
    MaxPatches,  \* bound: administrator's patches, passing dates and, in ChatRoute, ticks
    MaxFaults    \* bound: queries that fail, and restarts

Quotas == [rpm : Nat, requests : Nat, tokens : Nat, embeddings : Nat]

ASSUME KeyAssumption ==
    /\ Limits \subseteq Quotas /\ DemoLimits \in Quotas
    /\ IpLimit \in Nat /\ Ip \in Counter
    /\ Org \subseteq Counter /\ NoOrg \notin Counter
    /\ MaxSecrets \in Nat /\ MaxPatches \in Nat /\ MaxFaults \in Nat

VARIABLES
    keys,      \* keys[k]: the row of k; secret 0 while it does not exist
    issued,    \* secrets generated so far
    known,     \* secrets that have been returned to a caller
    marking,   \* marking[k]: the secret of a demo key created and not yet marked, or 0
    demoOut,   \* history: secrets the demo route has returned
    dead,      \* history: secrets that were rotated away or revoked
    patches,   \* patches, expiries and such ticks so far
    faults     \* failed queries and restarts so far

keyVars == <<keys, issued, known, marking, demoOut, dead, patches>>

Row == [secret : Nat, enabled : BOOLEAN, revoked : BOOLEAN, expired : BOOLEAN,
        streaming : BOOLEAN, isDemo : BOOLEAN, limits : Quotas,
        org : Org \cup {NoOrg}, totalTokens : Nat]

NoLimits == [rpm |-> 0, requests |-> 0, tokens |-> 0, embeddings |-> 0]
NoKey == [secret |-> 0, enabled |-> FALSE, revoked |-> FALSE, expired |-> FALSE,
          streaming |-> FALSE, isDemo |-> FALSE, limits |-> NoLimits,
          org |-> NoOrg, totalTokens |-> 0]

Exists(k) == keys[k].secret # 0

KeysTypeOK ==
    /\ keys \in [Key -> Row]
    /\ issued \in Nat
    /\ known \subseteq 1..issued
    /\ marking \in [Key -> Nat]
    /\ demoOut \subseteq known
    /\ dead \subseteq 1..issued
    /\ patches \in Nat /\ faults \in Nat

KeysInit ==
    /\ keys = [k \in Key |-> NoKey]
    /\ issued = 0
    /\ known = {}
    /\ marking = [k \in Key |-> 0]
    /\ demoOut = {}
    /\ dead = {}
    /\ patches = 0 /\ faults = 0

Fault == faults < MaxFaults /\ faults' = faults + 1

(* VirtualKeyService.create: a fresh secret in a row of its own.           *)
(* Streaming is on unless the body says otherwise; Patch turns it off.     *)
NewKey(k, limits, org) ==
    /\ ~Exists(k)
    /\ issued < MaxSecrets
    /\ issued' = issued + 1
    /\ keys' = [keys EXCEPT ![k] = [NoKey EXCEPT !.secret = issued + 1, !.enabled = TRUE,
                                        !.limits = limits, !.org = org,
                                        !.streaming = TRUE]]

CreateKey(k) ==
    /\ \E limits \in Limits, org \in Org \cup {NoOrg} : NewKey(k, limits, org)
    /\ known' = known \cup {issued + 1}
    /\ UNCHANGED <<rateVars, marking, demoOut, dead, patches, faults>>

(***************************************************************************)
(* POST /public/demo-key: the address limit, the create, and in a second   *)
(* query the mark.  The secret is returned after both.                     *)
(***************************************************************************)
DemoRefused ==
    /\ kv' = [kv EXCEPT ![Ip] = Incr(@, now, Minute)]
    /\ kv'[Ip].value > IpLimit
    /\ kv'[Ip].value <= IpLimit + 1
    /\ UNCHANGED <<now, rpmBuckets, dayBuckets, keyVars, faults>>

DemoCreate(k) ==
    /\ kv' = [kv EXCEPT ![Ip] = Incr(@, now, Minute)]
    /\ kv'[Ip].value <= IpLimit
    /\ NewKey(k, DemoLimits, NoOrg)
    /\ marking' = [marking EXCEPT ![k] = issued + 1]
    /\ UNCHANGED <<now, rpmBuckets, dayBuckets, known, demoOut, dead, patches, faults>>

DemoMark(k) ==
    /\ marking[k] # 0
    /\ keys' = [keys EXCEPT ![k].isDemo = TRUE]
    /\ known' = known \cup {marking[k]}
    /\ demoOut' = demoOut \cup {marking[k]}
    /\ marking' = [marking EXCEPT ![k] = 0]
    /\ UNCHANGED <<rateVars, issued, dead, patches, faults>>

(* The second query fails: the caller gets no secret, the row stays.       *)
DemoMarkFails(k) ==
    /\ marking[k] # 0
    /\ Fault
    /\ marking' = [marking EXCEPT ![k] = 0]
    /\ UNCHANGED <<rateVars, keys, issued, known, demoOut, dead, patches>>

(***************************************************************************)
(* PATCH: any of enabled, expiresAt (null or a date) and permissions.  A   *)
(* permissions object that leaves allowStreaming out sets it to true.      *)
(***************************************************************************)
Patch(k) ==
    /\ Exists(k)
    /\ patches < MaxPatches
    /\ patches' = patches + 1
    /\ \/ \E b \in BOOLEAN : keys' = [keys EXCEPT ![k].enabled = b]
       \/ \E b \in BOOLEAN : keys' = [keys EXCEPT ![k].expired = b]
       \/ \E limits \in Limits, streaming \in BOOLEAN :
              keys' = [keys EXCEPT ![k].limits = limits, ![k].streaming = streaming]
    /\ UNCHANGED <<rateVars, issued, known, marking, demoOut, dead, faults>>

(* DELETE is VirtualKeyService.revoke.                                     *)
Revoke(k) ==
    /\ Exists(k)
    /\ keys' = [keys EXCEPT ![k].enabled = FALSE, ![k].revoked = TRUE]
    /\ dead' = dead \cup {keys[k].secret}
    /\ UNCHANGED <<rateVars, issued, known, marking, demoOut, patches, faults>>

(* Mutant: the row is revived and keeps its hash.                          *)
RotateKeepingHash(k) ==
    /\ Exists(k)
    /\ issued < MaxSecrets
    /\ issued' = issued + 1
    /\ keys' = [keys EXCEPT ![k].revoked = FALSE, ![k].enabled = TRUE]
    /\ known' = known \cup {issued + 1}
    /\ dead' = dead \cup {keys[k].secret}
    /\ UNCHANGED <<rateVars, marking, demoOut, patches, faults>>

(* rotate revives a revoked or disabled key under a new secret.            *)
Rotate(k) ==
    /\ Exists(k)
    /\ issued < MaxSecrets
    /\ issued' = issued + 1
    /\ keys' = [keys EXCEPT ![k].secret = issued + 1, ![k].revoked = FALSE, ![k].enabled = TRUE]
    /\ known' = known \cup {issued + 1}
    /\ dead' = dead \cup {keys[k].secret}
    /\ UNCHANGED <<rateVars, marking, demoOut, patches, faults>>

(* The expiry date passes.                                                 *)
Expires(k) ==
    /\ Exists(k) /\ ~keys[k].expired
    /\ patches < MaxPatches
    /\ patches' = patches + 1
    /\ keys' = [keys EXCEPT ![k].expired = TRUE]
    /\ UNCHANGED <<rateVars, issued, known, marking, demoOut, dead, faults>>

KeyStep ==
    \/ DemoRefused
    \/ \E k \in Key :
          \/ CreateKey(k) \/ DemoCreate(k) \/ DemoMark(k) \/ DemoMarkFails(k)
          \/ Patch(k) \/ Revoke(k) \/ Rotate(k) \/ Expires(k)

(* The row checks of the onRequest hook.                                   *)
Usable(row) == row.secret # 0 /\ row.enabled /\ ~row.revoked /\ ~row.expired

-----------------------------------------------------------------------------
(* A secret that was revoked or rotated away never opens anything again,   *)
(* whatever is patched or rotated afterwards (revoke, rotate, patch).      *)
DeadSecretsStayDead == \A k \in Key : Usable(keys[k]) => keys[k].secret \notin dead

(* A key the demo route has handed out carries the demo mark, also when   *)
(* a query between the create and the mark fails.                          *)
DemoKeysAreMarked == \A k \in Key : keys[k].secret \in demoOut => keys[k].isDemo

(* What a secret that is out in the world opens: nothing once it is dead,  *)
(* and never more than a demo key may if the demo route gave it out.       *)
KeysInOrder == DeadSecretsStayDead /\ DemoKeysAreMarked
=============================================================================
