------------------------ MODULE AdministrationProofs ------------------------
(***************************************************************************)
(* The safety of accounts, providers, routing policies, usage aggregation, *)
(* alerts, alert rules and health checks, and of the console's cache and   *)
(* playground, for any administrators, rows, runs, hours, days, failures,  *)
(* pages and conversations.  Each part states the invariant that its       *)
(* property needs and why, and proves it action by action.                 *)
(***************************************************************************)
EXTENDS AdminUsers, Providers, RoutingPolicies, UsageDaily, Alerts, AlertRules,
        ProviderHealth, Playground, FiniteLemmas

-----------------------------------------------------------------------------
(* Accounts and sessions.  A lock is earned although the counter is        *)
(* overwritten with stale values, because a counter, in the row or read    *)
(* from it, is never above the wrong passwords there were.                 *)

CountersAreEarned ==
    /\ \A u \in User : users[u].failedLogins <= wrong[u]
    /\ \A c \in Caller : op[c].at # "idle" => /\ op[c].user \in User
                                              /\ op[c].failed <= wrong[op[c].user]

AdminInv == now \in Nat /\ AccountsInOrder /\ CountersAreEarned

LEMMA AdminInitial == RateInit /\ AdminInit => AdminInv
<1> SUFFICES ASSUME RateInit, AdminInit PROVE AdminInv
  OBVIOUS
<1> USE AdminAssumption DEF AdminInit
<1>1. PICK root \in User :
         users = [u \in User |-> IF u = root
                                 THEN [NoAccount EXCEPT !.row = "there", !.isAdmin = TRUE,
                                                        !.enabled = TRUE]
                                 ELSE NoAccount]
  OBVIOUS
<1>2. users \in [User -> Account]
  BY <1>1 DEF Account, NoAccount
<1>3. \A u \in User : users[u].lockedUntil = 0 /\ users[u].failedLogins = 0
  BY <1>1 DEF NoAccount
<1>4. AdminTypeOK
  BY <1>2 DEF AdminTypeOK, Session, NoSession, Op, NoOp
<1>5. LockIsEarned /\ SessionsHaveUsers /\ CountersAreEarned
  BY <1>3 DEF LockIsEarned, SessionsHaveUsers, CountersAreEarned, NoSession, NoOp
<1> QED
  BY <1>4, <1>5 DEF AdminInv, AccountsInOrder, RateInit

(* What a step may do to the accounts without harm to their counters.      *)
TamerAccounts ==
    \A u \in User : /\ users'[u].failedLogins \in {0, users[u].failedLogins}
                    /\ users'[u].lockedUntil \in {0, users[u].lockedUntil}

(* Operations begin with what the row says, go on, or end.                 *)
TameOps ==
    \A c \in Caller :
        \/ op'[c].at = "idle"
        \/ op[c].at # "idle" /\ op'[c].user = op[c].user /\ op'[c].failed = op[c].failed
        \/ \E u \in User : op'[c].user = u /\ op'[c].failed = users[u].failedLogins

LEMMA TameStep ==
    ASSUME AdminInv, AdminTypeOK', now' \in Nat, TamerAccounts, TameOps, UNCHANGED wrong,
           SessionsHaveUsers'
    PROVE  AdminInv'
<1> USE DEF AdminInv, AccountsInOrder
<1>1. \A u \in User : wrong[u] \in Nat /\ users[u].failedLogins \in Nat
  BY DEF AdminTypeOK, Account
<1>2. LockIsEarned'
  BY DEF LockIsEarned, TamerAccounts
<1>3. CountersAreEarned'
  BY <1>1 DEF CountersAreEarned, TamerAccounts, TameOps
<1> QED
  BY <1>2, <1>3

(* A change of one account that keeps its row.                             *)
LEMMA AccountStep ==
    ASSUME AdminInv, NEW u \in User, NEW row \in Account, users' = [users EXCEPT ![u] = row],
           row.row = "there",
           row.failedLogins \in {0, users[u].failedLogins},
           row.lockedUntil \in {0, users[u].lockedUntil},
           UNCHANGED <<now, sessions, wrong>>, adminOps' \in Nat,
           op' \in [Caller -> Op], TameOps
    PROVE  AdminInv'
<1> USE DEF AdminInv, AccountsInOrder
<1>1. AdminTypeOK'
  BY DEF AdminTypeOK
<1>2. TamerAccounts
  BY DEF TamerAccounts, AdminTypeOK
<1>3. SessionsHaveUsers'
  <2>1. \A v \in User : Exists(v) => Exists(v)'
    BY DEF Exists, AdminTypeOK
  <2>2. \A s \in SessionId : sessions[s].user # NoUser => sessions[s].user \in User
    BY DEF AdminTypeOK, Session
  <2> QED
    BY <2>1, <2>2 DEF SessionsHaveUsers
<1> QED
  BY <1>1, <1>2, <1>3, TameStep

(* A step that leaves the accounts alone.                                  *)
LEMMA SameAccounts ==
    ASSUME AdminInv, UNCHANGED <<users, wrong>>, now' \in Nat, adminOps' \in Nat,
           sessions' \in [SessionId -> Session], op' \in [Caller -> Op], TameOps,
           \A s \in SessionId : sessions'[s].user # NoUser =>
               sessions'[s].user = sessions[s].user \/ Exists(sessions'[s].user)
    PROVE  AdminInv'
<1> USE DEF AdminInv, AccountsInOrder
<1>1. AdminTypeOK'
  BY DEF AdminTypeOK
<1>2. TamerAccounts
  BY DEF TamerAccounts
<1>3. SessionsHaveUsers'
  BY DEF SessionsHaveUsers, Exists
<1> QED
  BY <1>1, <1>2, <1>3, TameStep

LEMMA OpsEnd ==
    ASSUME AdminInv, NEW c \in Caller, End(c) PROVE op' \in [Caller -> Op] /\ TameOps
BY AdminAssumption DEF AdminInv, AccountsInOrder, AdminTypeOK, End, NoOp, Op, TameOps

LEMMA OpsBegin ==
    ASSUME AdminInv, NEW c \in Caller, NEW u \in User,
           NEW l \in {"password", "demote", "delete"}, Begin(c, l, u)
    PROVE  op' \in [Caller -> Op] /\ TameOps
<1> USE DEF AdminInv, AccountsInOrder, AdminTypeOK, Begin
<1>1. users[u].failedLogins \in Nat
  BY DEF Account
<1>2. op' \in [Caller -> Op]
  BY <1>1 DEF Op
<1>3. \A d \in Caller : d # c => op'[d] = op[d]
  OBVIOUS
<1>4. op'[c].user = u /\ op'[c].failed = users[u].failedLogins
  OBVIOUS
<1> QED
  BY <1>2, <1>3, <1>4 DEF TameOps

LEMMA OpsStay ==
    ASSUME AdminInv, UNCHANGED op PROVE op' \in [Caller -> Op] /\ TameOps
BY DEF AdminInv, AccountsInOrder, AdminTypeOK, TameOps

LEMMA SessionsStay ==
    ASSUME AdminInv, UNCHANGED sessions
    PROVE  /\ sessions' \in [SessionId -> Session]
           /\ \A s \in SessionId : sessions'[s].user = sessions[s].user
BY DEF AdminInv, AccountsInOrder, AdminTypeOK

LEMMA LoginWrongStep == ASSUME AdminInv, NEW c \in Caller, LoginWrong(c) PROVE AdminInv'
<1> USE AdminAssumption DEF AdminInv, AccountsInOrder
<1> DEFINE u == op[c].user
           failed == op[c].failed + 1
           locked == IF failed >= FailedLimit THEN now + Lockout ELSE 0
<1>1. u \in User /\ op[c].failed \in Nat /\ op[c].failed <= wrong[u] /\ wrong[u] \in Nat
  BY DEF LoginWrong, In, CountersAreEarned, AdminTypeOK, Op
<1>2. /\ users[u].row = "there"
      /\ users' = [users EXCEPT ![u].failedLogins = failed, ![u].lockedUntil = locked]
      /\ wrong' = [wrong EXCEPT ![u] = @ + 1]
      /\ UNCHANGED <<now, sessions, adminOps>>
  BY DEF LoginWrong, Exists, rateVars
<1>3. End(c)
  BY DEF LoginWrong
<1>4. failed \in Nat /\ locked \in Nat /\ failed <= wrong[u] + 1
      /\ (locked # 0 => wrong[u] + 1 >= FailedLimit)
  BY <1>1
<1> HIDE DEF u, failed, locked
<1>5. /\ users' \in [User -> Account]
      /\ users'[u].row = "there" /\ users'[u].failedLogins = failed /\ users'[u].lockedUntil = locked
      /\ \A v \in User : v # u => users'[v] = users[v]
  BY <1>1, <1>2, <1>4 DEF AdminTypeOK, Account
<1>6. /\ wrong' \in [User -> Nat] /\ wrong'[u] = wrong[u] + 1
      /\ \A v \in User : wrong'[v] \in Nat /\ wrong[v] \in Nat /\ wrong'[v] >= wrong[v]
  BY <1>1, <1>2 DEF AdminTypeOK
<1>7. op' \in [Caller -> Op] /\ \A d \in Caller : op'[d] = op[d] \/ op'[d].at = "idle"
  BY <1>3, OpsEnd DEF End, AdminTypeOK, NoOp
<1>8. AdminTypeOK'
  BY <1>2, <1>5, <1>6, <1>7 DEF AdminTypeOK
<1>9. LockIsEarned'
  <2> SUFFICES ASSUME NEW v \in User, users'[v].lockedUntil # 0 PROVE wrong'[v] >= FailedLimit
    BY DEF LockIsEarned
  <2>1. CASE v = u
    BY <1>4, <1>5, <1>6, <2>1
  <2>2. CASE v # u
    BY <1>5, <1>6, <2>2 DEF LockIsEarned
  <2> QED
    BY <2>1, <2>2
<1>10. SessionsHaveUsers'
  <2>1. \A v \in User : Exists(v) => Exists(v)'
    BY <1>5 DEF Exists
  <2>2. \A s \in SessionId : sessions[s].user # NoUser => sessions[s].user \in User
    BY DEF AdminTypeOK, Session
  <2> QED
    BY <1>2, <2>1, <2>2 DEF SessionsHaveUsers
<1>11. CountersAreEarned'
  <2>1. \A v \in User : users'[v].failedLogins <= wrong'[v]
    <3> TAKE v \in User
    <3>1. users[v].failedLogins \in Nat
      BY DEF AdminTypeOK, Account
    <3> QED
      BY <1>1, <1>4, <1>5, <1>6, <3>1 DEF CountersAreEarned
  <2>2. \A d \in Caller : op'[d].at # "idle" => /\ op'[d].user \in User
                                                /\ op'[d].failed <= wrong'[op'[d].user]
    <3> TAKE d \in Caller
    <3>1. op[d].failed \in Nat
      BY DEF AdminTypeOK, Op
    <3> QED
      BY <1>6, <1>7, <3>1 DEF CountersAreEarned
  <2> QED
    BY <2>1, <2>2 DEF CountersAreEarned
<1> QED
  BY <1>2, <1>8, <1>9, <1>10, <1>11

(* Deletion: no session is left behind.                                    *)
LEMMA DeleteStep == ASSUME AdminInv, NEW c \in Caller, DeleteWrite(c) PROVE AdminInv'
<1> USE AdminAssumption DEF AdminInv, AccountsInOrder
<1> DEFINE u == op[c].user
<1>1. u \in User
  BY DEF DeleteWrite, In, CountersAreEarned
<1>2. /\ users' = [users EXCEPT ![u] = Deleted]
      /\ sessions' = [s \in SessionId |-> IF sessions[s].user = u THEN NoSession ELSE sessions[s]]
      /\ UNCHANGED <<now, wrong, adminOps>>
      /\ End(c)
  BY DEF DeleteWrite, rateVars
<1> HIDE DEF u
<1>3. Deleted \in Account /\ Deleted.failedLogins = 0 /\ Deleted.lockedUntil = 0
  BY DEF Deleted, NoAccount, Account
<1>4. op' \in [Caller -> Op] /\ TameOps
  BY <1>2, OpsEnd
<1>5. AdminTypeOK'
  <2>1. sessions' \in [SessionId -> Session]
    BY <1>2 DEF AdminTypeOK, Session, NoSession
  <2> QED
    BY <1>2, <1>3, <1>4, <2>1 DEF AdminTypeOK
<1>6. TamerAccounts
  BY <1>2, <1>3 DEF TamerAccounts, AdminTypeOK
<1>7. SessionsHaveUsers'
  <2>1. \A v \in User : v # u => users'[v] = users[v]
    BY <1>2 DEF AdminTypeOK
  <2>2. \A s \in SessionId : sessions[s].user # NoUser => sessions[s].user \in User
    BY DEF AdminTypeOK, Session
  <2>3. \A s \in SessionId : sessions'[s].user # NoUser =>
           sessions'[s].user = sessions[s].user /\ sessions[s].user # u
    BY <1>2 DEF NoSession
  <2> QED
    BY <2>1, <2>2, <2>3 DEF SessionsHaveUsers, Exists
<1> QED
  BY <1>2, <1>4, <1>5, <1>6, <1>7, TameStep

LEMMA CallerStep ==
    ASSUME AdminInv, NEW c \in Caller,
           \/ \E u \in User : LoginRead(c, u) \/ DemoteCount(c, u) \/ DeleteCount(c, u)
           \/ \E s \in SessionId : LoginRight(c, s)
           \/ LoginReset(c) \/ LoginThrows(c) \/ DemoteWrite(c)
    PROVE  AdminInv'
<1> USE AdminAssumption DEF rateVars, AdminOp, ByAdmin
<1>1. AdminTypeOK /\ now \in Nat /\ adminOps \in Nat /\ adminOps + 1 \in Nat
  BY DEF AdminInv, AccountsInOrder, AdminTypeOK
<1>2. ASSUME NEW u \in User, LoginRead(c, u) \/ DemoteCount(c, u) \/ DeleteCount(c, u)
      PROVE  AdminInv'
  <2>1. \E l \in {"password", "demote", "delete"} : Begin(c, l, u)
    BY <1>2 DEF LoginRead, DemoteCount, DeleteCount
  <2>2. op' \in [Caller -> Op] /\ TameOps
    BY <2>1, OpsBegin
  <2>3. UNCHANGED <<users, wrong, now, sessions>> /\ adminOps' \in Nat
    BY <1>1, <1>2 DEF LoginRead, DemoteCount, DeleteCount
  <2> QED
    BY <1>1, <2>2, <2>3, SessionsStay, SameAccounts
<1>3. ASSUME NEW s \in SessionId, LoginRight(c, s) PROVE AdminInv'
  <2>1. /\ UNCHANGED <<users, wrong, now, adminOps>>
        /\ Exists(op[c].user) /\ op[c].at = "password"
        /\ sessions' = [sessions EXCEPT ![s] = [user |-> op[c].user, revoked |-> FALSE,
                                                expiresAt |-> now + SessionTtl]]
        /\ op' = [op EXCEPT ![c].at = "minted"]
    BY <1>3 DEF LoginRight, In
  <2>2. op[c].user \in User
    BY <2>1 DEF AdminInv, CountersAreEarned
  <2>3. sessions' \in [SessionId -> Session]
    BY <1>1, <2>1, <2>2 DEF AdminTypeOK, Session
  <2>4. \A t \in SessionId : sessions'[t].user = sessions[t].user \/ sessions'[t].user = op[c].user
    BY <1>1, <2>1 DEF AdminTypeOK
  <2>5. op' \in [Caller -> Op] /\ TameOps
    BY <1>1, <2>1 DEF AdminTypeOK, Op, TameOps
  <2> QED
    BY <1>1, <2>1, <2>3, <2>4, <2>5, SameAccounts
<1>4. CASE LoginReset(c)
  <2> DEFINE u == op[c].user
             row == [users[u] EXCEPT !.failedLogins = 0, !.lockedUntil = 0]
  <2>1. u \in User /\ users[u].row = "there"
    BY <1>4 DEF LoginReset, In, Exists, AdminInv, CountersAreEarned
  <2>2. users' = [users EXCEPT ![u] = row] /\ UNCHANGED <<now, sessions, wrong, adminOps>> /\ End(c)
    BY <1>4 DEF LoginReset, ResetCounter
  <2>3. row \in Account /\ row.row = "there" /\ row.failedLogins = 0 /\ row.lockedUntil = 0
    BY <1>1, <2>1, ZenonT(30) DEF AdminTypeOK, Account
  <2> HIDE DEF row, u
  <2> QED
    BY <1>1, <2>1, <2>2, <2>3, OpsEnd, AccountStep
<1>5. CASE LoginThrows(c)
  <2>1. UNCHANGED <<users, wrong, now, sessions, adminOps>> /\ End(c)
    BY <1>5 DEF LoginThrows
  <2> QED
    BY <1>1, <2>1, OpsEnd, SessionsStay, SameAccounts
<1>6. CASE DemoteWrite(c)
  <2> DEFINE u == op[c].user
             row == [users[u] EXCEPT !.isAdmin = FALSE]
  <2>1. UNCHANGED <<wrong, now, sessions, adminOps>> /\ End(c) /\ u \in User
    BY <1>6 DEF DemoteWrite, In, AdminInv, CountersAreEarned
  <2>2. CASE Exists(u)
    <3>1. users' = [users EXCEPT ![u] = row]
      BY <1>6, <2>2 DEF DemoteWrite
    <3>2. /\ row \in Account /\ row.row = "there"
          /\ row.failedLogins = users[u].failedLogins /\ row.lockedUntil = users[u].lockedUntil
      BY <1>1, <2>1, <2>2, ZenonT(30) DEF AdminTypeOK, Account, Exists
    <3> HIDE DEF row, u
    <3> QED
      BY <1>1, <2>1, <3>1, <3>2, OpsEnd, AccountStep
  <2>3. CASE ~Exists(u)
    <3>1. UNCHANGED users
      BY <1>6, <2>3 DEF DemoteWrite
    <3> QED
      BY <1>1, <2>1, <3>1, OpsEnd, SessionsStay, SameAccounts
  <2> QED
    BY <2>2, <2>3
<1> QED
  BY <1>2, <1>3, <1>4, <1>5, <1>6

LEMMA UserStep ==
    ASSUME AdminInv, NEW u \in User, CreateUser(u) \/ SetEnabled(u) \/ Unlock(u) \/ Promote(u)
    PROVE  AdminInv'
<1> USE DEF rateVars, AdminOp, ByAdmin
<1>1. AdminTypeOK /\ users \in [User -> Account] /\ users[u] \in Account /\ adminOps \in Nat
  BY DEF AdminInv, AccountsInOrder, AdminTypeOK
<1>2. UNCHANGED <<now, sessions, op, wrong>> /\ adminOps' = adminOps + 1
  BY DEF CreateUser, SetEnabled, Unlock, Promote
<1>3. PICK row \in Account :
         /\ users' = [users EXCEPT ![u] = row] /\ row.row = "there"
         /\ row.failedLogins \in {0, users[u].failedLogins}
         /\ row.lockedUntil \in {0, users[u].lockedUntil}
  <2>1. CASE CreateUser(u)
    <3>1. PICK b \in BOOLEAN :
             users' = [users EXCEPT ![u] = [NoAccount EXCEPT !.row = "there", !.enabled = TRUE,
                                                             !.isAdmin = b]]
      BY <2>1 DEF CreateUser
    <3> DEFINE new == [NoAccount EXCEPT !.row = "there", !.enabled = TRUE, !.isAdmin = b]
    <3>2. new \in Account /\ new.row = "there" /\ new.failedLogins = 0 /\ new.lockedUntil = 0
      BY DEF NoAccount, Account
    <3> HIDE DEF new
    <3>3. users' = [users EXCEPT ![u] = new]
      BY <3>1 DEF new
    <3> QED
      BY <3>2, <3>3
  <2>2. CASE SetEnabled(u)
    <3>1. PICK b \in BOOLEAN : users' = [users EXCEPT ![u].enabled = b]
      BY <2>2 DEF SetEnabled
    <3> DEFINE new == [users[u] EXCEPT !.enabled = b]
    <3>2. /\ new \in Account /\ new.row = "there"
          /\ new.failedLogins = users[u].failedLogins /\ new.lockedUntil = users[u].lockedUntil
      BY <1>1, <2>2 DEF SetEnabled, Exists, Account
    <3>3. users' = [users EXCEPT ![u] = new]
      BY <1>1, <3>1
    <3> HIDE DEF new
    <3> QED
      BY <3>2, <3>3
  <2>3. CASE Unlock(u)
    <3> DEFINE new == [users[u] EXCEPT !.failedLogins = 0, !.lockedUntil = 0]
    <3>1. users' = [users EXCEPT ![u] = new]
      BY <1>1, <2>3 DEF Unlock, ResetCounter
    <3>2. new \in Account /\ new.row = "there" /\ new.failedLogins = 0 /\ new.lockedUntil = 0
      BY <1>1, <2>3 DEF Unlock, Exists, Account
    <3> HIDE DEF new
    <3> QED
      BY <3>1, <3>2
  <2>4. CASE Promote(u)
    <3> DEFINE new == [users[u] EXCEPT !.isAdmin = TRUE]
    <3>1. users' = [users EXCEPT ![u] = new]
      BY <1>1, <2>4 DEF Promote
    <3>2. /\ new \in Account /\ new.row = "there"
          /\ new.failedLogins = users[u].failedLogins /\ new.lockedUntil = users[u].lockedUntil
      BY <1>1, <2>4 DEF Promote, Exists, Account
    <3> HIDE DEF new
    <3> QED
      BY <3>1, <3>2
  <2> QED
    BY <2>1, <2>2, <2>3, <2>4
<1>4. adminOps' \in Nat
  BY <1>1, <1>2
<1> QED
  BY <1>2, <1>3, <1>4, OpsStay, AccountStep

LEMMA AdminStepKeeps == AdminInv /\ [AdminNext]_<<rateVars, adminVars>> => AdminInv'
<1> SUFFICES ASSUME AdminInv, [AdminNext]_<<rateVars, adminVars>> PROVE AdminInv'
  OBVIOUS
<1>1. ASSUME NEW c \in Caller, LoginWrong(c) PROVE AdminInv'
  BY <1>1, LoginWrongStep
<1>2. ASSUME NEW c \in Caller, DeleteWrite(c) PROVE AdminInv'
  BY <1>2, DeleteStep
<1>3. ASSUME NEW s \in SessionId, Revoke(s) PROVE AdminInv'
  <2>1. /\ UNCHANGED <<users, wrong, now, adminOps, op>>
        /\ sessions' = [sessions EXCEPT ![s].revoked = TRUE]
    BY <1>3 DEF Revoke, rateVars
  <2>2. now \in Nat /\ AdminTypeOK
    BY DEF AdminInv, AccountsInOrder
  <2>3. /\ sessions' \in [SessionId -> Session]
        /\ \A t \in SessionId : sessions'[t].user = sessions[t].user
    BY <2>1, <2>2 DEF AdminTypeOK, Session
  <2> QED
    BY <2>1, <2>2, <2>3, OpsStay, SameAccounts DEF AdminTypeOK
<1>4. CASE UNCHANGED adminVars /\ now' \in Nat
  <2>1. UNCHANGED <<users, wrong, sessions, adminOps, op>> /\ adminOps \in Nat
    BY <1>4 DEF adminVars, AdminInv, AccountsInOrder, AdminTypeOK
  <2> QED
    BY <1>4, <2>1, OpsStay, SessionsStay, SameAccounts
<1>5. Tick \/ UNCHANGED rateVars => now' \in Nat
  BY DEF Tick, rateVars, AdminInv
<1> QED
  BY <1>1, <1>2, <1>3, <1>4, <1>5, CallerStep, UserStep DEF AdminNext, AdminStep

(* However logins, promotions and deletions interleave, an account is      *)
(* locked only after the wrong passwords for it, and every session has its *)
(* account.                                                                *)
THEOREM AccountsAlwaysInOrder == AdminSpec => []AccountsInOrder
<1>1. AdminInv => AccountsInOrder
  BY DEF AdminInv
<1> QED
  BY <1>1, AdminInitial, AdminStepKeeps, PTL DEF AdminSpec

-----------------------------------------------------------------------------
(* Providers.  A key row has the id of the provider that is there, since   *)
(* the deletion of a provider takes all rows of its id and attachApiKey    *)
(* refuses an id that is gone: this is what keeps an overtaken deletion or *)
(* rotation from the keys of the provider that was created since.  Whether *)
(* operations came in turn or not, an unreadable enabled key has an owner; *)
(* and in turn, where the one operation stands says what the registry has. *)

RequestStep == {"idle", "insert", "update", "keys", "strip", "drop", "unregister", "attach",
                "seal", "rows", "key", "secret", "install"}
Operation == {"nothing", "create", "update", "delete", "rotate", "elsewhere", "boot"}
Request == [at : RequestStep, does : Operation, id : Nat, keys : SUBSET KeyRow,
            key : 0..MaxKeyRows, factory : BOOLEAN]
ProviderRow == [id : Nat, enabled : BOOLEAN, config : Config \cup {"none"}]
UpstreamKey == [of : Nat \cup {Removed}, text : {"pending", "sealed", "plain"}, enabled : BOOLEAN]

Registered == {Unregistered} \cup 0..MaxKeyRows

ProviderTypeOK ==
    /\ provider \in ProviderRow /\ (provider.id = 0 => provider = NoProvider)
    /\ upstreamKeys \in [KeyRow -> UpstreamKey]
    /\ adapter \in Registered
    /\ request \in [Operator -> Request]
    /\ operations \in Nat /\ rowIds \in Nat /\ defects \in Nat /\ inTurn \in BOOLEAN

OwnKeysOnly == \A k \in KeyRow : upstreamKeys[k].of \in {Absent, Removed, provider.id}

(* What a request holds is its own or gone.                                *)
HoldsItsOwn(r) ==
    /\ r.at \in {"keys", "strip"} => r.id > 0
    /\ r.at = "strip" => \A k \in r.keys : upstreamKeys[k].of \in {r.id, Removed}
    /\ r.at = "seal" => r.key \in KeyRow

Owns(r, k) ==
    \/ r.at = "seal" /\ r.key = k
    \/ r.at \in {"strip", "drop"} /\ r.id = provider.id

Newest == NewestKey(EnabledKeys)
InUse == Credential(Newest)

Owned ==
    defects = 0 => \A k \in EnabledKeys : \/ upstreamKeys[k].text # "pending"
                                          \/ \E o \in Operator : Owns(request[o], k)

(* What holds where the only request that has not ended stands.            *)
Stands(r) ==
    /\ r.at \in {"update", "keys", "strip", "drop", "attach", "seal"} => provider.id > 0
    /\ r.at \in {"strip", "keys", "attach"} => r.id = provider.id
    /\ r.at = "seal" => upstreamKeys[r.key].of # Removed
    /\ r.at \in {"insert", "unregister"} => provider.id = 0
    /\ r.at \in {"idle", "rows", "insert"} => (provider.id = 0 => adapter = Unregistered)
    /\ provider.config = "unmakeable" => adapter = Unregistered
    /\ r.at \in {"key", "secret", "install"} =>
           /\ provider.enabled /\ provider.config # "refused"
           /\ r.factory <=> provider.config # "unmakeable"
    /\ r.at = "secret" => r.key = Newest
    /\ r.at = "install" => r.key = InUse
    /\ r.at = "idle" => (provider.enabled /\ provider.config = "installs" => adapter = InUse)

InTurn ==
    /\ \A o, p \in Operator : request[o].at # "idle" /\ request[p].at # "idle" => o = p
    /\ \A o \in Operator : request[o].at # "idle" => Stands(request[o])
    /\ AllIdle => Stands(Idle)

ProviderInv ==
    /\ ProviderTypeOK /\ OwnKeysOnly
    /\ \A o \in Operator : HoldsItsOwn(request[o])
    /\ Owned
    /\ inTurn => InTurn

LEMMA ProviderInitial == ProvidersInit => ProviderInv
<1> SUFFICES ASSUME ProvidersInit PROVE ProviderInv
  OBVIOUS
<1>1. Idle \in Request /\ Idle.at = "idle" /\ KeyOf(Absent) \in UpstreamKey
  BY ProviderAssumption DEF Idle, Request, RequestStep, Operation, KeyOf, Absent, UpstreamKey
<1>2. ProviderTypeOK
  BY <1>1, ProviderAssumption DEF ProvidersInit, ProviderTypeOK, ProviderRow, Registered, NoProvider
<1>3. OwnKeysOnly
  BY DEF ProvidersInit, OwnKeysOnly, KeyOf
<1>4. \A o \in Operator : request[o].at = "idle"
  BY <1>1 DEF ProvidersInit
<1>5. EnabledKeys = {} /\ ~provider.enabled /\ provider.id = 0 /\ adapter = Unregistered
  BY DEF ProvidersInit, EnabledKeys, KeysOf, NoProvider
<1>6. Stands(Idle)
  BY <1>1, <1>5 DEF Stands
<1> QED
  BY <1>2, <1>3, <1>4, <1>5, <1>6 DEF ProviderInv, InTurn, HoldsItsOwn, Owned

LEMMA NewestType ==
    ASSUME ProviderTypeOK
    PROVE  /\ Newest \in 0..MaxKeyRows /\ InUse \in 0..MaxKeyRows
           /\ Newest # 0 => Newest \in EnabledKeys
<1>1. EnabledKeys \in SUBSET Nat /\ \A k \in EnabledKeys : k \in KeyRow /\ k <= MaxKeyRows
  BY ProviderAssumption DEF EnabledKeys, KeysOf, KeyRow
<1>2. CASE EnabledKeys = {}
  BY <1>2, ProviderAssumption DEF Newest, NewestKey, InUse, Credential
<1>3. CASE EnabledKeys # {}
  <2>1. Max(EnabledKeys) \in EnabledKeys
    BY <1>1, <1>3, MaxIsMember, ProviderAssumption
  <2>2. Newest = Max(EnabledKeys)
    BY <1>3 DEF Newest, NewestKey
  <2>3. InUse \in {Newest, 0}
    BY DEF InUse, Credential
  <2>4. Newest \in EnabledKeys
    BY <2>1, <2>2
  <2>5. Newest \in KeyRow
    BY <1>1, <2>4
  <2>6. 0 \in 0..MaxKeyRows /\ Newest \in 0..MaxKeyRows
    BY <2>5, ProviderAssumption DEF KeyRow
  <2> QED
    BY <2>3, <2>4, <2>6
<1> QED
  BY <1>2, <1>3

LEMMA SameKeys ==
    ASSUME UNCHANGED <<provider, upstreamKeys>>
    PROVE  /\ EnabledKeys' = EnabledKeys /\ Newest' = Newest /\ InUse' = InUse
           /\ \A r : HoldsItsOwn(r)' <=> HoldsItsOwn(r)
           /\ \A r, k : Owns(r, k)' <=> Owns(r, k)
<1>1. EnabledKeys' = EnabledKeys
  BY DEF EnabledKeys, KeysOf
<1>2. Newest' = Newest
  BY <1>1 DEF Newest, NewestKey
<1>3. InUse' = InUse
  BY <1>2 DEF InUse, Credential, Readable
<1>4. \A r : HoldsItsOwn(r)' <=> HoldsItsOwn(r)
  BY DEF HoldsItsOwn
<1> QED
  BY <1>1, <1>2, <1>3, <1>4 DEF Owns

KeepsItsRow(k) == upstreamKeys'[k].of = upstreamKeys[k].of \/ upstreamKeys'[k].of = Removed

(* A step of one request, and what it has to respect.                      *)
LEMMA ProviderMove ==
    ASSUME ProviderInv, NEW o \in Operator, NEW r \in Request,
           request' = [request EXCEPT ![o] = r],
           provider' \in ProviderRow, provider'.id = 0 => provider' = NoProvider,
           upstreamKeys' \in [KeyRow -> UpstreamKey], adapter' \in Registered,
           operations' \in Nat, rowIds' \in Nat, defects' \in Nat, inTurn' \in BOOLEAN,
           OwnKeysOnly', HoldsItsOwn(r)',
           \A k \in KeyRow : upstreamKeys[k].of = Absent \/ KeepsItsRow(k),
           defects' = 0 =>
             /\ defects = 0
             /\ \A k \in EnabledKeys' :
                   \/ upstreamKeys'[k].text # "pending" \/ Owns(r, k)'
                   \/ /\ provider'.id = provider.id
                      /\ k \in EnabledKeys /\ upstreamKeys[k].text = "pending" /\ ~Owns(request[o], k),
           inTurn' => inTurn /\ OnlyRequest(o) /\ Stands(r)'
    PROVE  ProviderInv'
<1> USE DEF ProviderInv
<1>1. /\ request'[o] = r /\ request' \in [Operator -> Request]
      /\ \A p \in Operator : p # o => request'[p] = request[p]
  BY DEF ProviderTypeOK
<1>2. ProviderTypeOK'
  BY <1>1 DEF ProviderTypeOK
<1>3. ASSUME NEW p \in Operator PROVE HoldsItsOwn(request[p])'
  <2>1. CASE p = o
    BY <1>1, <2>1 DEF HoldsItsOwn
  <2>2. CASE p # o
    <3>1. request'[p] = request[p] /\ HoldsItsOwn(request[p]) /\ request[p] \in Request
      BY <1>1, <2>2 DEF ProviderTypeOK
    <3>2. ASSUME request[p].at = "strip", NEW k \in request[p].keys
          PROVE  upstreamKeys'[k].of \in {request[p].id, Removed}
      <4>1. upstreamKeys[k].of \in {request[p].id, Removed} /\ request[p].id > 0 /\ k \in KeyRow
        BY <3>1, <3>2 DEF HoldsItsOwn, Request
      <4>2. upstreamKeys[k].of # Absent
        BY <4>1 DEF Removed, Absent
      <4> QED
        BY <4>1, <4>2 DEF KeepsItsRow
    <3> QED
      BY <3>1, <3>2 DEF HoldsItsOwn
  <2> QED
    BY <2>1, <2>2
<1>4. ASSUME defects' = 0, NEW k \in EnabledKeys'
      PROVE  \/ upstreamKeys'[k].text # "pending"
             \/ \E p \in Operator : Owns(request[p], k)'
  <2>1. CASE Owns(r, k)'
    BY <1>1, <2>1 DEF Owns
  <2>2. CASE /\ provider'.id = provider.id
             /\ k \in EnabledKeys /\ upstreamKeys[k].text = "pending" /\ ~Owns(request[o], k)
    <3>1. PICK p \in Operator : Owns(request[p], k)
      BY <1>4, <2>2 DEF Owned
    <3>2. p # o /\ request'[p] = request[p]
      BY <1>1, <2>2, <3>1
    <3>3. Owns(request[p], k)'
      BY <2>2, <3>1, <3>2 DEF Owns
    <3> QED
      BY <3>3
  <2> QED
    BY <1>4, <2>1, <2>2
<1>5. ASSUME inTurn' PROVE InTurn'
  <2>1. \A p \in Operator : p # o => request'[p].at = "idle"
    BY <1>1, <1>5 DEF OnlyRequest
  <2>2. ASSUME NEW p \in Operator, request'[p].at # "idle" PROVE Stands(request[p])'
    <3>1. p = o /\ request'[p] = r
      BY <1>1, <2>1, <2>2
    <3> QED
      BY <1>5, <3>1 DEF Stands
  <2>3. ASSUME AllIdle' PROVE Stands(Idle)'
    <3>1. r.at = "idle"
      BY <1>1, <2>3 DEF AllIdle
    <3>2. Idle.at = "idle"
      BY DEF Idle
    <3> QED
      BY <1>5, <3>1, <3>2 DEF Stands
  <2> QED
    BY <2>1, <2>2, <2>3 DEF InTurn
<1> QED
  BY <1>2, <1>3, <1>4, <1>5 DEF Owned

(* One that leaves the table alone.                                        *)
LEMMA ProviderMoveAside ==
    ASSUME ProviderInv, NEW o \in Operator, NEW r \in Request,
           request' = [request EXCEPT ![o] = r],
           UNCHANGED <<provider, upstreamKeys, rowIds>>, adapter' \in Registered,
           operations' \in Nat, defects' \in Nat, inTurn' \in BOOLEAN,
           HoldsItsOwn(r),
           defects' = 0 => defects = 0 /\ \A k \in EnabledKeys : Owns(request[o], k) => Owns(r, k),
           inTurn' => inTurn /\ OnlyRequest(o) /\ Stands(r)'
    PROVE  ProviderInv'
<1>1. /\ provider \in ProviderRow /\ (provider.id = 0 => provider = NoProvider)
      /\ upstreamKeys \in [KeyRow -> UpstreamKey] /\ rowIds \in Nat /\ OwnKeysOnly
  BY DEF ProviderInv, ProviderTypeOK
<1>2. OwnKeysOnly' /\ HoldsItsOwn(r)' /\ EnabledKeys' = EnabledKeys
  BY <1>1, SameKeys DEF OwnKeysOnly
<1>3. \A k : Owns(r, k)' <=> Owns(r, k)
  BY SameKeys
<1>4. defects' = 0 =>
             /\ defects = 0
             /\ \A k \in EnabledKeys' :
                   \/ upstreamKeys'[k].text # "pending" \/ Owns(r, k)'
                   \/ /\ provider'.id = provider.id
                      /\ k \in EnabledKeys /\ upstreamKeys[k].text = "pending" /\ ~Owns(request[o], k)
  BY <1>2, <1>3
<1>5. \A k \in KeyRow : upstreamKeys[k].of = Absent \/ KeepsItsRow(k)
  BY DEF KeepsItsRow
<1>6. /\ provider' \in ProviderRow /\ (provider'.id = 0 => provider' = NoProvider)
      /\ upstreamKeys' \in [KeyRow -> UpstreamKey] /\ rowIds' \in Nat
  BY <1>1
<1> QED
  BY <1>2, <1>4, <1>5, <1>6, ProviderMove

(* A request comes in.                                                     *)
LEMMA ArriveStep ==
    ASSUME ProviderInv, NEW o \in Operator, NEW does, Arrive(o, does),
           NEW r \in Request, request' = [request EXCEPT ![o] = r],
           HoldsItsOwn(r), Stands(Idle) => Stands(r)
    PROVE  ProviderInv'
<1>1. /\ request[o].at = "idle" /\ operations' = operations + 1
      /\ inTurn' = (inTurn /\ OnlyRequest(o))
      /\ UNCHANGED <<upstreamKeys, adapter, defects, rowIds, provider>>
  BY DEF Arrive
<1>2. operations' \in Nat /\ adapter' \in Registered /\ defects' \in Nat
  BY <1>1 DEF ProviderInv, ProviderTypeOK
<1>3. inTurn' \in BOOLEAN
  BY <1>1
<1>4. ASSUME inTurn' PROVE inTurn /\ OnlyRequest(o) /\ Stands(r)'
  <2>1. inTurn /\ OnlyRequest(o) /\ AllIdle
    BY <1>1, <1>4 DEF OnlyRequest, AllIdle
  <2>2. Stands(r)
    BY <2>1 DEF ProviderInv, InTurn
  <2> QED
    BY <1>1, <2>1, <2>2, SameKeys DEF Stands
<1>5. \A k \in EnabledKeys : ~Owns(request[o], k)
  BY <1>1 DEF Owns
<1> QED
  BY <1>1, <1>2, <1>3, <1>4, <1>5, ProviderMoveAside

LEMMA ArrivalStep ==
    ASSUME ProviderInv, NEW o \in Operator,
           \/ BeginCreate(o) \/ BeginUpdate(o) \/ BeginDelete(o) \/ BeginRotate(o) \/ Elsewhere(o)
    PROVE  ProviderInv'
<1>1. /\ provider.id \in Nat /\ (provider # NoProvider => provider.id > 0)
      /\ (provider = NoProvider => provider.id = 0)
      /\ KeysOf(provider.id) \in SUBSET KeyRow
      /\ \A k \in KeysOf(provider.id) : upstreamKeys[k].of = provider.id
  BY DEF ProviderInv, ProviderTypeOK, ProviderRow, KeysOf, NoProvider
<1>2. Idle \in Request /\ Idle.at = "idle"
  BY ProviderAssumption DEF Idle, Request, RequestStep, Operation
<1> DEFINE create == [Idle EXCEPT !.at = "insert", !.does = "create"]
           update == [Idle EXCEPT !.at = "update", !.does = "update"]
           delete == [Idle EXCEPT !.at = "keys", !.does = "delete", !.id = provider.id]
           rotate == [Idle EXCEPT !.at = "strip", !.does = "rotate", !.id = provider.id,
                                  !.keys = KeysOf(provider.id)]
           other == [Idle EXCEPT !.at = "rows", !.does = "elsewhere"]
<1>3. CASE BeginCreate(o)
  <2>1. create \in Request /\ create.at = "insert"
    BY <1>2 DEF Request, RequestStep, Operation
  <2>2. Arrive(o, "create") /\ provider = NoProvider /\ request' = [request EXCEPT ![o] = create]
    BY <1>3 DEF BeginCreate
  <2> HIDE DEF create
  <2> QED
    BY <1>1, <1>2, <2>1, <2>2, ArriveStep DEF HoldsItsOwn, Stands
<1>4. CASE BeginUpdate(o)
  <2>1. update \in Request /\ update.at = "update"
    BY <1>2 DEF Request, RequestStep, Operation
  <2>2. Arrive(o, "update") /\ provider # NoProvider /\ request' = [request EXCEPT ![o] = update]
    BY <1>4 DEF BeginUpdate
  <2> HIDE DEF update
  <2> QED
    BY <1>1, <1>2, <2>1, <2>2, ArriveStep DEF HoldsItsOwn, Stands
<1>5. CASE BeginDelete(o)
  <2>1. delete \in Request /\ delete.at = "keys" /\ delete.id = provider.id
    BY <1>1, <1>2 DEF Request, RequestStep, Operation
  <2>2. Arrive(o, "delete") /\ provider # NoProvider /\ request' = [request EXCEPT ![o] = delete]
    BY <1>5 DEF BeginDelete
  <2> HIDE DEF delete
  <2> QED
    BY <1>1, <1>2, <2>1, <2>2, ArriveStep DEF HoldsItsOwn, Stands
<1>6. CASE BeginRotate(o)
  <2>1. /\ rotate \in Request /\ rotate.at = "strip" /\ rotate.id = provider.id
        /\ rotate.keys = KeysOf(provider.id)
    BY <1>1, <1>2 DEF Request, RequestStep, Operation
  <2>2. Arrive(o, "rotate") /\ provider # NoProvider /\ request' = [request EXCEPT ![o] = rotate]
    BY <1>6 DEF BeginRotate
  <2> HIDE DEF rotate
  <2>3. HoldsItsOwn(rotate)
    BY <1>1, <2>1, <2>2 DEF HoldsItsOwn
  <2>4. Stands(Idle) => Stands(rotate)
    BY <1>1, <2>1, <2>2 DEF Stands
  <2> QED
    BY <2>1, <2>2, <2>3, <2>4, ArriveStep
<1>7. CASE Elsewhere(o)
  <2>1. other \in Request /\ other.at = "rows"
    BY <1>2 DEF Request, RequestStep, Operation
  <2>2. Arrive(o, "elsewhere") /\ request' = [request EXCEPT ![o] = other]
    BY <1>7 DEF Elsewhere
  <2> HIDE DEF other
  <2> QED
    BY <1>2, <2>1, <2>2, ArriveStep DEF HoldsItsOwn, Stands
<1> QED
  BY <1>3, <1>4, <1>5, <1>6, <1>7

(* In turn, a request that has not ended is the only one.                  *)
LEMMA AloneInTurn ==
    ASSUME ProviderInv, inTurn, NEW o \in Operator, request[o].at # "idle"
    PROVE  OnlyRequest(o) /\ Stands(request[o])
BY DEF ProviderInv, InTurn, OnlyRequest

(* Steps that read, and the registry's.                                    *)
LEMMA ReadingStep ==
    ASSUME ProviderInv, NEW o \in Operator, NEW r \in Request,
           request[o].at \notin {"idle", "seal", "strip", "drop"}, r.at \notin {"seal"},
           request' = [request EXCEPT ![o] = r],
           UNCHANGED <<provider, upstreamKeys, rowIds, operations, defects, inTurn>>,
           adapter' \in Registered,
           HoldsItsOwn(r), inTurn /\ Stands(request[o]) => Stands(r)'
    PROVE  ProviderInv'
<1>1. operations' \in Nat /\ defects' \in Nat
  BY DEF ProviderInv, ProviderTypeOK
<1>2. inTurn' \in BOOLEAN
  BY DEF ProviderInv, ProviderTypeOK
<1>3. inTurn' => inTurn /\ OnlyRequest(o) /\ Stands(r)'
  BY AloneInTurn
<1>4. \A k \in EnabledKeys : ~Owns(request[o], k)
  BY DEF Owns
<1> QED
  BY <1>1, <1>2, <1>3, <1>4, ProviderMoveAside

LEMMA RequestType ==
    ASSUME ProviderTypeOK, NEW o \in Operator
    PROVE  /\ request[o] \in Request /\ Idle \in Request /\ Idle.at = "idle"
           /\ \A pc \in RequestStep : /\ [request[o] EXCEPT !.at = pc] \in Request
                                      /\ [request[o] EXCEPT !.at = pc].at = pc
<1>1. request[o] \in Request /\ Idle \in Request /\ Idle.at = "idle"
  BY ProviderAssumption DEF ProviderTypeOK, Idle, Request, RequestStep, Operation
<1> QED
  BY <1>1 DEF Request

LEMMA ReadingSteps ==
    ASSUME ProviderInv, NEW o \in Operator,
           \/ ListKeys(o) \/ Unregister(o) \/ ReadRows(o) \/ FindKey(o) \/ ReadSecret(o) \/ Install(o)
    PROVE  ProviderInv'
<1>1. ProviderTypeOK /\ request[o] \in Request /\ Idle \in Request /\ Idle.at = "idle"
  BY RequestType DEF ProviderInv
<1>2. /\ provider.id \in Nat /\ (provider.id = 0 => provider = NoProvider) /\ adapter \in Registered
      /\ upstreamKeys \in [KeyRow -> UpstreamKey]
      /\ HoldsItsOwn(request[o])
  BY <1>1 DEF ProviderInv, ProviderTypeOK, ProviderRow
<1>3. HoldsItsOwn(Idle)
  BY <1>1 DEF HoldsItsOwn
<1> DEFINE Otherwise == UNCHANGED <<provider, upstreamKeys, rowIds, operations, defects, inTurn>>
<1>4. CASE ListKeys(o)
  <2>0. PICK r : r = [request[o] EXCEPT !.at = "strip", !.keys = KeysOf(request[o].id)]
    OBVIOUS
  <2>1. /\ request[o].at = "keys" /\ request' = [request EXCEPT ![o] = r]
        /\ UNCHANGED adapter /\ Otherwise
    BY <2>0, <1>4 DEF ListKeys, At, Kept, ProviderTypeOK
  <2>2. KeysOf(request[o].id) \in SUBSET KeyRow
    BY DEF KeysOf
  <2>3. r \in Request /\ r.at = "strip" /\ r.id = request[o].id /\ r.keys = KeysOf(request[o].id)
    BY <2>0, <1>1, <2>2 DEF Request, RequestStep
  <2>4. HoldsItsOwn(r)
    BY <1>2, <2>1, <2>3 DEF HoldsItsOwn, KeysOf
  <2>5. Stands(request[o]) => Stands(r)'
    BY <2>1, <2>3 DEF Stands
  <2> QED
    BY <1>2, <2>1, <2>3, <2>4, <2>5, ReadingStep
<1>5. CASE Unregister(o)
  <2>1. /\ request[o].at = "unregister" /\ request' = [request EXCEPT ![o] = Idle]
        /\ adapter' = Unregistered /\ Otherwise
    BY <1>5 DEF Unregister, At, Done, Kept
  <2>2. Stands(request[o]) => Stands(Idle)'
    BY <1>1, <1>2, <2>1 DEF Stands, NoProvider
  <2>3. adapter' \in Registered
    BY <2>1 DEF Registered
  <2> QED
    BY <1>1, <1>3, <2>1, <2>2, <2>3, ReadingStep
<1>6. CASE ReadRows(o) /\ provider.enabled /\ provider.config # "refused"
  <2>0. PICK r : r = [request[o] EXCEPT !.at = "key", !.factory = provider.config # "unmakeable"]
    OBVIOUS
  <2>1. /\ request[o].at = "rows" /\ request' = [request EXCEPT ![o] = r]
        /\ UNCHANGED adapter /\ Otherwise
    BY <2>0, <1>6 DEF ReadRows, At, Kept
  <2>2. r \in Request /\ r.at = "key" /\ (r.factory <=> provider.config # "unmakeable")
    BY <2>0, <1>1 DEF Request, RequestStep
  <2>3. HoldsItsOwn(r) /\ (Stands(request[o]) => Stands(r)')
    BY <1>6, <2>1, <2>2 DEF HoldsItsOwn, Stands
  <2> QED
    BY <1>2, <2>1, <2>2, <2>3, ReadingStep
<1>7. CASE ReadRows(o) /\ ~(provider.enabled /\ provider.config # "refused")
  <2>1. /\ request[o].at = "rows" /\ request' = [request EXCEPT ![o] = Idle]
        /\ UNCHANGED adapter /\ Otherwise
    BY <1>7 DEF ReadRows, At, Done, Kept
  <2>2. Stands(request[o]) => Stands(Idle)'
    BY <1>1, <1>7, <2>1 DEF Stands
  <2> QED
    BY <1>1, <1>2, <1>3, <2>1, <2>2, ReadingStep
<1>8. CASE FindKey(o)
  <2>0. PICK r : r = [request[o] EXCEPT !.at = "secret", !.key = Newest]
    OBVIOUS
  <2>1. /\ request[o].at = "key" /\ request' = [request EXCEPT ![o] = r]
        /\ UNCHANGED adapter /\ Otherwise
    BY <2>0, <1>8 DEF FindKey, At, Kept, Newest
  <2>2. r \in Request /\ r.at = "secret" /\ r.key = Newest /\ r.factory = request[o].factory
    BY <2>0, <1>1, NewestType DEF Request, RequestStep
  <2>3. Newest' = Newest
    BY <2>1, SameKeys
  <2>4. Stands(request[o]) => Stands(r)'
    BY <2>1, <2>2, <2>3 DEF Stands
  <2>5. HoldsItsOwn(r)
    BY <2>2 DEF HoldsItsOwn
  <2> QED
    BY <1>2, <2>1, <2>2, <2>4, <2>5, ReadingStep
<1>9. CASE ReadSecret(o)
  <2>0. PICK r : r = [request[o] EXCEPT !.at = "install", !.key = Credential(request[o].key)]
    OBVIOUS
  <2>1. /\ request[o].at = "secret" /\ request' = [request EXCEPT ![o] = r]
        /\ UNCHANGED adapter /\ Otherwise
    BY <2>0, <1>9 DEF ReadSecret, At, Kept
  <2>2. Credential(request[o].key) \in 0..MaxKeyRows
    BY <1>1, ProviderAssumption DEF Credential, Request
  <2>3. /\ r \in Request /\ r.at = "install" /\ r.key = Credential(request[o].key)
        /\ r.factory = request[o].factory
    BY <2>0, <1>1, <2>2 DEF Request, RequestStep
  <2>4. InUse' = InUse
    BY <2>1, SameKeys
  <2>5. Stands(request[o]) => Stands(r)'
    BY <2>1, <2>3, <2>4 DEF Stands, InUse
  <2>6. HoldsItsOwn(r)
    BY <2>3 DEF HoldsItsOwn
  <2> QED
    BY <1>2, <2>1, <2>3, <2>5, <2>6, ReadingStep
<1>10. CASE Install(o)
  <2>1. /\ request[o].at = "install" /\ request' = [request EXCEPT ![o] = Idle]
        /\ adapter' = IF request[o].factory THEN request[o].key ELSE adapter
        /\ Otherwise
    BY <1>10 DEF Install, At, Done, Kept
  <2>2. adapter' \in Registered
    BY <1>1, <1>2, <2>1 DEF Registered, Request
  <2>3. InUse' = InUse
    BY <2>1, SameKeys
  <2>4. Stands(request[o]) => Stands(Idle)'
    BY <1>1, <1>2, <2>1, <2>3 DEF Stands, NoProvider
  <2> QED
    BY <1>1, <1>3, <2>1, <2>2, <2>4, ReadingStep
<1> QED
  BY <1>4, <1>5, <1>6, <1>7, <1>8, <1>9, <1>10

(* Steps that end what a request waits for without a write.                *)
LEMMA RefusalStep ==
    ASSUME ProviderInv, NEW o \in Operator, request[o].at \in {"insert", "update", "attach", "drop", "seal"},
           request' = [request EXCEPT ![o] = Idle],
           UNCHANGED <<provider, upstreamKeys, adapter, rowIds, operations, defects, inTurn>>,
           ~Stands(request[o]),
           request[o].at = "drop" => provider.id = 0,
           request[o].at = "seal" => upstreamKeys[request[o].key].of = Removed
    PROVE  ProviderInv'
<1>1. /\ Idle \in Request /\ Idle.at = "idle" /\ operations' \in Nat /\ defects' \in Nat
      /\ adapter' \in Registered
  BY RequestType DEF ProviderInv, ProviderTypeOK
<1>2. inTurn' \in BOOLEAN
  BY DEF ProviderInv, ProviderTypeOK
<1>3. \A k \in EnabledKeys : ~Owns(request[o], k)
  <2>1. \A k \in EnabledKeys : upstreamKeys[k].of = provider.id /\ provider.id > 0
    BY DEF EnabledKeys, KeysOf
  <2> QED
    BY <2>1 DEF Owns, Removed
<1>4. HoldsItsOwn(Idle)
  BY <1>1 DEF HoldsItsOwn
<1>5. ~inTurn'
  BY AloneInTurn
<1> QED
  BY <1>1, <1>2, <1>3, <1>4, <1>5, ProviderMoveAside

(* A query that writes the table.                                          *)
LEMMA WritingStep ==
    ASSUME ProviderInv, NEW o \in Operator, NEW r \in Request, request[o].at # "idle",
           request' = [request EXCEPT ![o] = r],
           UNCHANGED <<adapter, operations, defects, inTurn>>,
           provider' \in ProviderRow, provider'.id = 0 => provider' = NoProvider,
           upstreamKeys' \in [KeyRow -> UpstreamKey], rowIds' \in Nat,
           OwnKeysOnly', HoldsItsOwn(r)',
           \A k \in KeyRow : upstreamKeys[k].of = Absent \/ KeepsItsRow(k),
           \A k \in EnabledKeys' :
               \/ upstreamKeys'[k].text # "pending" \/ Owns(r, k)'
               \/ /\ provider'.id = provider.id
                  /\ k \in EnabledKeys /\ upstreamKeys[k].text = "pending" /\ ~Owns(request[o], k),
           inTurn /\ Stands(request[o]) => Stands(r)'
    PROVE  ProviderInv'
<1>1. operations' \in Nat /\ defects' \in Nat /\ adapter' \in Registered
  BY DEF ProviderInv, ProviderTypeOK
<1>2. inTurn' \in BOOLEAN
  BY DEF ProviderInv, ProviderTypeOK
<1>3. inTurn' => inTurn /\ OnlyRequest(o) /\ Stands(r)'
  BY AloneInTurn
<1>4. defects' = 0 => defects = 0
  OBVIOUS
<1> QED
  BY <1>1, <1>2, <1>3, <1>4, ProviderMove

LEMMA RowSteps ==
    ASSUME ProviderInv, NEW o \in Operator, Insert(o) \/ Update(o) \/ Drop(o)
    PROVE  ProviderInv'
<1>1. ProviderTypeOK /\ request[o] \in Request /\ OwnKeysOnly
  BY RequestType DEF ProviderInv
<1>2. /\ provider \in ProviderRow /\ (provider.id = 0 <=> provider = NoProvider)
      /\ upstreamKeys \in [KeyRow -> UpstreamKey] /\ rowIds \in Nat
  BY <1>1 DEF ProviderTypeOK, ProviderRow, NoProvider
<1>3. CASE Insert(o) /\ provider # NoProvider
  <2>1. /\ request[o].at = "insert" /\ request' = [request EXCEPT ![o] = Idle]
        /\ UNCHANGED <<provider, upstreamKeys, adapter, rowIds, operations, defects, inTurn>>
    BY <1>3 DEF Insert, At, Done, Kept
  <2>2. ~Stands(request[o])
    BY <1>2, <1>3, <2>1 DEF Stands
  <2> QED
    BY <2>1, <2>2, RefusalStep
<1>4. CASE Insert(o) /\ provider = NoProvider
  <2>1. PICK enabled \in BOOLEAN, config \in Config, next \in {"attach", "rows"} :
          /\ request[o].at = "insert" /\ rowIds' = rowIds + 1
          /\ provider' = [id |-> rowIds', enabled |-> enabled, config |-> config]
          /\ request' = [request EXCEPT ![o].at = next, ![o].id = rowIds']
          /\ UNCHANGED <<upstreamKeys, adapter, operations, defects, inTurn>>
    BY <1>4 DEF Insert, At, Kept
  <2>2. PICK r : r = [request[o] EXCEPT !.at = next, !.id = rowIds']
    OBVIOUS
  <2>3. /\ rowIds' \in Nat /\ rowIds' > 0 /\ provider'.id = rowIds'
        /\ provider' \in ProviderRow /\ upstreamKeys' \in [KeyRow -> UpstreamKey]
    BY <1>2, <2>1 DEF ProviderRow
  <2>4. r \in Request /\ r.at = next /\ r.id = rowIds' /\ request' = [request EXCEPT ![o] = r]
    BY <1>1, <2>1, <2>2, <2>3 DEF Request, RequestStep, ProviderTypeOK
  <2>5. \A k \in KeyRow : upstreamKeys'[k].of \in {Absent, Removed} /\ upstreamKeys'[k].of # provider'.id
    BY <1>1, <1>2, <1>4, <2>1, <2>3 DEF OwnKeysOnly, Absent, Removed
  <2>6. OwnKeysOnly' /\ EnabledKeys' = {} /\ HoldsItsOwn(r)'
    BY <2>4, <2>5 DEF OwnKeysOnly, EnabledKeys, KeysOf, HoldsItsOwn
  <2>7. Stands(request[o]) => Stands(r)'
    BY <2>1, <2>3, <2>4 DEF Stands
  <2>8. provider'.id # 0 /\ request[o].at # "idle" /\ \A k \in KeyRow : KeepsItsRow(k)
    BY <2>1, <2>3 DEF KeepsItsRow
  <2> QED
    BY <2>1, <2>3, <2>4, <2>6, <2>7, <2>8, WritingStep
<1>5. CASE Update(o) /\ provider = NoProvider
  <2>1. /\ request[o].at = "update" /\ request' = [request EXCEPT ![o] = Idle]
        /\ UNCHANGED <<provider, upstreamKeys, adapter, rowIds, operations, defects, inTurn>>
    BY <1>5 DEF Update, At, Done, Kept
  <2>2. ~Stands(request[o])
    BY <1>2, <1>5, <2>1 DEF Stands
  <2> QED
    BY <2>1, <2>2, RefusalStep
<1>6. CASE Update(o) /\ provider # NoProvider
  <2>1. PICK enabled \in BOOLEAN, config \in Config :
          /\ request[o].at = "update" /\ (config = "unmakeable" <=> provider.config = "unmakeable")
          /\ provider' = [id |-> provider.id, enabled |-> enabled, config |-> config]
          /\ request' = [request EXCEPT ![o].at = "rows"]
          /\ UNCHANGED <<upstreamKeys, adapter, rowIds, operations, defects, inTurn>>
    BY <1>6 DEF Update, At, Go, Kept
  <2>2. PICK r : r = [request[o] EXCEPT !.at = "rows"]
    OBVIOUS
  <2>3. r \in Request /\ r.at = "rows" /\ request' = [request EXCEPT ![o] = r]
    BY <1>1, <2>1, <2>2 DEF Request, RequestStep
  <2>4. /\ provider'.id = provider.id /\ provider.id > 0
        /\ provider' \in ProviderRow /\ upstreamKeys' \in [KeyRow -> UpstreamKey]
        /\ provider'.config = "unmakeable" <=> provider.config = "unmakeable"
    BY <1>2, <1>6, <2>1 DEF ProviderRow, NoProvider
  <2>5. OwnKeysOnly' /\ EnabledKeys' = EnabledKeys /\ HoldsItsOwn(r)'
    BY <1>1, <2>1, <2>3, <2>4 DEF OwnKeysOnly, EnabledKeys, KeysOf, HoldsItsOwn
  <2>6. Stands(request[o]) => Stands(r)'
    BY <2>1, <2>3, <2>4 DEF Stands
  <2>7. /\ \A k : ~Owns(request[o], k)
        /\ provider'.id # 0 /\ request[o].at # "idle" /\ rowIds' \in Nat
    BY <1>2, <2>1, <2>4 DEF Owns
  <2>8. /\ \A k \in EnabledKeys' : upstreamKeys'[k].text = upstreamKeys[k].text /\ k \in EnabledKeys
        /\ \A k \in KeyRow : KeepsItsRow(k)
    BY <2>1, <2>5 DEF KeepsItsRow
  <2> QED
    BY <2>1, <2>3, <2>4, <2>5, <2>6, <2>7, <2>8, WritingStep
<1>7. CASE Drop(o) /\ provider = NoProvider
  <2>1. /\ request[o].at = "drop" /\ request' = [request EXCEPT ![o] = Idle]
        /\ UNCHANGED <<provider, upstreamKeys, adapter, rowIds, operations, defects, inTurn>>
    BY <1>7 DEF Drop, At, Done, Kept
  <2>2. ~Stands(request[o]) /\ provider.id = 0
    BY <1>2, <1>7, <2>1 DEF Stands
  <2> QED
    BY <2>1, <2>2, RefusalStep
<1>8. CASE Drop(o) /\ provider # NoProvider
  <2>1. /\ request[o].at = "drop" /\ provider' = NoProvider
        /\ upstreamKeys' = Without(provider.id)
        /\ request' = [request EXCEPT ![o].at = "unregister"]
        /\ UNCHANGED <<adapter, rowIds, operations, defects, inTurn>>
    BY <1>8 DEF Drop, At, Go, Kept
  <2>2. PICK r : r = [request[o] EXCEPT !.at = "unregister"]
    OBVIOUS
  <2>3. r \in Request /\ r.at = "unregister" /\ request' = [request EXCEPT ![o] = r]
    BY <1>1, <2>1, <2>2 DEF Request, RequestStep
  <2>4. \A k \in KeyRow : /\ upstreamKeys'[k] \in UpstreamKey
                          /\ KeepsItsRow(k)
                          /\ upstreamKeys'[k].of \in {Absent, Removed}
    BY <1>1, <1>2, <1>8, <2>1 DEF KeepsItsRow, Without, KeysOf, OwnKeysOnly, KeyOf, UpstreamKey, Absent, Removed
  <2>5. upstreamKeys' \in [KeyRow -> UpstreamKey]
    BY <2>1, <2>4 DEF Without
  <2>6. provider' \in ProviderRow /\ provider'.id = 0 /\ provider'.config = "none"
    BY <2>1 DEF NoProvider, ProviderRow
  <2>7. OwnKeysOnly' /\ EnabledKeys' = {} /\ HoldsItsOwn(r)' /\ Stands(r)'
    BY <2>3, <2>4, <2>6 DEF OwnKeysOnly, EnabledKeys, KeysOf, HoldsItsOwn, Stands
  <2> QED
    BY <1>2, <2>1, <2>3, <2>4, <2>5, <2>6, <2>7, WritingStep
<1> QED
  BY <1>3, <1>4, <1>5, <1>6, <1>7, <1>8

LEMMA KeySteps ==
    ASSUME ProviderInv, NEW o \in Operator, Strip(o) \/ Disable(o) \/ DropKeys(o) \/ Attach(o) \/ Seal(o)
    PROVE  ProviderInv'
<1>1. ProviderTypeOK /\ request[o] \in Request /\ OwnKeysOnly /\ HoldsItsOwn(request[o])
  BY RequestType DEF ProviderInv
<1>2. /\ provider \in ProviderRow /\ (provider.id = 0 => provider = NoProvider)
      /\ upstreamKeys \in [KeyRow -> UpstreamKey] /\ rowIds \in Nat
  BY <1>1 DEF ProviderTypeOK
<1>3. /\ request[o].keys \in SUBSET KeyRow /\ request[o].id \in Nat /\ KeyRow \in SUBSET Nat
      /\ 0 \notin KeyRow
  BY <1>1 DEF Request, KeyRow
<1>4. CASE Strip(o)
  <2>1. PICK k : k = Min(request[o].keys)
    OBVIOUS
  <2>2. /\ request[o].at = "strip" /\ request[o].keys # {}
        /\ request' = [request EXCEPT ![o].keys = @ \ {k}]
        /\ upstreamKeys' = [upstreamKeys EXCEPT ![k].text = "pending"]
        /\ UNCHANGED <<provider, adapter, rowIds, operations, defects, inTurn>>
    BY <1>4, <2>1 DEF Strip, At, Kept
  <2>3. k \in request[o].keys /\ k \in KeyRow
    BY <1>3, <2>1, <2>2, MinIsMember
  <2>4. PICK r : r = [request[o] EXCEPT !.keys = @ \ {k}]
    OBVIOUS
  <2>5. /\ r \in Request /\ r.at = "strip" /\ r.id = request[o].id /\ r.keys \in SUBSET request[o].keys
        /\ request' = [request EXCEPT ![o] = r]
    BY <1>1, <2>2, <2>4 DEF Request
  <2>6. /\ upstreamKeys' \in [KeyRow -> UpstreamKey]
        /\ \A j \in KeyRow : /\ upstreamKeys'[j].of = upstreamKeys[j].of
                             /\ upstreamKeys'[j].enabled = upstreamKeys[j].enabled
                             /\ j # k => upstreamKeys'[j].text = upstreamKeys[j].text
    BY <1>2, <2>2, <2>3 DEF UpstreamKey
  <2>7. OwnKeysOnly' /\ EnabledKeys' = EnabledKeys
    BY <1>1, <2>2, <2>6 DEF OwnKeysOnly, EnabledKeys, KeysOf
  <2>8. HoldsItsOwn(r)'
    BY <1>1, <1>3, <2>2, <2>5, <2>6 DEF HoldsItsOwn
  <2>9. ASSUME NEW j \in EnabledKeys'
        PROVE  \/ upstreamKeys'[j].text # "pending" \/ Owns(r, j)'
               \/ /\ provider'.id = provider.id
                  /\ j \in EnabledKeys /\ upstreamKeys[j].text = "pending" /\ ~Owns(request[o], j)
    <3>1. j \in EnabledKeys /\ j \in KeyRow /\ upstreamKeys[j].of = provider.id /\ provider.id > 0
      BY <2>7, <2>9 DEF EnabledKeys, KeysOf
    <3>2. CASE r.id = provider.id
      BY <2>2, <2>5, <3>2 DEF Owns
    <3>3. CASE r.id # provider.id
      <4>1. upstreamKeys[k].of \in {r.id, Removed}
        BY <1>1, <2>2, <2>3, <2>5 DEF HoldsItsOwn
      <4>2. j # k
        BY <3>1, <3>3, <4>1 DEF Removed
      <4>3. ~Owns(request[o], j)
        BY <2>2, <2>5, <3>3 DEF Owns
      <4> QED
        BY <2>2, <2>6, <3>1, <4>2, <4>3
    <3> QED
      BY <3>2, <3>3
  <2>10. Stands(request[o]) => Stands(r)'
    BY <2>2, <2>5 DEF Stands
  <2>11. \A j \in KeyRow : KeepsItsRow(j)
    BY <2>6 DEF KeepsItsRow
  <2>12. /\ provider' \in ProviderRow /\ (provider'.id = 0 => provider' = NoProvider)
         /\ rowIds' \in Nat /\ request[o].at # "idle"
    BY <1>2, <2>2
  <2> QED
    BY <2>2, <2>5, <2>6, <2>7, <2>8, <2>9, <2>10, <2>11, <2>12, WritingStep
<1>5. CASE Disable(o)
  <2>1. PICK r : r = [request[o] EXCEPT !.at = "attach"]
    OBVIOUS
  <2>2. /\ request[o].at = "strip" /\ request' = [request EXCEPT ![o] = r]
        /\ upstreamKeys' = [k \in KeyRow |-> IF k \in KeysOf(request[o].id)
                                             THEN [upstreamKeys[k] EXCEPT !.enabled = FALSE]
                                             ELSE upstreamKeys[k]]
        /\ UNCHANGED <<provider, adapter, rowIds, operations, defects, inTurn>>
    BY <1>5, <2>1 DEF Disable, At, Go, Kept
  <2>3. r \in Request /\ r.at = "attach" /\ r.id = request[o].id
    BY <1>1, <2>1 DEF Request, RequestStep
  <2>4. \A j \in KeyRow : /\ upstreamKeys'[j] \in UpstreamKey
                          /\ upstreamKeys'[j].of = upstreamKeys[j].of
                          /\ upstreamKeys'[j].text = upstreamKeys[j].text
                          /\ upstreamKeys'[j].enabled => /\ upstreamKeys[j].enabled
                                                         /\ j \notin KeysOf(request[o].id)
    BY <1>2, <2>2 DEF UpstreamKey
  <2>5. upstreamKeys' \in [KeyRow -> UpstreamKey]
    <3>1. upstreamKeys' = [j \in KeyRow |-> upstreamKeys'[j]]
      BY <2>2
    <3> QED
      BY <2>4, <3>1
  <2>6. OwnKeysOnly' /\ HoldsItsOwn(r)'
    BY <1>1, <2>2, <2>3, <2>4 DEF OwnKeysOnly, HoldsItsOwn
  <2>7. \A j \in EnabledKeys' : /\ j \in EnabledKeys /\ upstreamKeys'[j].text = upstreamKeys[j].text
                                /\ ~Owns(request[o], j)
    <3> TAKE j \in EnabledKeys'
    <3>1. /\ j \in KeyRow /\ upstreamKeys'[j].of = provider.id /\ provider.id > 0
          /\ upstreamKeys'[j].enabled
      BY <2>2 DEF EnabledKeys, KeysOf
    <3>2. upstreamKeys[j].of = provider.id /\ upstreamKeys[j].enabled /\ j \notin KeysOf(request[o].id)
      BY <2>4, <3>1
    <3>4. j \in EnabledKeys /\ j \in KeysOf(provider.id)
      BY <3>1, <3>2 DEF EnabledKeys, KeysOf
    <3>3. request[o].id # provider.id
      BY <3>2, <3>4
    <3> QED
      BY <2>2, <2>4, <3>1, <3>3, <3>4 DEF Owns
  <2>8. Stands(request[o]) => Stands(r)'
    BY <2>2, <2>3 DEF Stands
  <2>9. \A j \in KeyRow : KeepsItsRow(j)
    BY <2>4 DEF KeepsItsRow
  <2>10. /\ provider' \in ProviderRow /\ (provider'.id = 0 => provider' = NoProvider)
         /\ rowIds' \in Nat /\ request[o].at # "idle" /\ provider'.id = provider.id
    BY <1>2, <2>2
  <2> QED
    BY <2>2, <2>3, <2>5, <2>6, <2>7, <2>8, <2>9, <2>10, WritingStep
<1>6. CASE DropKeys(o)
  <2>1. PICK r : r = [request[o] EXCEPT !.at = "drop"]
    OBVIOUS
  <2>2. /\ request[o].at = "strip" /\ request' = [request EXCEPT ![o] = r]
        /\ upstreamKeys' = Without(request[o].id)
        /\ UNCHANGED <<provider, adapter, rowIds, operations, defects, inTurn>>
    BY <1>6, <2>1 DEF DropKeys, At, Go, Kept
  <2>3. r \in Request /\ r.at = "drop" /\ r.id = request[o].id
    BY <1>1, <2>1 DEF Request, RequestStep
  <2>4. \A j \in KeyRow : /\ upstreamKeys'[j] \in UpstreamKey
                          /\ upstreamKeys'[j] = upstreamKeys[j] \/ upstreamKeys'[j].of = Removed
    BY <1>2, <2>2 DEF UpstreamKey, Without, KeyOf, Removed
  <2>5. upstreamKeys' \in [KeyRow -> UpstreamKey]
    <3>1. upstreamKeys' = [j \in KeyRow |-> upstreamKeys'[j]]
      BY <2>2 DEF Without
    <3> QED
      BY <2>4, <3>1
  <2>6. OwnKeysOnly' /\ HoldsItsOwn(r)'
    BY <1>1, <2>2, <2>3, <2>4 DEF OwnKeysOnly, HoldsItsOwn
  <2>7. \A j \in EnabledKeys' : /\ j \in EnabledKeys /\ upstreamKeys'[j].text = upstreamKeys[j].text
                                /\ Owns(r, j)' \/ ~Owns(request[o], j)
    <3> TAKE j \in EnabledKeys'
    <3>1. /\ j \in KeyRow /\ upstreamKeys'[j].of = provider.id /\ provider.id > 0
          /\ upstreamKeys'[j].enabled
      BY <2>2 DEF EnabledKeys, KeysOf
    <3>2. upstreamKeys'[j] = upstreamKeys[j]
      BY <2>4, <3>1 DEF Removed
    <3> QED
      BY <2>2, <2>3, <3>1, <3>2 DEF EnabledKeys, KeysOf, Owns
  <2>8. Stands(request[o]) => Stands(r)'
    BY <2>2, <2>3 DEF Stands
  <2>9. \A j \in KeyRow : KeepsItsRow(j)
    BY <2>4 DEF KeepsItsRow
  <2>10. /\ provider' \in ProviderRow /\ (provider'.id = 0 => provider' = NoProvider)
         /\ rowIds' \in Nat /\ request[o].at # "idle" /\ provider'.id = provider.id
    BY <1>2, <2>2
  <2>11. \A j \in EnabledKeys' :
            \/ upstreamKeys'[j].text # "pending" \/ Owns(r, j)'
            \/ /\ provider'.id = provider.id
               /\ j \in EnabledKeys /\ upstreamKeys[j].text = "pending" /\ ~Owns(request[o], j)
    BY <2>7, <2>10
  <2> QED
    BY <2>2, <2>3, <2>5, <2>6, <2>8, <2>9, <2>10, <2>11, WritingStep
<1>7. CASE Attach(o) /\ provider.id # request[o].id
  <2>1. /\ request[o].at = "attach" /\ request' = [request EXCEPT ![o] = Idle]
        /\ UNCHANGED <<provider, upstreamKeys, adapter, rowIds, operations, defects, inTurn>>
    BY <1>7 DEF Attach, At, Done, Kept
  <2>2. ~Stands(request[o])
    BY <1>7, <2>1 DEF Stands
  <2> QED
    BY <2>1, <2>2, RefusalStep
<1>8. CASE Attach(o) /\ provider.id = request[o].id
  <2>1. PICK k \in KeyRow :
          /\ request[o].at = "attach"
          /\ \A j \in KeyRow : upstreamKeys[j].of = Absent <=> j >= k
          /\ upstreamKeys' = [upstreamKeys EXCEPT ![k] = KeyOf(request[o].id)]
          /\ request' = [request EXCEPT ![o].at = "seal", ![o].key = k]
          /\ UNCHANGED <<provider, adapter, rowIds, operations, defects, inTurn>>
    BY <1>8 DEF Attach, At, Kept
  <2>2. PICK r : r = [request[o] EXCEPT !.at = "seal", !.key = k]
    OBVIOUS
  <2>3. r \in Request /\ r.at = "seal" /\ r.key = k /\ request' = [request EXCEPT ![o] = r]
    <3>1. k \in 0..MaxKeyRows
      BY ProviderAssumption DEF KeyRow
    <3> QED
      BY <1>1, <2>1, <2>2, <3>1 DEF Request, RequestStep
  <2>4. /\ upstreamKeys[k].of = Absent /\ upstreamKeys' \in [KeyRow -> UpstreamKey]
        /\ upstreamKeys'[k].of = provider.id
        /\ \A j \in KeyRow : j # k => upstreamKeys'[j] = upstreamKeys[j]
    BY <1>2, <1>3, <1>8, <2>1 DEF KeyOf, UpstreamKey
  <2>5. OwnKeysOnly'
    BY <1>1, <2>1, <2>4 DEF OwnKeysOnly
  <2>6. HoldsItsOwn(r)'
    BY <2>3 DEF HoldsItsOwn
  <2>7. Stands(request[o]) => Stands(r)'
    BY <1>2, <2>1, <2>3, <2>4 DEF Stands, Removed
  <2>8. \A j \in EnabledKeys' :
           \/ Owns(r, j)'
           \/ j \in EnabledKeys /\ upstreamKeys'[j].text = upstreamKeys[j].text
    BY <2>1, <2>3, <2>4 DEF Owns, EnabledKeys, KeysOf
  <2>9. \A j : ~Owns(request[o], j)
    BY <2>1 DEF Owns
  <2>10. \A j \in KeyRow : \/ upstreamKeys[j].of = Absent
                           \/ KeepsItsRow(j)
    BY <2>4 DEF KeepsItsRow
  <2>11. /\ provider' \in ProviderRow /\ (provider'.id = 0 => provider' = NoProvider)
         /\ rowIds' \in Nat /\ request[o].at # "idle" /\ provider'.id = provider.id
    BY <1>2, <2>1
  <2> QED
    BY <2>1, <2>3, <2>4, <2>5, <2>6, <2>7, <2>8, <2>9, <2>10, <2>11, WritingStep
<1>9. CASE Seal(o) /\ KeyGone(o)
  <2>1. /\ request[o].at = "seal" /\ request' = [request EXCEPT ![o] = Idle]
        /\ UNCHANGED <<provider, upstreamKeys, adapter, rowIds, operations, defects, inTurn>>
    BY <1>9 DEF Seal, At, Done, Kept
  <2>2. upstreamKeys[request[o].key].of = Removed
    BY <1>9 DEF KeyGone
  <2>3. ~Stands(request[o])
    BY <2>1, <2>2 DEF Stands
  <2> QED
    BY <2>1, <2>2, <2>3, RefusalStep
<1>10. CASE Seal(o) /\ ~KeyGone(o)
  <2>1. PICK k : k = request[o].key
    OBVIOUS
  <2>2. PICK r : r = [request[o] EXCEPT !.at = "rows"]
    OBVIOUS
  <2>3. /\ request[o].at = "seal" /\ request' = [request EXCEPT ![o] = r]
        /\ upstreamKeys' = [upstreamKeys EXCEPT ![k].text = "sealed"]
        /\ UNCHANGED <<provider, adapter, rowIds, operations, defects, inTurn>>
    BY <1>10, <2>1, <2>2 DEF Seal, At, Go, Kept
  <2>4. r \in Request /\ r.at = "rows" /\ k \in KeyRow
    BY <1>1, <2>1, <2>2, <2>3 DEF Request, RequestStep, HoldsItsOwn
  <2>5. /\ upstreamKeys' \in [KeyRow -> UpstreamKey] /\ upstreamKeys'[k].text = "sealed"
        /\ \A j \in KeyRow : /\ upstreamKeys'[j].of = upstreamKeys[j].of
                             /\ upstreamKeys'[j].enabled = upstreamKeys[j].enabled
                             /\ j # k => upstreamKeys'[j].text = upstreamKeys[j].text
    BY <1>2, <2>3, <2>4 DEF UpstreamKey
  <2>6. OwnKeysOnly' /\ EnabledKeys' = EnabledKeys /\ HoldsItsOwn(r)'
    BY <1>1, <2>3, <2>4, <2>5 DEF OwnKeysOnly, EnabledKeys, KeysOf, HoldsItsOwn
  <2>7. Stands(request[o]) => Stands(r)'
    BY <1>2, <2>3, <2>4 DEF Stands
  <2>8. \A j \in EnabledKeys' :
          \/ upstreamKeys'[j].text # "pending"
          \/ /\ j \in EnabledKeys /\ upstreamKeys'[j].text = upstreamKeys[j].text
             /\ ~Owns(request[o], j)
    <3> TAKE j \in EnabledKeys'
    <3>1. j \in EnabledKeys /\ j \in KeyRow
      BY <2>6 DEF EnabledKeys, KeysOf
    <3> QED
      BY <2>1, <2>3, <2>5, <3>1 DEF Owns
  <2>9. \A j \in KeyRow : KeepsItsRow(j)
    BY <2>5 DEF KeepsItsRow
  <2>10. /\ provider' \in ProviderRow /\ (provider'.id = 0 => provider' = NoProvider)
         /\ rowIds' \in Nat /\ request[o].at # "idle" /\ provider'.id = provider.id
    BY <1>2, <2>3
  <2> QED
    BY <2>3, <2>4, <2>5, <2>6, <2>7, <2>8, <2>9, <2>10, WritingStep, ZenonT(30)
<1> QED
  BY <1>4, <1>5, <1>6, <1>7, <1>8, <1>9, <1>10

(* A defect ends the turn, and a restart begins another one.               *)
LEMMA DefectStep ==
    ASSUME ProviderInv, NEW o \in Operator, NEW r \in Request,
           request' = [request EXCEPT ![o] = r],
           Defect, ~inTurn', inTurn' \in BOOLEAN,
           UNCHANGED <<provider, adapter, operations, rowIds>>,
           upstreamKeys' \in [KeyRow -> UpstreamKey],
           \A k \in KeyRow : KeepsItsRow(k),
           HoldsItsOwn(r)'
    PROVE  ProviderInv'
<1>1. /\ provider' \in ProviderRow /\ (provider'.id = 0 => provider' = NoProvider)
      /\ adapter' \in Registered /\ operations' \in Nat /\ rowIds' \in Nat
  BY DEF ProviderInv, ProviderTypeOK
<1>2. defects' \in Nat /\ defects' # 0
  BY DEF ProviderInv, ProviderTypeOK, Defect
<1>3. OwnKeysOnly'
  BY DEF ProviderInv, OwnKeysOnly, KeepsItsRow
<1> QED
  BY <1>1, <1>2, <1>3, ProviderMove

LEMMA QueryFailsStep ==
    ASSUME ProviderInv, NEW o \in Operator, QueryFails(o)
    PROVE  ProviderInv'
<1>1. /\ ProviderTypeOK /\ request[o] \in Request /\ HoldsItsOwn(request[o])
      /\ Idle \in Request /\ Idle.at = "idle"
  BY RequestType DEF ProviderInv
<1>2. /\ request[o].keys \in SUBSET KeyRow /\ KeyRow \in SUBSET Nat
      /\ upstreamKeys \in [KeyRow -> UpstreamKey]
  BY <1>1 DEF Request, KeyRow, ProviderTypeOK
<1>3. Defect /\ ~inTurn' /\ UNCHANGED <<provider, adapter, operations, rowIds>>
  BY DEF QueryFails
<1>4. inTurn' \in BOOLEAN
  BY DEF QueryFails
<1>5. HoldsItsOwn(Idle)'
  BY <1>1 DEF HoldsItsOwn
<1>6. CASE request' = [request EXCEPT ![o] = Idle] /\ UNCHANGED upstreamKeys
  BY <1>1, <1>2, <1>3, <1>4, <1>5, <1>6, DefectStep DEF KeepsItsRow
<1>7. CASE /\ request[o].at = "strip" /\ request[o].keys # {}
           /\ request' = [request EXCEPT ![o].keys = @ \ {Min(@)}] /\ UNCHANGED upstreamKeys
  <2>1. PICK r : r = [request[o] EXCEPT !.keys = @ \ {Min(@)}]
    OBVIOUS
  <2>2. /\ r \in Request /\ r.at = "strip" /\ r.id = request[o].id /\ r.keys \in SUBSET request[o].keys
        /\ request' = [request EXCEPT ![o] = r]
    BY <1>1, <1>7, <2>1 DEF Request
  <2>3. HoldsItsOwn(r)'
    BY <1>1, <1>2, <1>7, <2>2 DEF HoldsItsOwn
  <2> QED
    BY <1>2, <1>3, <1>4, <1>7, <2>2, <2>3, DefectStep DEF KeepsItsRow
<1>8. CASE /\ request[o].at = "secret" /\ UNCHANGED upstreamKeys
           /\ request' = [request EXCEPT ![o].at = "install", ![o].key = 0]
  <2>1. PICK r : r = [request[o] EXCEPT !.at = "install", !.key = 0]
    OBVIOUS
  <2>2. r \in Request /\ r.at = "install" /\ request' = [request EXCEPT ![o] = r]
    <3>1. 0 \in 0..MaxKeyRows
      BY ProviderAssumption
    <3> QED
      BY <1>1, <1>8, <2>1, <3>1 DEF Request, RequestStep
  <2>3. HoldsItsOwn(r)'
    BY <2>2 DEF HoldsItsOwn
  <2> QED
    BY <1>2, <1>3, <1>4, <1>8, <2>2, <2>3, DefectStep DEF KeepsItsRow
<1>9. CASE /\ upstreamKeys' = [upstreamKeys EXCEPT ![request[o].key] = KeyOf(Removed)]
           /\ request' = [request EXCEPT ![o] = Idle] /\ request[o].at = "seal"
  <2>1. /\ upstreamKeys' \in [KeyRow -> UpstreamKey]
        /\ \A k \in KeyRow : upstreamKeys'[k] = upstreamKeys[k] \/ upstreamKeys'[k].of = Removed
    BY <1>1, <1>2, <1>9 DEF HoldsItsOwn, KeyOf, UpstreamKey, Removed
  <2>2. \A k \in KeyRow : KeepsItsRow(k)
    BY <2>1 DEF KeepsItsRow
  <2> QED
    BY <1>1, <1>3, <1>4, <1>5, <1>9, <2>1, <2>2, DefectStep
<1>10. CASE /\ upstreamKeys' = [upstreamKeys EXCEPT ![request[o].key].text = "plain"]
            /\ request' = [request EXCEPT ![o].at = "rows"] /\ request[o].at = "seal"
  <2>1. PICK r : r = [request[o] EXCEPT !.at = "rows"]
    OBVIOUS
  <2>2. r \in Request /\ r.at = "rows" /\ request' = [request EXCEPT ![o] = r]
    BY <1>1, <1>10, <2>1 DEF Request, RequestStep
  <2>3. /\ upstreamKeys' \in [KeyRow -> UpstreamKey]
        /\ \A k \in KeyRow : upstreamKeys'[k].of = upstreamKeys[k].of
    BY <1>1, <1>2, <1>10 DEF HoldsItsOwn, UpstreamKey
  <2>4. HoldsItsOwn(r)' /\ \A k \in KeyRow : KeepsItsRow(k)
    BY <2>2, <2>3 DEF HoldsItsOwn, KeepsItsRow
  <2> QED
    BY <1>3, <1>4, <2>2, <2>3, <2>4, DefectStep
<1> QED
  BY <1>6, <1>7, <1>8, <1>9, <1>10 DEF QueryFails, At, Go, Done

LEMMA RebootStep == ASSUME ProviderInv, Reboot PROVE ProviderInv'
<1>1. ProviderTypeOK /\ OwnKeysOnly
  BY DEF ProviderInv
<1>2. PICK o \in Operator :
        request' = [[p \in Operator |-> Idle] EXCEPT ![o] = [Idle EXCEPT !.at = "rows", !.does = "boot"]]
  BY DEF Reboot
<1>3. /\ defects' = defects + 1 /\ adapter' = Unregistered
      /\ UNCHANGED <<provider, upstreamKeys, operations, rowIds>>
  BY DEF Reboot, Defect
<1>4. inTurn' = TRUE
  BY DEF Reboot
<1>5. Idle \in Request /\ Idle.at = "idle"
  BY ProviderAssumption DEF Idle, Request, RequestStep, Operation
<1>6. PICK r : r = [Idle EXCEPT !.at = "rows", !.does = "boot"]
  OBVIOUS
<1>7. r \in Request /\ r.at = "rows"
  BY <1>5, <1>6 DEF Request, RequestStep, Operation
<1>8. /\ request' \in [Operator -> Request] /\ request'[o] = r
      /\ \A p \in Operator : p # o => request'[p] = Idle
  BY <1>2, <1>5, <1>6, <1>7
<1>9. ProviderTypeOK'
  BY <1>1, <1>3, <1>4, <1>8 DEF ProviderTypeOK, Registered
<1>10. OwnKeysOnly' /\ defects' # 0
  BY <1>1, <1>3 DEF OwnKeysOnly, ProviderTypeOK
<1>11. \A p \in Operator : HoldsItsOwn(request[p])'
  BY <1>5, <1>7, <1>8 DEF HoldsItsOwn
<1>12. InTurn'
  <2>1. Stands(request[o])'
    BY <1>3, <1>7, <1>8 DEF Stands
  <2>2. ~AllIdle'
    BY <1>7, <1>8 DEF AllIdle
  <2> QED
    BY <1>5, <1>8, <2>1, <2>2 DEF InTurn
<1> QED
  BY <1>9, <1>10, <1>11, <1>12 DEF ProviderInv, Owned

(* However operations overlap, an unreadable key that is enabled belongs   *)
(* to one that is under way; and operations that came one after the other  *)
(* leave the registry with the newest enabled key of an enabled provider,  *)
(* and without an adapter for one that is gone.                            *)
THEOREM ProvidersAlwaysInOrder == ProviderSpec => []ProvidersInOrder
<1>1. ProviderInv /\ [ProviderNext]_providerVars => ProviderInv'
  <2> SUFFICES ASSUME ProviderInv, [ProviderNext]_providerVars PROVE ProviderInv'
    OBVIOUS
  <2>1. CASE UNCHANGED providerVars
    <3>1. /\ UNCHANGED <<provider, upstreamKeys, adapter, request, operations, rowIds, defects>>
          /\ inTurn' = inTurn
      BY <2>1 DEF providerVars
    <3>2. ProviderTypeOK' /\ OwnKeysOnly' /\ EnabledKeys' = EnabledKeys /\ InUse' = InUse /\ Newest' = Newest
      BY <3>1, SameKeys DEF ProviderInv, ProviderTypeOK, OwnKeysOnly
    <3>3. (\A r : Stands(r)' <=> Stands(r)) /\ (AllIdle' <=> AllIdle)
      BY <3>1, <3>2 DEF Stands, AllIdle
    <3>4. inTurn => InTurn'
      BY <3>1, <3>3 DEF ProviderInv, InTurn
    <3>5. Owned'
      BY <3>1, <3>2 DEF ProviderInv, Owned, Owns
    <3>6. \A o \in Operator : HoldsItsOwn(request[o])'
      BY <3>1 DEF ProviderInv, HoldsItsOwn
    <3> QED
      BY <3>1, <3>2, <3>4, <3>5, <3>6 DEF ProviderInv
  <2>2. CASE Reboot
    BY <2>2, RebootStep
  <2>3. ASSUME NEW o \in Operator, ProviderStep(o) PROVE ProviderInv'
    BY <2>3, ArrivalStep, ReadingSteps, RowSteps, KeySteps, QueryFailsStep DEF ProviderStep
  <2> QED
    BY <2>1, <2>2, <2>3 DEF ProviderNext
<1>2. ProviderInv => ProvidersInOrder
  <2> SUFFICES ASSUME ProviderInv PROVE ProvidersInOrder
    OBVIOUS
  <2>1. EnabledKeysReadable
    <3> SUFFICES ASSUME defects = 0, NEW k \in EnabledKeys
                 PROVE  \/ Readable(k)
                        \/ \E o \in Operator : Owns(request[o], k)
      BY DEF EnabledKeysReadable, Owns
    <3>1. k # 0 /\ upstreamKeys[k].of # Removed
      BY DEF EnabledKeys, KeysOf, KeyRow, Removed
    <3> QED
      BY <3>1 DEF ProviderInv, Owned, Readable
  <2>2. RegistryInOrder
    <3> SUFFICES ASSUME inTurn, AllIdle
                 PROVE  /\ provider.enabled /\ provider.config = "installs" => adapter = InUse
                        /\ provider = NoProvider \/ provider.config = "unmakeable" => adapter = Unregistered
      BY DEF RegistryInOrder, InUse, Newest
    <3>1. Stands(Idle) /\ Idle.at = "idle"
      BY DEF ProviderInv, InTurn, Idle
    <3> QED
      BY <3>1 DEF Stands, NoProvider
  <2> QED
    BY <2>1, <2>2 DEF ProvidersInOrder
<1> QED
  BY <1>1, <1>2, ProviderInitial, PTL DEF ProviderSpec

-----------------------------------------------------------------------------
(* Routing policies.  While requests keep their order the one that is      *)
(* being served is alone, so what it read before its transaction is still  *)
(* true in it: the default it is to delete, or the first policy there is.  *)

Busy(e) == edit[e].does # "none"

PolicyTypeOK ==
    /\ rows \in SUBSET Name /\ active \in SUBSET rows
    /\ edit \in [Editor -> Edit] /\ edits \in Nat /\ orderly \in BOOLEAN
    /\ \A e \in Editor : Busy(e) => edit[e].name \in Name

AloneInOrder ==
    /\ \A e, f \in Editor : Busy(e) /\ Busy(f) => e = f
    /\ \A e \in Editor : /\ edit[e].does # "patch"
                         /\ edit[e].does = "create" => edit[e].flag \/ rows # {}
                         /\ edit[e].does = "delete" => (edit[e].flag <=> edit[e].name \in active)

OneDefault == rows # {} => \E n \in rows : active = {n}

PolicyInv == PolicyTypeOK /\ (orderly => AloneInOrder /\ OneDefault)

LEMMA PolicyInitial == PolicyInit => PolicyInv
BY PolicyAssumption
   DEF PolicyInit, PolicyInv, PolicyTypeOK, AloneInOrder, OneDefault, Busy, NoEdit, Edit

(* A request arrives.                                                      *)
LEMMA StartStep ==
    ASSUME PolicyInv, UNCHANGED <<rows, active>>, NEW e \in Editor, NEW n \in Name,
           NEW what \in {"create", "activate", "delete", "patch"},
           NEW flag \in BOOLEAN, NEW plain \in BOOLEAN,
           Start(e, what, n, flag, plain),
           what = "create" /\ plain => flag \/ rows # {},
           what = "delete" => (flag <=> n \in active),
           plain => what # "patch"
    PROVE  PolicyInv'
<1> USE DEF PolicyInv, PolicyTypeOK
<1> DEFINE new == [does |-> what, name |-> n, flag |-> flag]
<1>1. /\ edit' = [edit EXCEPT ![e] = new] /\ edits' \in Nat
      /\ orderly' = (orderly /\ Quiet /\ plain)
  BY DEF Start
<1>2. new \in Edit /\ new.does = what /\ new.name = n /\ new.flag = flag
  BY DEF Edit
<1> HIDE DEF new
<1>3. edit'[e] = new /\ edit' \in [Editor -> Edit] /\ \A f \in Editor : f # e => edit'[f] = edit[f]
  BY <1>1, <1>2
<1>4. PolicyTypeOK'
  BY <1>1, <1>2, <1>3 DEF Busy
<1>5. ASSUME orderly' PROVE AloneInOrder' /\ OneDefault'
  <2>1. orderly /\ plain /\ \A f \in Editor : edit[f].does = "none"
    BY <1>1, <1>5 DEF Quiet
  <2>2. \A f \in Editor : f # e => edit'[f].does = "none"
    BY <1>3, <2>1
  <2>3. AloneInOrder'
    BY <1>2, <1>3, <2>1, <2>2 DEF AloneInOrder, Busy
  <2> QED
    BY <2>1, <2>3 DEF OneDefault
<1> QED
  BY <1>4, <1>5

(* The request of e is through, and was alone if all were in order.        *)
LEMMA FinishStep ==
    ASSUME PolicyInv, NEW e \in Editor, Busy(e), Finish(e),
           rows' \in SUBSET Name, active' \in SUBSET rows',
           orderly => OneDefault'
    PROVE  PolicyInv'
<1> USE DEF PolicyInv, PolicyTypeOK
<1>1. edit' = [edit EXCEPT ![e] = NoEdit] /\ UNCHANGED <<edits, orderly>>
  BY DEF Finish
<1>2. NoEdit \in Edit /\ NoEdit.does = "none"
  BY DEF NoEdit, Edit
<1>3. edit'[e] = NoEdit /\ edit' \in [Editor -> Edit] /\ \A f \in Editor : f # e => edit'[f] = edit[f]
  BY <1>1, <1>2
<1>4. PolicyTypeOK'
  BY <1>1, <1>2, <1>3 DEF Busy
<1>5. ASSUME orderly PROVE AloneInOrder'
  <2>1. \A f \in Editor : f # e => edit[f].does = "none"
    BY <1>5 DEF AloneInOrder, Busy
  <2>2. \A f \in Editor : edit'[f].does = "none"
    BY <1>2, <1>3, <2>1
  <2> QED
    BY <2>2 DEF AloneInOrder, Busy
<1> QED
  BY <1>1, <1>4, <1>5

LEMMA RemoveStep == ASSUME PolicyInv, NEW e \in Editor, RemoveWrite(e) PROVE PolicyInv'
<1> USE PolicyAssumption DEF PolicyInv, PolicyTypeOK
<1> DEFINE n == edit[e].name
           rest == rows \ {n}
<1>1. /\ edit[e].does = "delete" /\ rows' = rest /\ Finish(e)
      /\ active' = IF n \in rows /\ edit[e].flag /\ rest # {}
                   THEN (active \ {n}) \cup {Min(rest)} ELSE active \ {n}
  BY DEF RemoveWrite
<1>2. Busy(e)
  BY <1>1 DEF Busy
<1>3. rest # {} => Min(rest) \in rest
  <2>1. rest \in SUBSET Nat
    OBVIOUS
  <2> HIDE DEF rest
  <2> QED
    BY <2>1, MinIsMember
<1>4. rows' \in SUBSET Name /\ active' \in SUBSET rows'
  BY <1>1, <1>3
<1>5. ASSUME orderly PROVE OneDefault'
  <2>1. SUFFICES ASSUME rest # {} PROVE \E m \in rest : active' = {m}
    BY <1>1 DEF OneDefault
  <2>2. PICK d \in rows : active = {d}
    BY <1>5, <2>1 DEF OneDefault
  <2>3. edit[e].flag <=> n \in active
    BY <1>1, <1>5 DEF AloneInOrder
  <2>4. CASE d = n
    <3>1. active' = {Min(rest)}
      BY <1>1, <2>1, <2>2, <2>3, <2>4
    <3> QED
      BY <1>3, <2>1, <3>1
  <2>5. CASE d # n
    <3>1. active' = {d} /\ d \in rest
      BY <1>1, <2>2, <2>3, <2>5
    <3> QED
      BY <3>1
  <2> QED
    BY <2>4, <2>5
<1> QED
  BY <1>1, <1>2, <1>4, <1>5, FinishStep

LEMMA PolicyStep == PolicyInv /\ [PolicyNext]_policyVars => PolicyInv'
<1> SUFFICES ASSUME PolicyInv, [PolicyNext]_policyVars PROVE PolicyInv'
  OBVIOUS
<1> USE PolicyAssumption
<1>1. ASSUME NEW e \in Editor, NEW n \in Name, CreateRead(e, n) PROVE PolicyInv'
  <2>1. PICK flag \in BOOLEAN : Start(e, "create", n, flag, flag \/ rows # {})
    BY <1>1 DEF CreateRead
  <2>2. UNCHANGED <<rows, active>> /\ (flag \/ rows # {}) \in BOOLEAN
    BY <1>1 DEF CreateRead
  <2> DEFINE plain == flag \/ rows # {}
  <2>3. plain \in BOOLEAN /\ (plain => flag \/ rows # {}) /\ Start(e, "create", n, flag, plain)
    BY <2>1
  <2> HIDE DEF plain
  <2> QED
    BY <2>2, <2>3, StartStep
<1>2. ASSUME NEW e \in Editor, NEW n \in Name, ActivateRead(e, n) PROVE PolicyInv'
  <2>1. Start(e, "activate", n, TRUE, TRUE) /\ UNCHANGED <<rows, active>>
    BY <1>2 DEF ActivateRead
  <2> QED
    BY <2>1, StartStep
<1>3. ASSUME NEW e \in Editor, NEW n \in Name, RemoveRead(e, n) PROVE PolicyInv'
  <2> DEFINE flag == n \in active
  <2>1. Start(e, "delete", n, flag, TRUE) /\ UNCHANGED <<rows, active>>
    BY <1>3 DEF RemoveRead
  <2>2. flag \in BOOLEAN /\ (flag <=> n \in active)
    OBVIOUS
  <2> HIDE DEF flag
  <2> QED
    BY <2>1, <2>2, StartStep
<1>4. ASSUME NEW e \in Editor, NEW n \in Name, PatchRead(e, n) PROVE PolicyInv'
  <2>1. Start(e, "patch", n, TRUE, FALSE) /\ UNCHANGED <<rows, active>>
    BY <1>4 DEF PatchRead
  <2> QED
    BY <2>1, StartStep
<1>5. ASSUME NEW e \in Editor, CreateWrite(e) PROVE PolicyInv'
  <2>1. /\ edit[e].does = "create" /\ Finish(e) /\ rows' = rows \cup {edit[e].name}
        /\ active' = IF edit[e].name \in rows \/ ~edit[e].flag THEN active ELSE {edit[e].name}
    BY <1>5 DEF CreateWrite
  <2>2. Busy(e) /\ edit[e].name \in Name
    BY <2>1 DEF PolicyInv, PolicyTypeOK, Busy
  <2>3. rows' \in SUBSET Name /\ active' \in SUBSET rows'
    BY <2>1, <2>2 DEF PolicyInv, PolicyTypeOK
  <2>4. orderly => OneDefault'
    BY <2>1 DEF PolicyInv, AloneInOrder, OneDefault
  <2> QED
    BY <2>1, <2>2, <2>3, <2>4, FinishStep
<1>6. ASSUME NEW e \in Editor, ActivateWrite(e) PROVE PolicyInv'
  <2>1. /\ edit[e].does = "activate" /\ Finish(e) /\ rows' = rows
        /\ active' = IF edit[e].name \in rows THEN {edit[e].name} ELSE active
    BY <1>6 DEF ActivateWrite
  <2>2. rows' \in SUBSET Name /\ active' \in SUBSET rows' /\ (orderly => OneDefault')
    BY <2>1 DEF PolicyInv, PolicyTypeOK, OneDefault
  <2> QED
    BY <2>1, <2>2, FinishStep DEF Busy
<1>7. ASSUME NEW e \in Editor, RemoveWrite(e) PROVE PolicyInv'
  BY <1>7, RemoveStep
<1>8. ASSUME NEW e \in Editor, PatchWrite(e) PROVE PolicyInv'
  <2>1. /\ edit[e].does = "patch" /\ Finish(e) /\ rows' = rows
        /\ active' = active \cup ({edit[e].name} \cap rows)
    BY <1>8 DEF PatchWrite
  <2>2. rows' \in SUBSET Name /\ active' \in SUBSET rows'
    BY <2>1 DEF PolicyInv, PolicyTypeOK
  <2>3. ~orderly
    BY <2>1 DEF PolicyInv, AloneInOrder
  <2> QED
    BY <2>1, <2>2, <2>3, FinishStep DEF Busy
<1>9. ASSUME NEW n \in Name, Put(n) PROVE PolicyInv'
  <2>1. /\ rows' = rows \cup {n} /\ orderly' = FALSE /\ edit' = edit /\ edits' = edits + 1
        /\ active' = active \cup {n} \/ active' = active \ {n}
    BY <1>9 DEF Put
  <2>2. active' \in SUBSET rows' /\ rows' \in SUBSET Name
    BY <2>1 DEF PolicyInv, PolicyTypeOK
  <2>3. edit' \in [Editor -> Edit] /\ \A e \in Editor : Busy(e)' => edit'[e].name \in Name
    BY <2>1 DEF PolicyInv, PolicyTypeOK, Busy
  <2>4. edits' \in Nat
    BY <2>1 DEF PolicyInv, PolicyTypeOK
  <2>5. orderly' \in BOOLEAN /\ ~orderly'
    BY <2>1
  <2> QED
    BY <2>2, <2>3, <2>4, <2>5 DEF PolicyInv, PolicyTypeOK
<1>10. CASE UNCHANGED policyVars
  BY <1>10 DEF policyVars, PolicyInv, PolicyTypeOK, AloneInOrder, OneDefault, Busy
<1> QED
  BY <1>1, <1>2, <1>3, <1>4, <1>5, <1>6, <1>7, <1>8, <1>9, <1>10 DEF PolicyNext

(* Creates, activations and deletions that are served one after the other  *)
(* leave one default, and one that exists, while there is a policy.        *)
THEOREM OneAlwaysActiveInOrder == PolicySpec => []OneActiveInOrder
<1>1. PolicyInv => OneActiveInOrder
  BY DEF PolicyInv, OneDefault, OneActiveInOrder
<1> QED
  BY <1>1, PolicyInitial, PolicyStep, PTL DEF PolicySpec

-----------------------------------------------------------------------------
(* The usage of days.  What a run has read was true of the logs, and the   *)
(* logs only grow.  That a closed day is complete rests on the hours: in   *)
(* order, the runs of all hours but the last have ended, and the first run *)
(* of a day that begins after the day before can no longer change is early *)
(* enough to look at it, because a day has more than one hour.             *)

Usage == [requests : Nat, successes : Nat]
Log == [open : Nat, ok : Nat, failed : Nat]
Run == [at : {"idle", "read", "write"}, today : Nat, back : {0, 1}, read : Usage]

UsageTypeOK ==
    /\ hour \in Hour /\ upsets \in Nat
    /\ logs \in [Hour -> Log]
    /\ daily \in [UsageDay -> Usage]
    /\ run \in [Runner -> Run]
FlagsOK == fired \in BOOLEAN /\ up \in BOOLEAN /\ smooth \in BOOLEAN

Below(u, v) == u.requests <= v.requests /\ u.successes <= v.successes

ReadWithinLogs ==
    \A r \in Runner, d \in UsageDay : run[r].at = "write" /\ d = TheDay(r) =>
        Below(run[r].read, Counted(d))

(* The hour whose run is the last that was started.                        *)
LastFired == IF fired THEN hour ELSE hour - 1

(* The run of hour k or an earlier one looks at day d when nothing of it   *)
(* can change any more.                                                    *)
Due(d, k) == k >= 1 /\ d < DayOf(k - 1)

InOrder ==
    /\ up
    /\ \A h \in Hour : h + 1 < hour => logs[h].open = 0
    /\ \A r, s \in Runner : run[r].at # "idle" /\ run[s].at # "idle" => r = s
    /\ \A r \in Runner : run[r].at # "idle" =>
          /\ LastFired \in Nat /\ run[r].today = DayOf(LastFired)
          /\ \A d \in UsageDay :
                run[r].at = "write" /\ d = TheDay(r) /\ Due(d, LastFired) =>
                    run[r].read = Counted(d)
    /\ \A d \in UsageDay :
          Due(d, IF AnyRun THEN LastFired - 1 ELSE LastFired) => daily[d] = Counted(d)

UsageInv == UsageTypeOK /\ FlagsOK /\ UsageWithinLogs /\ ReadWithinLogs /\ (smooth => InOrder)

-----------------------------------------------------------------------------
LEMMA Division ==
    ASSUME NEW k \in Nat, NEW m \in Nat \ {0}
    PROVE  k \div m \in Nat /\ m * (k \div m) <= k /\ k < m * (k \div m) + m
OBVIOUS

LEMMA DayFacts ==
    ASSUME NEW j \in Nat, NEW k \in Nat
    PROVE  /\ DayOf(j) \in Nat
           /\ j <= k => DayOf(j) <= DayOf(k)
           /\ k <= j + 2 => DayOf(k) <= DayOf(j) + 1
           /\ DayOf(0) = 0
<1> DEFINE m == HoursPerDay
           a == j \div m
           b == k \div m
<1>1. m \in Nat /\ m >= 2
  BY UsageAssumption
<1>2. a \in Nat /\ m * a <= j /\ j < m * a + m
  BY <1>1, Division
<1>3. b \in Nat /\ m * b <= k /\ k < m * b + m
  BY <1>1, Division
<1>4. DayOf(j) = a /\ DayOf(k) = b
  BY DEF DayOf
<1> HIDE DEF a, b, m
<1>5. j <= k => a <= b
  <2> SUFFICES ASSUME j <= k, b + 1 <= a PROVE FALSE
    BY <1>2, <1>3
  <2>1. m * (b + 1) <= m * a
    BY <1>1, <1>2, <1>3
  <2>2. m * (b + 1) = m * b + m
    BY <1>1, <1>3
  <2> QED
    BY <1>1, <1>2, <1>3, <2>1, <2>2
<1>6. k <= j + 2 => b <= a + 1
  <2> SUFFICES ASSUME k <= j + 2, a + 2 <= b PROVE FALSE
    BY <1>2, <1>3
  <2>1. m * (a + 2) <= m * b
    BY <1>1, <1>2, <1>3
  <2>2. m * (a + 2) = m * a + m + m
    BY <1>1, <1>2
  <2> QED
    BY <1>1, <1>2, <1>3, <2>1, <2>2
<1>7. DayOf(0) = 0
  <2> DEFINE c == 0 \div m
  <2>1. c \in Nat /\ m * c <= 0
    BY <1>1, Division
  <2> HIDE DEF c
  <2>2. c = 0
    <3> SUFFICES ASSUME c >= 1 PROVE FALSE
      BY <2>1
    <3>1. m * c >= m * 1
      BY <1>1, <2>1
    <3> QED
      BY <1>1, <2>1, <3>1
  <2> QED
    BY <2>2 DEF DayOf, c, m
<1> QED
  BY <1>2, <1>4, <1>5, <1>6, <1>7

-----------------------------------------------------------------------------
(* The sums.                                                               *)
LEMMA CountedIsSum ==
    ASSUME NEW d
    PROVE  /\ Counted(d) = [requests |-> SumOver(Requests, HoursOf(d)),
                            successes |-> SumOver(Successes, HoursOf(d))]
           /\ Counted(d)' = [requests |-> SumOver(Requests', HoursOf(d)),
                             successes |-> SumOver(Successes', HoursOf(d))]
BY DEF Counted, SumOver, MapThenSumSet, MapThenFoldSet

LEMMA HoursAreFinite == ASSUME NEW d PROVE IsFiniteSet(HoursOf(d)) /\ HoursOf(d) \subseteq Hour
<1>1. IsFiniteSet(Hour)
  BY UsageAssumption, FS_Interval DEF Hour
<1> QED
  BY <1>1, FS_Subset DEF HoursOf

LEMMA RequestsType ==
    ASSUME UsageTypeOK, NEW h \in Hour
    PROVE  /\ Requests[h] = logs[h].open + logs[h].ok + logs[h].failed
           /\ Successes[h] = logs[h].ok
           /\ Requests[h] \in Nat /\ Successes[h] \in Nat
BY DEF UsageTypeOK, Log, Requests, Successes

LEMMA RequestsTypeNext ==
    ASSUME UsageTypeOK', NEW h \in Hour
    PROVE  /\ Requests'[h] = logs'[h].open + logs'[h].ok + logs'[h].failed
           /\ Successes'[h] = logs'[h].ok
           /\ Requests'[h] \in Nat /\ Successes'[h] \in Nat
BY DEF UsageTypeOK, Log, Requests, Successes

LEMMA CountedType == ASSUME UsageTypeOK, NEW d PROVE Counted(d) \in Usage
<1>1. \A h \in HoursOf(d) : Requests[h] \in Nat /\ Successes[h] \in Nat
  BY RequestsType, HoursAreFinite
<1>2. SumOver(Requests, HoursOf(d)) \in Nat /\ SumOver(Successes, HoursOf(d)) \in Nat
  BY <1>1, HoursAreFinite, SumType
<1> QED
  BY <1>2, CountedIsSum DEF Usage

LEMMA CountedGrows ==
    ASSUME UsageTypeOK, UsageTypeOK',
           \A h \in Hour : Requests[h] <= Requests'[h] /\ Successes[h] <= Successes'[h],
           NEW d
    PROVE  Below(Counted(d), Counted(d)')
<1>1. \A h \in HoursOf(d) : /\ Requests[h] \in Nat /\ Requests'[h] \in Nat
                            /\ Successes[h] \in Nat /\ Successes'[h] \in Nat
                            /\ Requests[h] <= Requests'[h] /\ Successes[h] <= Successes'[h]
  BY RequestsType, RequestsTypeNext, HoursAreFinite
<1>2. SumOver(Requests, HoursOf(d)) <= SumOver(Requests', HoursOf(d))
  BY <1>1, HoursAreFinite, SumMonotone
<1>3. SumOver(Successes, HoursOf(d)) <= SumOver(Successes', HoursOf(d))
  BY <1>1, HoursAreFinite, SumMonotone
<1> QED
  BY <1>2, <1>3, CountedIsSum DEF Below

LEMMA CountedSame ==
    ASSUME UsageTypeOK, NEW d,
           \A h \in HoursOf(d) : Requests'[h] = Requests[h] /\ Successes'[h] = Successes[h]
    PROVE  Counted(d)' = Counted(d)
<1>1. \A h \in HoursOf(d) : Requests[h] \in Nat /\ Successes[h] \in Nat
  BY RequestsType, HoursAreFinite
<1>2. SumOver(Requests', HoursOf(d)) = SumOver(Requests, HoursOf(d))
  BY <1>1, HoursAreFinite, SumEqual
<1>3. SumOver(Successes', HoursOf(d)) = SumOver(Successes, HoursOf(d))
  BY <1>1, HoursAreFinite, SumEqual
<1> QED
  BY <1>2, <1>3, CountedIsSum

-----------------------------------------------------------------------------
(* The days that are due.                                                  *)
LEMMA DueIsFinal ==
    ASSUME NEW d \in Nat, NEW k \in Int, NEW l \in Int, k <= l, Due(d, k), NEW h \in HoursOf(d)
    PROVE  h + 1 < l
<1>1. h \in Nat /\ DayOf(h) = d
  BY UsageAssumption DEF HoursOf, Hour
<1>2. k - 1 \in Nat /\ d < DayOf(k - 1)
  BY DEF Due
<1>3. ~(k - 1 <= h)
  <2>1. k - 1 <= h => DayOf(k - 1) <= DayOf(h)
    BY <1>1, <1>2, DayFacts
  <2> QED
    BY <1>1, <1>2, <2>1, DayFacts
<1> QED
  BY <1>1, <1>2, <1>3

LEMMA DueLater ==
    ASSUME NEW d \in Nat, NEW k \in Int, Due(d, k - 1) PROVE Due(d, k)
<1>1. k - 2 \in Nat /\ k - 1 \in Nat /\ d < DayOf(k - 2)
  BY DEF Due
<1>2. DayOf(k - 2) <= DayOf(k - 1) /\ DayOf(k - 2) \in Nat /\ DayOf(k - 1) \in Nat
  BY <1>1, DayFacts
<1> QED
  BY <1>1, <1>2 DEF Due

(* The run that comes first is of the day after.                           *)
LEMMA FirstDue ==
    ASSUME NEW d \in Nat, NEW k \in Int, Due(d, k), ~Due(d, k - 1) PROVE d = DayOf(k) - 1
<1>1. k - 1 \in Nat /\ k \in Nat /\ d < DayOf(k - 1)
  BY DEF Due
<1>2. k - 1 # 0
  BY <1>1, DayFacts
<1>3. k - 2 \in Nat
  BY <1>1, <1>2
<1>4. ~(d < DayOf(k - 2))
  BY <1>1, <1>3 DEF Due
<1>5. /\ DayOf(k - 2) \in Nat /\ DayOf(k - 1) \in Nat /\ DayOf(k) \in Nat
      /\ DayOf(k - 1) <= DayOf(k) /\ DayOf(k) <= DayOf(k - 2) + 1
  BY <1>1, <1>3, DayFacts
<1> QED
  BY <1>1, <1>4, <1>5

LEMMA ClosedIsDue ==
    ASSUME NEW d \in Nat, NEW k \in Nat, NEW l \in Int, k - 1 <= l, d + 1 < DayOf(k)
    PROVE  Due(d, l)
<1>1. k >= 2
  <2> SUFFICES ASSUME k <= 1 PROVE FALSE
    OBVIOUS
  <2>1. DayOf(k) <= 1
    BY DayFacts
  <2> QED
    BY <2>1, DayFacts
<1>2. DayOf(k - 2) \in Nat /\ DayOf(k) <= DayOf(k - 2) + 1 /\ DayOf(k) \in Nat
  BY <1>1, DayFacts
<1>3. l - 1 \in Nat /\ DayOf(k - 2) <= DayOf(l - 1) /\ DayOf(l - 1) \in Nat
  BY <1>1, DayFacts
<1> QED
  BY <1>2, <1>3 DEF Due

-----------------------------------------------------------------------------
LEMMA UsageInitial == UsageInit => UsageInv
<1> SUFFICES ASSUME UsageInit PROVE UsageInv
  OBVIOUS
<1> USE UsageAssumption DEF UsageInit
<1>1. UsageTypeOK
  BY DEF UsageTypeOK, Hour, Log, Usage, Run, NoRun, NoUsage
<1>2. FlagsOK
  BY DEF FlagsOK
<1>3. \A r \in Runner : run[r].at = "idle"
  BY DEF NoRun
<1>4. UsageWithinLogs
  <2> SUFFICES ASSUME NEW d \in UsageDay PROVE Below(daily[d], Counted(d))
    BY DEF UsageWithinLogs, Below
  <2> QED
    BY <1>1, CountedType DEF Below, Usage, NoUsage
<1>5. InOrder
  <2>1. hour = 0 /\ LastFired = -1 /\ ~AnyRun
    BY <1>3 DEF LastFired, AnyRun
  <2>2. \A d : ~Due(d, LastFired)
    BY <2>1 DEF Due
  <2>3. \A h \in Hour : ~(h + 1 < hour)
    BY <2>1 DEF Hour
  <2> QED
    BY <1>3, <2>1, <2>2, <2>3 DEF InOrder
<1> QED
  BY <1>1, <1>2, <1>3, <1>4, <1>5 DEF UsageInv, ReadWithinLogs

LEMMA HourFacts == ASSUME UsageTypeOK PROVE hour \in Nat /\ LastFired \in Int /\ LastFired <= hour
BY UsageAssumption DEF UsageTypeOK, Hour, LastFired

LEMMA DaysAreNatural == ASSUME NEW d \in UsageDay PROVE d \in Nat
BY DEF UsageDay

(* Requests start and finish: the log of the hour it is, or one that is    *)
(* open, and so none of a day that is due.                                 *)
LEMMA LogStep ==
    ASSUME UsageInv, UNCHANGED <<hour, daily, run, fired, up, upsets, smooth>>,
           logs' \in [Hour -> Log], NEW g \in Hour, g = hour \/ logs[g].open > 0,
           \A h \in Hour : h # g => logs'[h] = logs[h],
           logs[g].open + logs[g].ok + logs[g].failed
               <= logs'[g].open + logs'[g].ok + logs'[g].failed,
           logs[g].ok <= logs'[g].ok
    PROVE  UsageInv'
<1>1. UsageTypeOK /\ UsageTypeOK' /\ FlagsOK /\ FlagsOK'
  BY DEF UsageInv, UsageTypeOK, FlagsOK
<1>2. \A h \in Hour : h # g => Requests'[h] = Requests[h] /\ Successes'[h] = Successes[h]
  BY <1>1, RequestsType, RequestsTypeNext
<1>3. \A h \in Hour : Requests[h] <= Requests'[h] /\ Successes[h] <= Successes'[h]
  <2> TAKE h \in Hour
  <2>1. Requests[h] \in Nat /\ Successes[h] \in Nat
    BY <1>1, RequestsType
  <2>2. CASE h = g
    BY <1>1, <2>2, RequestsType, RequestsTypeNext
  <2>3. CASE h # g
    BY <1>2, <2>1, <2>3
  <2> QED
    BY <2>2, <2>3
<1>4. \A d : Below(Counted(d), Counted(d)')
  BY <1>1, <1>3, CountedGrows
<1>5. \A d : Counted(d) \in Usage /\ Counted(d)' \in Usage
  <2>1. \A d : Counted(d) \in Usage
    BY <1>1, CountedType
  <2>2. \A d : \A h \in HoursOf(d) : Requests'[h] \in Nat /\ Successes'[h] \in Nat
    BY <1>1, RequestsTypeNext, HoursAreFinite
  <2>3. \A d : SumOver(Requests', HoursOf(d)) \in Nat /\ SumOver(Successes', HoursOf(d)) \in Nat
    BY <2>2, HoursAreFinite, SumType
  <2> QED
    BY <2>1, <2>3, CountedIsSum DEF Usage
<1>6. UsageWithinLogs'
  <2> SUFFICES ASSUME NEW d \in UsageDay PROVE Below(daily[d], Counted(d)')
    BY DEF UsageWithinLogs, Below
  <2>1. Below(daily[d], Counted(d)) /\ daily[d] \in Usage
    BY <1>1 DEF UsageInv, UsageWithinLogs, Below, UsageTypeOK
  <2> QED
    BY <1>4, <1>5, <2>1 DEF Below, Usage
<1>7. ReadWithinLogs'
  <2> SUFFICES ASSUME NEW r \in Runner, NEW d \in UsageDay, run[r].at = "write", d = TheDay(r)
               PROVE  Below(run[r].read, Counted(d)')
    BY DEF ReadWithinLogs, TheDay, Below
  <2>1. Below(run[r].read, Counted(d)) /\ run[r].read \in Usage
    BY <1>1 DEF UsageInv, ReadWithinLogs, UsageTypeOK, Run
  <2> QED
    BY <1>4, <1>5, <2>1 DEF Below, Usage
<1>8. ASSUME smooth PROVE InOrder'
  <2>1. InOrder
    BY <1>8 DEF UsageInv
  <2>2. hour \in Nat /\ LastFired \in Int /\ LastFired <= hour
    BY <1>1, HourFacts
  <2>3. ~(g + 1 < hour)
    <3>1. logs[g].open > 0 => logs[g].open # 0
      BY <1>1 DEF UsageTypeOK, Log
    <3> QED
      BY <2>1, <2>2, <3>1 DEF InOrder
  <2>4. ASSUME NEW d \in UsageDay, NEW k \in Int, k <= LastFired, Due(d, k)
        PROVE  Counted(d)' = Counted(d)
    <3>1. \A h \in HoursOf(d) : h \in Hour /\ h + 1 < hour
      BY <2>2, <2>4, DueIsFinal, DaysAreNatural, HoursAreFinite
    <3>2. \A h \in HoursOf(d) : Requests'[h] = Requests[h] /\ Successes'[h] = Successes[h]
      BY <1>2, <2>3, <3>1
    <3> QED
      BY <1>1, <3>2, CountedSame
  <2>5. LastFired' = LastFired /\ AnyRun' = AnyRun /\ \A r \in Runner : TheDay(r)' = TheDay(r)
    BY DEF LastFired, AnyRun, TheDay
  <2>6. \A h \in Hour : h + 1 < hour => logs'[h].open = 0
    BY <2>1, <2>3 DEF InOrder
  <2>7. \A r \in Runner : run[r].at # "idle" =>
          \A d \in UsageDay :
              run[r].at = "write" /\ d = TheDay(r) /\ Due(d, LastFired) =>
                  run[r].read = Counted(d)'
    BY <2>1, <2>2, <2>4 DEF InOrder
  <2>8. \A d \in UsageDay :
          Due(d, IF AnyRun THEN LastFired - 1 ELSE LastFired) => daily[d] = Counted(d)'
    BY <2>1, <2>2, <2>4 DEF InOrder
  <2> QED
    BY <2>1, <2>5, <2>6, <2>7, <2>8 DEF InOrder
<1> QED
  BY <1>1, <1>6, <1>7, <1>8 DEF UsageInv

LEMMA LogActions ==
    ASSUME UsageInv, LogStart \/ \E h \in Hour : LogFinish(h) PROVE UsageInv'
<1>1. UsageTypeOK /\ hour \in Hour /\ logs \in [Hour -> Log]
  BY DEF UsageInv, UsageTypeOK
<1>2. CASE LogStart
  <2>1. /\ logs' = [logs EXCEPT ![hour].open = @ + 1]
        /\ UNCHANGED <<hour, daily, run, fired, up, upsets, smooth>>
    BY <1>2 DEF LogStart
  <2>2. logs' \in [Hour -> Log] /\ \A h \in Hour : h # hour => logs'[h] = logs[h]
    BY <1>1, <2>1 DEF Log
  <2>3. /\ logs[hour].open + logs[hour].ok + logs[hour].failed
               <= logs'[hour].open + logs'[hour].ok + logs'[hour].failed
        /\ logs[hour].ok <= logs'[hour].ok
    BY <1>1, <2>1 DEF Log
  <2> QED
    BY <1>1, <2>1, <2>2, <2>3, LogStep
<1>3. ASSUME NEW g \in Hour, LogFinish(g) PROVE UsageInv'
  <2>1. /\ logs[g].open > 0
        /\ UNCHANGED <<hour, daily, run, fired, up, upsets, smooth>>
        /\ \/ logs' = [logs EXCEPT ![g].open = @ - 1, ![g].ok = @ + 1]
           \/ logs' = [logs EXCEPT ![g].open = @ - 1, ![g].failed = @ + 1]
    BY <1>3 DEF LogFinish
  <2>2. logs' \in [Hour -> Log] /\ \A h \in Hour : h # g => logs'[h] = logs[h]
    BY <1>1, <2>1 DEF Log
  <2>3. /\ logs[g].open + logs[g].ok + logs[g].failed
               <= logs'[g].open + logs'[g].ok + logs'[g].failed
        /\ logs[g].ok <= logs'[g].ok
    BY <1>1, <2>1 DEF Log
  <2> QED
    BY <2>1, <2>2, <2>3, LogStep
<1> QED
  BY <1>2, <1>3

(* Steps that leave the sums of the days as they are.                      *)
SameCounts == \A d \in UsageDay : Counted(d)' = Counted(d)

LEMMA SameLogs == UNCHANGED logs => SameCounts
<1> SUFFICES ASSUME UNCHANGED logs PROVE SameCounts
  OBVIOUS
<1>1. Requests' = Requests /\ Successes' = Successes
  BY DEF Requests, Successes
<1> QED
  BY <1>1, CountedIsSum DEF SameCounts

LEMMA RunTypes ==
    /\ NoRun \in Run /\ NoRun.at = "idle"
    /\ \A h \in Hour : /\ [NoRun EXCEPT !.at = "read", !.today = DayOf(h)] \in Run
                       /\ [NoRun EXCEPT !.at = "read", !.today = DayOf(h)].at = "read"
                       /\ [NoRun EXCEPT !.at = "read", !.today = DayOf(h)].today = DayOf(h)
<1>1. \A h \in Hour : DayOf(h) \in Nat
  BY UsageAssumption, DayFacts DEF Hour
<1> QED
  BY <1>1 DEF NoRun, Run, Usage, NoUsage

(* A run starts, ends, or both: those that go on have what they had.       *)
LEMMA RunsStep ==
    ASSUME UsageInv, UsageTypeOK', FlagsOK', SameCounts, UNCHANGED daily,
           \A r \in Runner : run'[r] = run[r] \/ run'[r].at # "write",
           smooth' => InOrder'
    PROVE  UsageInv'
<1>1. UsageWithinLogs'
  BY DEF UsageInv, UsageWithinLogs, SameCounts
<1>2. ReadWithinLogs'
  <2> SUFFICES ASSUME NEW r \in Runner, NEW d \in UsageDay, run'[r].at = "write", d = TheDay(r)'
               PROVE  Below(run'[r].read, Counted(d)')
    BY DEF ReadWithinLogs, TheDay, Below
  <2>1. run'[r] = run[r] /\ d = TheDay(r)
    BY DEF TheDay
  <2> QED
    BY <2>1 DEF UsageInv, ReadWithinLogs, SameCounts, Below
<1> QED
  BY <1>1, <1>2 DEF UsageInv

LEMMA FireStep == ASSUME UsageInv, NEW r \in Runner, Fire(r) PROVE UsageInv'
<1> DEFINE new == [NoRun EXCEPT !.at = "read", !.today = DayOf(hour)]
<1>1. UsageTypeOK /\ FlagsOK
  BY DEF UsageInv
<1>2. /\ up /\ ~fired /\ run[r].at = "idle"
      /\ run' = [run EXCEPT ![r] = new]
      /\ UNCHANGED <<hour, logs, daily, upsets>>
  BY DEF Fire
<1>3. fired' /\ up' = up /\ smooth' = (smooth /\ ~AnyRun) /\ fired' \in BOOLEAN
  BY DEF Fire
<1>4. new \in Run /\ new.at = "read" /\ new.today = DayOf(hour)
  BY <1>1, RunTypes DEF UsageTypeOK
<1> HIDE DEF new
<1>5. run' \in [Runner -> Run] /\ run'[r] = new /\ \A s \in Runner : s # r => run'[s] = run[s]
  BY <1>1, <1>2, <1>4 DEF UsageTypeOK
<1>6. UsageTypeOK'
  BY <1>1, <1>2, <1>5 DEF UsageTypeOK
<1>7. FlagsOK'
  BY <1>1, <1>3 DEF FlagsOK
<1>8. SameCounts
  BY <1>2, SameLogs
<1>9. ASSUME smooth' PROVE InOrder'
  <2>1. smooth /\ ~AnyRun /\ InOrder
    BY <1>3, <1>9 DEF UsageInv
  <2>2. \A s \in Runner : run[s].at = "idle"
    BY <2>1 DEF AnyRun
  <2>3. \A s \in Runner : s # r => run'[s].at = "idle"
    BY <1>5, <2>2
  <2>4. AnyRun'
    BY <1>4, <1>5 DEF AnyRun
  <2>5. LastFired' = hour /\ LastFired = hour - 1 /\ hour \in Nat
    BY <1>1, <1>2, <1>3, HourFacts DEF LastFired
  <2>6. LastFired' - 1 = LastFired
    BY <2>5
  <2>7. \A d \in UsageDay : Due(d, LastFired) => daily[d] = Counted(d)
    BY <2>1 DEF InOrder
  <2>8. \A d \in UsageDay : Due(d, LastFired' - 1) => daily'[d] = Counted(d)'
    BY <1>2, <1>8, <2>6, <2>7 DEF SameCounts
  <2>9. \A s \in Runner : run'[s].at # "idle" =>
            /\ LastFired' \in Nat /\ run'[s].today = DayOf(LastFired') /\ run'[s].at # "write"
    BY <1>4, <1>5, <2>3, <2>5
  <2>10. up' /\ \A h \in Hour : h + 1 < hour' => logs'[h].open = 0
    BY <1>2, <1>3, <2>1 DEF InOrder
  <2> QED
    BY <2>3, <2>4, <2>8, <2>9, <2>10 DEF InOrder, Due
<1> QED
  BY <1>2, <1>4, <1>5, <1>6, <1>7, <1>8, <1>9, RunsStep

LEMMA ReadStep == ASSUME UsageInv, NEW r \in Runner, AggregateRead(r) PROVE UsageInv'
<1> DEFINE got == IF TheDay(r) \in UsageDay THEN Counted(TheDay(r)) ELSE NoUsage
<1>1. UsageTypeOK /\ FlagsOK
  BY DEF UsageInv
<1>2. /\ run[r].at = "read"
      /\ run' = [run EXCEPT ![r].at = "write", ![r].read = got]
      /\ UNCHANGED <<hour, logs, daily, fired, up, upsets, smooth>>
  BY DEF AggregateRead
<1>3. got \in Usage /\ \A d \in UsageDay : d = TheDay(r) => got = Counted(d)
  BY <1>1, CountedType DEF NoUsage, Usage
<1> HIDE DEF got
<1>4. /\ run' \in [Runner -> Run] /\ \A s \in Runner : s # r => run'[s] = run[s]
      /\ run'[r].at = "write" /\ run'[r].read = got
      /\ run'[r].today = run[r].today /\ run'[r].back = run[r].back
  BY <1>1, <1>2, <1>3 DEF UsageTypeOK, Run
<1>5. UsageTypeOK'
  BY <1>1, <1>2, <1>4 DEF UsageTypeOK
<1>6. FlagsOK'
  BY <1>1, <1>2 DEF FlagsOK
<1>7. SameCounts
  BY <1>2, SameLogs
<1>8. UsageWithinLogs'
  BY <1>2, <1>7 DEF UsageInv, UsageWithinLogs, SameCounts
<1>9. \A s \in Runner : TheDay(s)' = TheDay(s)
  BY <1>4 DEF TheDay
<1>10. ReadWithinLogs'
  <2> SUFFICES ASSUME NEW s \in Runner, NEW d \in UsageDay, run'[s].at = "write", d = TheDay(s)'
               PROVE  Below(run'[s].read, Counted(d)')
    BY DEF ReadWithinLogs, TheDay, Below
  <2>1. d = TheDay(s) /\ Counted(d)' = Counted(d)
    BY <1>7, <1>9 DEF SameCounts
  <2>2. CASE s = r
    <3>1. run'[s].read = Counted(d) /\ Counted(d) \in Usage
      BY <1>1, <1>3, <1>4, <2>1, <2>2, CountedType
    <3> QED
      BY <2>1, <3>1 DEF Below, Usage
  <2>3. CASE s # r
    <3>1. run'[s] = run[s]
      BY <1>4, <2>3
    <3> QED
      BY <2>1, <3>1 DEF UsageInv, ReadWithinLogs, Below
  <2> QED
    BY <2>2, <2>3
<1>11. ASSUME smooth PROVE InOrder'
  <2>1. InOrder
    BY <1>11 DEF UsageInv
  <2>2. LastFired' = LastFired /\ AnyRun' /\ AnyRun
    BY <1>2, <1>4 DEF LastFired, AnyRun
  <2>3. \A s \in Runner : run'[s].at # "idle" <=> run[s].at # "idle"
    BY <1>2, <1>4
  <2>4. \A s \in Runner : run'[s].today = run[s].today
    BY <1>4
  <2>5. \A d \in UsageDay : Due(d, LastFired' - 1) => daily'[d] = Counted(d)'
    BY <1>2, <1>7, <2>1, <2>2 DEF InOrder, SameCounts
  <2>6. ASSUME NEW s \in Runner, NEW d \in UsageDay, run'[s].at = "write", d = TheDay(s)',
               Due(d, LastFired')
        PROVE  run'[s].read = Counted(d)'
    <3>1. d = TheDay(s) /\ Counted(d)' = Counted(d)
      BY <1>7, <1>9, <2>6 DEF SameCounts
    <3>2. CASE s = r
      BY <1>3, <1>4, <3>1, <3>2
    <3>3. CASE s # r
      <4>1. run'[s] = run[s] /\ run[s].at = "write" /\ Due(d, LastFired)
        BY <1>4, <2>2, <2>6, <3>3
      <4> QED
        BY <2>1, <3>1, <4>1 DEF InOrder
    <3> QED
      BY <3>2, <3>3
  <2>7. /\ up' /\ \A h \in Hour : h + 1 < hour' => logs'[h].open = 0
        /\ \A s, t \in Runner : run'[s].at # "idle" /\ run'[t].at # "idle" => s = t
        /\ \A s \in Runner : run'[s].at # "idle" =>
               LastFired' \in Nat /\ run'[s].today = DayOf(LastFired')
    BY <1>2, <2>1, <2>2, <2>3, <2>4 DEF InOrder
  <2> QED
    BY <2>2, <2>5, <2>6, <2>7 DEF InOrder, Due
<1> QED
  BY <1>2, <1>5, <1>6, <1>8, <1>10, <1>11 DEF UsageInv

LEMMA WriteStep == ASSUME UsageInv, NEW r \in Runner, AggregateWrite(r) PROVE UsageInv'
<1> DEFINE again == [run[r] EXCEPT !.at = "read", !.back = 1, !.read = NoUsage]
           goes == IF run[r].back = 0 THEN again ELSE NoRun
<1>1. UsageTypeOK /\ FlagsOK /\ run[r] \in Run
  BY DEF UsageInv, UsageTypeOK
<1>2. /\ run[r].at = "write"
      /\ daily' = [d \in UsageDay |-> IF d = TheDay(r) THEN run[r].read ELSE daily[d]]
      /\ run' = [run EXCEPT ![r] = goes]
      /\ UNCHANGED <<hour, logs, fired, up, upsets, smooth>>
  BY DEF AggregateWrite, Replaced, AfterDay
<1>3. /\ goes \in Run /\ goes.at # "write"
      /\ run[r].back = 0 => goes.at = "read" /\ goes.today = run[r].today
      /\ run[r].back # 0 => goes.at = "idle"
  BY <1>1, RunTypes DEF Run, Usage, NoUsage
<1> HIDE DEF again, goes
<1>4. run' \in [Runner -> Run] /\ run'[r] = goes /\ \A s \in Runner : s # r => run'[s] = run[s]
  BY <1>1, <1>2, <1>3 DEF UsageTypeOK
<1>5. UsageTypeOK'
  <2>1. daily' \in [UsageDay -> Usage]
    BY <1>1, <1>2 DEF UsageTypeOK, Run
  <2> QED
    BY <1>1, <1>2, <1>4, <2>1 DEF UsageTypeOK
<1>6. FlagsOK'
  BY <1>1, <1>2 DEF FlagsOK
<1>7. SameCounts
  BY <1>2, SameLogs
<1>8. UsageWithinLogs'
  <2> SUFFICES ASSUME NEW d \in UsageDay PROVE Below(daily'[d], Counted(d)')
    BY DEF UsageWithinLogs, Below
  <2>1. Counted(d)' = Counted(d)
    BY <1>7 DEF SameCounts
  <2>2. Below(daily[d], Counted(d))
    BY DEF UsageInv, UsageWithinLogs, Below
  <2>3. d = TheDay(r) => Below(run[r].read, Counted(d))
    BY <1>2 DEF UsageInv, ReadWithinLogs
  <2> QED
    BY <1>2, <2>1, <2>2, <2>3
<1>9. ReadWithinLogs'
  <2> SUFFICES ASSUME NEW s \in Runner, NEW d \in UsageDay, run'[s].at = "write", d = TheDay(s)'
               PROVE  Below(run'[s].read, Counted(d)')
    BY DEF ReadWithinLogs, TheDay, Below
  <2>1. s # r
    BY <1>3, <1>4
  <2>2. run'[s] = run[s] /\ d = TheDay(s) /\ Counted(d)' = Counted(d)
    BY <1>4, <1>7, <2>1 DEF TheDay, SameCounts
  <2> QED
    BY <2>2 DEF UsageInv, ReadWithinLogs, Below
<1>10. ASSUME smooth PROVE InOrder'
  <2>1. InOrder
    BY <1>10 DEF UsageInv
  <2>2. /\ LastFired' = LastFired /\ LastFired \in Nat /\ AnyRun
        /\ run[r].today = DayOf(LastFired)
    BY <1>2, <2>1 DEF LastFired, AnyRun, InOrder
  <2>3. \A s \in Runner : s # r => run[s].at = "idle" /\ run'[s].at = "idle"
    BY <1>2, <1>4, <2>1 DEF InOrder
  <2>4. ASSUME NEW d \in UsageDay, Due(d, LastFired),
               Due(d, LastFired - 1) \/ d = TheDay(r)
        PROVE  daily'[d] = Counted(d)'
    <3>1. Counted(d)' = Counted(d)
      BY <1>7 DEF SameCounts
    <3>4. CASE d = TheDay(r)
      <4>1. daily'[d] = run[r].read
        BY <1>2, <3>4
      <4>2. run[r].read = Counted(d)
        BY <1>2, <2>1, <2>4, <3>4 DEF InOrder
      <4> QED
        BY <3>1, <4>1, <4>2
    <3>5. CASE d # TheDay(r)
      <4>1. daily'[d] = daily[d]
        BY <1>2, <3>5
      <4>2. daily[d] = Counted(d)
        BY <2>1, <2>2, <2>4, <3>5 DEF InOrder
      <4> QED
        BY <3>1, <4>1, <4>2
    <3> QED
      BY <3>4, <3>5
  <2>5. up' /\ \A h \in Hour : h + 1 < hour' => logs'[h].open = 0
    BY <1>2, <2>1 DEF InOrder
  <2>6. CASE run[r].back = 0
    <3>1. AnyRun' /\ run'[r].at = "read" /\ run'[r].today = run[r].today
      BY <1>3, <1>4, <2>6 DEF AnyRun
    <3>2. ASSUME NEW d \in UsageDay, Due(d, LastFired' - 1) PROVE daily'[d] = Counted(d)'
      <4>1. d \in Nat /\ LastFired \in Int
        BY <2>2, DaysAreNatural
      <4>2. Due(d, LastFired - 1)
        BY <2>2, <3>2
      <4>3. Due(d, LastFired)
        BY <4>1, <4>2, DueLater
      <4> QED
        BY <2>4, <4>2, <4>3
    <3> QED
      BY <2>2, <2>3, <2>5, <3>1, <3>2 DEF InOrder, Due
  <2>7. CASE run[r].back # 0
    <3>1. \A s \in Runner : run'[s].at = "idle"
      BY <1>3, <1>4, <2>3, <2>7
    <3>2. ~AnyRun'
      BY <3>1 DEF AnyRun
    <3>3. ASSUME NEW d \in UsageDay, Due(d, LastFired') PROVE daily'[d] = Counted(d)'
      <4>1. d \in Nat /\ LastFired \in Int /\ Due(d, LastFired)
        BY <2>2, <3>3, DaysAreNatural
      <4>2. CASE Due(d, LastFired - 1)
        BY <2>4, <4>1, <4>2
      <4>3. CASE ~Due(d, LastFired - 1)
        <5>1. d = DayOf(LastFired) - 1
          BY <4>1, <4>3, FirstDue
        <5>2. run[r].back = 1
          BY <1>1, <2>7 DEF Run
        <5>3. d = TheDay(r)
          BY <2>2, <5>1, <5>2 DEF TheDay
        <5> QED
          BY <2>4, <4>1, <5>3
      <4> QED
        BY <4>2, <4>3
    <3> QED
      BY <2>5, <3>1, <3>2, <3>3 DEF InOrder, Due
  <2> QED
    BY <2>6, <2>7
<1> QED
  BY <1>2, <1>5, <1>6, <1>8, <1>9, <1>10 DEF UsageInv

(* Upsets end the order, and a stop leaves as many requests as there were. *)
LEMMA UpsetStep ==
    ASSUME UsageInv, Stop \/ (\E r \in Runner : AggregateFails(r)) \/ (\E r \in Runner : Boot(r))
    PROVE  UsageInv'
<1>1. UsageTypeOK /\ FlagsOK
  BY DEF UsageInv
<1>2. CASE Stop
  <2>1. /\ upsets > 0 /\ upsets' = upsets - 1
        /\ run' = [r \in Runner |-> NoRun]
        /\ logs' = [h \in Hour |-> [open |-> 0, ok |-> logs[h].ok,
                                    failed |-> logs[h].failed + logs[h].open]]
        /\ UNCHANGED <<hour, daily, fired>>
    BY <1>2 DEF Stop, Upset
  <2>2. smooth' = FALSE /\ up' = FALSE
    BY <1>2 DEF Stop, Upset
  <2>3. UsageTypeOK'
    <3>1. logs' \in [Hour -> Log]
      BY <1>1, <2>1 DEF UsageTypeOK, Log
    <3>2. run' \in [Runner -> Run]
      BY <2>1, RunTypes
    <3>3. upsets' \in Nat
      BY <1>1, <2>1 DEF UsageTypeOK
    <3> QED
      BY <1>1, <2>1, <3>1, <3>2, <3>3 DEF UsageTypeOK
  <2>4. FlagsOK'
    BY <1>1, <2>1, <2>2 DEF FlagsOK
  <2>5. SameCounts
    <3>1. \A h \in Hour : Requests'[h] = Requests[h] /\ Successes'[h] = Successes[h]
      <4> TAKE h \in Hour
      <4>1. logs[h].open \in Nat /\ logs[h].ok \in Nat /\ logs[h].failed \in Nat
        BY <1>1 DEF UsageTypeOK, Log
      <4>2. /\ Requests[h] = logs[h].open + logs[h].ok + logs[h].failed
            /\ Requests'[h] = 0 + logs[h].ok + (logs[h].failed + logs[h].open)
            /\ Successes[h] = logs[h].ok /\ Successes'[h] = logs[h].ok
        BY <2>1 DEF Requests, Successes
      <4> QED
        BY <4>1, <4>2
    <3> QED
      BY <1>1, <3>1, CountedSame, HoursAreFinite DEF SameCounts
  <2>6. \A r \in Runner : run'[r].at = "idle"
    BY <2>1, RunTypes
  <2> QED
    BY <2>1, <2>2, <2>3, <2>4, <2>5, <2>6, RunsStep
<1>3. ASSUME NEW r \in Runner, AggregateFails(r) PROVE UsageInv'
  <2>1. /\ upsets > 0 /\ upsets' = upsets - 1
        /\ run' = [run EXCEPT ![r] = NoRun]
        /\ UNCHANGED <<hour, logs, daily, fired, up>>
    BY <1>3 DEF AggregateFails, Upset
  <2>2. smooth' = FALSE
    BY <1>3 DEF AggregateFails, Upset
  <2>3. UsageTypeOK'
    <3>1. run' \in [Runner -> Run]
      BY <1>1, <2>1, RunTypes DEF UsageTypeOK
    <3>2. upsets' \in Nat
      BY <1>1, <2>1 DEF UsageTypeOK
    <3> QED
      BY <1>1, <2>1, <3>1, <3>2 DEF UsageTypeOK
  <2>4. FlagsOK'
    BY <1>1, <2>1, <2>2 DEF FlagsOK
  <2>5. \A s \in Runner : run'[s] = run[s] \/ run'[s].at # "write"
    BY <1>1, <2>1, RunTypes DEF UsageTypeOK
  <2> QED
    BY <2>1, <2>2, <2>3, <2>4, <2>5, SameLogs, RunsStep
<1>4. ASSUME NEW r \in Runner, Boot(r) PROVE UsageInv'
  <2> DEFINE new == [NoRun EXCEPT !.at = "read", !.today = DayOf(hour)]
  <2>1. run' = [run EXCEPT ![r] = new] /\ UNCHANGED <<hour, logs, daily, upsets>>
    BY <1>4 DEF Boot
  <2>2. ~up /\ up' = TRUE /\ fired' = TRUE /\ smooth' = smooth
    BY <1>4 DEF Boot
  <2>3. ~smooth'
    BY <2>2 DEF UsageInv, InOrder
  <2>4. new \in Run /\ new.at = "read"
    BY <1>1, RunTypes DEF UsageTypeOK
  <2> HIDE DEF new
  <2>5. UsageTypeOK' /\ \A s \in Runner : run'[s] = run[s] \/ run'[s].at # "write"
    BY <1>1, <2>1, <2>4 DEF UsageTypeOK
  <2>6. FlagsOK'
    BY <1>1, <2>2 DEF FlagsOK
  <2> QED
    BY <2>1, <2>3, <2>5, <2>6, SameLogs, RunsStep
<1> QED
  BY <1>2, <1>3, <1>4

LEMMA HourStep == ASSUME UsageInv, NextHour PROVE UsageInv'
<1>1. UsageTypeOK /\ FlagsOK /\ hour \in Nat
  BY HourFacts DEF UsageInv
<1>2. /\ hour < MaxHours /\ hour' = hour + 1 /\ UNCHANGED <<logs, daily, run, upsets>>
      /\ up => \A h \in Hour : h < hour => logs[h].open = 0
  BY DEF NextHour
<1>3. (up => fired) /\ fired' = FALSE /\ up' = up /\ smooth' = smooth
  BY DEF NextHour
<1>4. UsageTypeOK'
  <2>1. hour' \in Hour
    BY UsageAssumption, <1>1, <1>2 DEF Hour
  <2> QED
    BY <1>1, <1>2, <2>1 DEF UsageTypeOK
<1>5. FlagsOK'
  BY <1>1, <1>3 DEF FlagsOK
<1>6. SameCounts
  BY <1>2, SameLogs
<1>7. ASSUME smooth PROVE InOrder'
  <2>1. InOrder /\ up /\ fired
    BY <1>3, <1>7 DEF UsageInv, InOrder
  <2>2. LastFired = hour /\ LastFired' = hour
    BY <1>1, <1>2, <1>3, <2>1 DEF LastFired
  <2>3. AnyRun' = AnyRun /\ \A r \in Runner : TheDay(r)' = TheDay(r)
    BY <1>2 DEF AnyRun, TheDay
  <2>4. \A h \in Hour : h + 1 < hour' => logs'[h].open = 0
    BY <1>1, <1>2, <2>1 DEF Hour
  <2>5. /\ \A r, s \in Runner : run'[r].at # "idle" /\ run'[s].at # "idle" => r = s
        /\ \A r \in Runner : run'[r].at # "idle" =>
              LastFired' \in Nat /\ run'[r].today = DayOf(LastFired')
    BY <1>2, <2>1, <2>2 DEF InOrder
  <2>6. ASSUME NEW r \in Runner, NEW d \in UsageDay, run'[r].at = "write", d = TheDay(r)',
               Due(d, LastFired')
        PROVE  run'[r].read = Counted(d)'
    BY <1>2, <1>6, <2>1, <2>2, <2>3, <2>6 DEF InOrder, SameCounts
  <2>7. \A d \in UsageDay :
          Due(d, IF AnyRun' THEN LastFired' - 1 ELSE LastFired') => daily'[d] = Counted(d)'
    BY <1>2, <1>6, <2>1, <2>2, <2>3 DEF InOrder, SameCounts
  <2> QED
    BY <1>3, <2>1, <2>4, <2>5, <2>6, <2>7 DEF InOrder, Due
<1> QED
  BY <1>2, <1>3, <1>4, <1>5, <1>6, <1>7, RunsStep

LEMMA UsageStep == UsageInv /\ [UsageNext]_usageVars => UsageInv'
<1> SUFFICES ASSUME UsageInv, [UsageNext]_usageVars PROVE UsageInv'
  OBVIOUS
<1>1. CASE UNCHANGED usageVars
  <2>1. UNCHANGED <<hour, logs, daily, run, fired, up, upsets, smooth>>
    BY <1>1 DEF usageVars
  <2>2. UsageTypeOK' /\ FlagsOK' /\ (smooth' <=> smooth)
    BY <2>1 DEF UsageInv, UsageTypeOK, FlagsOK
  <2>3. LastFired' = LastFired /\ AnyRun' = AnyRun /\ \A r \in Runner : TheDay(r)' = TheDay(r)
    BY <2>1 DEF LastFired, AnyRun, TheDay
  <2>4. SameCounts
    BY <2>1, SameLogs
  <2>5. smooth => InOrder'
    <3>1. SUFFICES ASSUME smooth PROVE InOrder'
      OBVIOUS
    <3>2. InOrder
      BY <3>1 DEF UsageInv
    <3>3. ASSUME NEW r \in Runner, NEW d \in UsageDay, run'[r].at = "write", d = TheDay(r)',
                 Due(d, LastFired')
          PROVE  run'[r].read = Counted(d)'
      BY <2>1, <2>3, <2>4, <3>2, <3>3 DEF InOrder, SameCounts
    <3>4. \A d \in UsageDay :
            Due(d, IF AnyRun' THEN LastFired' - 1 ELSE LastFired') => daily'[d] = Counted(d)'
      BY <2>1, <2>3, <2>4, <3>2 DEF InOrder, SameCounts
    <3>5. /\ up' /\ \A h \in Hour : h + 1 < hour' => logs'[h].open = 0
          /\ \A r, s \in Runner : run'[r].at # "idle" /\ run'[s].at # "idle" => r = s
          /\ \A r \in Runner : run'[r].at # "idle" =>
                LastFired' \in Nat /\ run'[r].today = DayOf(LastFired')
      BY <2>1, <2>3, <3>2 DEF InOrder
    <3> QED
      BY <3>3, <3>4, <3>5 DEF InOrder, Due
  <2> QED
    BY <2>1, <2>2, <2>4, <2>5, RunsStep
<1> QED
  BY <1>1, LogActions, FireStep, ReadStep, WriteStep, UpsetStep, HourStep DEF UsageNext

(* Runs that overlap, fail or are cut off never count a request twice, and *)
(* runs that came one after the other without a failure have completed     *)
(* every day they will not look at again.                                  *)
THEOREM UsageIsAlwaysTrue == UsageSpec => []UsageIsTrue
<1>1. UsageInv => UsageIsTrue
  <2> SUFFICES ASSUME UsageInv PROVE ClosedDaysComplete
    BY DEF UsageInv, UsageIsTrue
  <2> SUFFICES ASSUME smooth, ~AnyRun, NEW d \in UsageDay, d + 1 < DayOf(hour)
               PROVE  daily[d] = Counted(d)
    BY DEF ClosedDaysComplete
  <2>1. InOrder /\ UsageTypeOK
    BY DEF UsageInv
  <2>2. hour \in Nat /\ LastFired \in Int /\ hour - 1 <= LastFired /\ d \in Nat
    BY <2>1, HourFacts, DaysAreNatural DEF LastFired
  <2>3. Due(d, LastFired)
    BY <2>2, ClosedIsDue
  <2> QED
    BY <2>1, <2>3 DEF InOrder
<1> QED
  BY <1>1, UsageInitial, UsageStep, PTL DEF UsageSpec

-----------------------------------------------------------------------------
(* Alerts.  A usage alert is the first of its day because the cache is     *)
(* never before an alert that was raised: whoever finds it a day old finds *)
(* no alert in the day that ends now.                                      *)

Window(t) == {s \in Clock : s \in t..(t + AlertDay - 1)}

AlertTypeOK ==
    /\ clock \in Clock /\ cache \in Int /\ cache <= clock
    /\ events \in SUBSET [n : Nat, resolvedAt : Nat]
    /\ alerts \in [AlertKind -> [Clock -> Nat]]

AlertInv ==
    /\ AlertTypeOK /\ UsageAlertOnce
    /\ \A t \in Clock : alerts["usage"][t] # 0 => t <= cache

LEMMA OnceIsSum ==
    /\ UsageAlertOnce <=> \A t \in Clock : SumOver(alerts["usage"], Window(t)) <= 1
    /\ UsageAlertOnce' <=> \A t \in Clock : SumOver(alerts'["usage"], Window(t)) <= 1
BY DEF UsageAlertOnce, OncePerDay, SumOver, Window, MapThenSumSet, MapThenFoldSet

LEMMA WindowIsFinite == ASSUME NEW t \in Clock PROVE IsFiniteSet(Window(t))
<1>1. IsFiniteSet(Clock)
  BY AlertAssumption, FS_Interval DEF Clock
<1> QED
  BY <1>1, FS_Subset DEF Window

LEMMA NothingRaised ==
    ASSUME NEW f, \A t \in Clock : f[t] = 0 PROVE \A t \in Clock : SumOver(f, Window(t)) <= 1
<1> TAKE t \in Clock
<1>1. \A s \in Window(t) : f[s] = 0
  BY DEF Window
<1>2. SumOver(f, Window(t)) = 0
  BY <1>1, WindowIsFinite, SumZero
<1> QED
  BY <1>2

LEMMA AlertInitial == AlertInit => AlertInv
<1> SUFFICES ASSUME AlertInit PROVE AlertInv
  OBVIOUS
<1> USE AlertAssumption
<1>0. 1 \in Clock
  BY DEF Clock
<1>1. /\ clock = 1 /\ cache = -AlertDay /\ events = {}
      /\ alerts = [k \in AlertKind |-> [t \in Clock |-> 0]]
  BY DEF AlertInit, NeverAlerted
<1>2. AlertTypeOK
  BY <1>0, <1>1 DEF AlertTypeOK
<1>3. \A t \in Clock : alerts["usage"][t] = 0
  BY <1>1 DEF AlertKind
<1> QED
  BY <1>2, <1>3, NothingRaised, OnceIsSum DEF AlertInv

(* A step that raises no usage alert.                                      *)
LEMMA NoUsageAlert ==
    ASSUME AlertInv, AlertTypeOK', alerts'["usage"] = alerts["usage"], cache' = cache
    PROVE  AlertInv'
BY OnceIsSum DEF AlertInv

(* Raise, once on an hour without an alert.                                *)
LEMMA RaiseType ==
    ASSUME AlertTypeOK, NEW k \in AlertKind, Raise(k)
    PROVE  /\ alerts' \in [AlertKind -> [Clock -> Nat]]
           /\ \A j \in AlertKind : j # k => alerts'[j] = alerts[j]
           /\ \A t \in Clock : t # clock => alerts'[k][t] = alerts[k][t]
           /\ alerts[k][clock] = 0 => alerts'[k][clock] = 1
<1> DEFINE now1 == {alerts[k][clock] + 1, 2}
           m == Min(now1)
<1>1. alerts[k][clock] \in Nat
  BY DEF AlertTypeOK
<1>2. now1 \in SUBSET Nat /\ now1 # {}
  BY <1>1
<1>3. m \in now1 /\ \A x \in now1 : m <= x
  <2> HIDE DEF now1
  <2> QED
    BY <1>2, MinIsMember
<1>4. m \in Nat /\ (alerts[k][clock] = 0 => m = 1)
  BY <1>1, <1>3
<1>5. alerts' = [alerts EXCEPT ![k][clock] = m]
  BY DEF Raise
<1> HIDE DEF m, now1
<1> QED
  BY <1>4, <1>5 DEF AlertTypeOK

LEMMA UsageAlert ==
    ASSUME AlertInv, AlertTypeOK', Raise("usage"), clock - cache >= AlertDay, cache' = clock,
           clock' = clock
    PROVE  AlertInv'
<1> USE AlertAssumption
<1> DEFINE f == alerts["usage"]
           g == alerts'["usage"]
<1>1. /\ clock \in Clock /\ cache \in Int
      /\ \A t \in Clock : f[t] \in Nat /\ g[t] \in Nat
  BY DEF AlertInv, AlertTypeOK, AlertKind
<1>2. \A t \in Clock : t > cache => f[t] = 0
  BY <1>1 DEF AlertInv, Clock
<1>3. clock > cache
  BY <1>1 DEF Clock
<1>4. (\A t \in Clock : t # clock => g[t] = f[t]) /\ g[clock] = 1
  BY <1>1, <1>2, <1>3, RaiseType DEF AlertInv, AlertKind
<1> HIDE DEF f, g
<1>5. \A t \in Clock : g[t] # 0 => t <= clock
  <2> SUFFICES ASSUME NEW t \in Clock, t > clock PROVE g[t] = 0
    BY <1>1 DEF Clock
  <2> QED
    BY <1>1, <1>2, <1>3, <1>4 DEF Clock
<1>6. \A t \in Clock : SumOver(g, Window(t)) <= 1
  <2> TAKE t \in Clock
  <2> DEFINE W == Window(t)
  <2>1. IsFiniteSet(W) /\ \A s \in W : s \in Clock /\ f[s] \in Nat /\ g[s] \in Nat
    BY <1>1, WindowIsFinite DEF Window
  <2>2. CASE clock \in W
    <3>1. \A s \in W \ {clock} : g[s] = 0
      <4> TAKE s \in W \ {clock}
      <4>1. s > cache
        BY <1>1, <2>2 DEF Window, Clock
      <4> QED
        BY <1>2, <1>4, <2>1, <4>1
    <3>2. IsFiniteSet(W \ {clock})
      BY <2>1, FS_Subset
    <3> HIDE DEF W
    <3>3. SumOver(g, W \ {clock}) = 0
      <4> DEFINE V == W \ {clock}
      <4>1. IsFiniteSet(V) /\ \A s \in V : g[s] = 0
        BY <3>1, <3>2
      <4> HIDE DEF V
      <4>2. SumOver(g, V) = 0
        BY <4>1, SumZero
      <4> QED
        BY <4>2 DEF V
    <3>4. SumOver(g, W) = g[clock] + SumOver(g, W \ {clock})
      BY <2>1, <2>2, SumRemove
    <3>5. SumOver(g, W) = 1
      BY <1>4, <3>3, <3>4
    <3> QED
      BY <3>5 DEF W
  <2>3. CASE clock \notin W
    <3>1. \A s \in W : f[s] \in Nat /\ g[s] = f[s]
      BY <1>4, <2>1, <2>3
    <3>2. SumOver(g, W) = SumOver(f, W)
      <4> HIDE DEF W
      <4> QED
        BY <2>1, <3>1, SumEqual
    <3>3. SumOver(f, W) <= 1
      BY OnceIsSum DEF AlertInv, f
    <3> QED
      BY <3>2, <3>3
  <2> QED
    BY <2>2, <2>3
<1> QED
  BY <1>5, <1>6, OnceIsSum DEF AlertInv, f, g

(* Rows that are neither there nor expired.                                *)
EventsKept == \A e \in events : e.resolvedAt = 0 => \E f \in events' : f.n = e.n

LEMMA AlertStep ==
    ASSUME AlertInv, [AlertNext]_alertVars PROVE AlertInv' /\ EventsKept
<1> USE AlertAssumption
<1> DEFINE Row == [n : Nat, resolvedAt : Nat]
<1>1. AlertTypeOK /\ clock \in Nat
  BY DEF AlertInv, AlertTypeOK, Clock
<1>2. ASSUME UNCHANGED <<clock, cache, alerts>>, events' \in SUBSET Row PROVE AlertInv'
  <2>1. AlertTypeOK'
    BY <1>1, <1>2 DEF AlertTypeOK
  <2> QED
    BY <1>2, <2>1, NoUsageAlert
<1>3. UNCHANGED events => EventsKept /\ events' \in SUBSET Row
  BY <1>1 DEF EventsKept, AlertTypeOK
<1>4. CASE KeyUsed \/ SetRetention \/ UNCHANGED alertVars
  BY <1>2, <1>3, <1>4 DEF KeyUsed, SetRetention, alertVars
<1>5. CASE AlertRestart
  <2>1. /\ cache' = -AlertDay /\ UNCHANGED <<clock, events>>
        /\ alerts' = [k \in AlertKind |-> [t \in Clock |-> 0]]
    BY <1>5 DEF AlertRestart, NeverAlerted
  <2>2. AlertTypeOK'
    BY <1>1, <2>1 DEF AlertTypeOK, Clock
  <2>3. \A t \in Clock : alerts'["usage"][t] = 0
    BY <2>1 DEF AlertKind
  <2>4. UsageAlertOnce'
    BY <2>3, NothingRaised, OnceIsSum
  <2> QED
    BY <1>3, <2>1, <2>2, <2>3, <2>4 DEF AlertInv
<1>6. CASE AlertTick
  <2>1. clock < MaxClock /\ clock' = clock + 1 /\ UNCHANGED <<cache, events, alerts>>
    BY <1>6 DEF AlertTick
  <2>2. AlertTypeOK'
    BY <1>1, <2>1 DEF AlertTypeOK, Clock
  <2> QED
    BY <1>3, <2>1, <2>2, NoUsageAlert
<1>7. ASSUME NEW c \in Checker, UsageSum(c) \/ JobFails(c) \/ PurgeRead(c)
      PROVE  AlertInv' /\ EventsKept
  BY <1>2, <1>3, <1>7 DEF UsageSum, JobFails, PurgeRead
<1>8. ASSUME NEW c \in Checker, UsageDecide(c) PROVE AlertInv' /\ EventsKept
  <2>1. UNCHANGED <<clock, events>>
    BY <1>8 DEF UsageDecide
  <2>2. CASE UNCHANGED <<cache, alerts>>
    BY <1>2, <1>3, <2>1, <2>2
  <2>3. CASE clock - cache >= AlertDay /\ cache' = clock /\ Raise("usage")
    <3>1. alerts' \in [AlertKind -> [Clock -> Nat]]
      BY <1>1, <2>3, RaiseType DEF AlertKind
    <3>2. AlertTypeOK'
      BY <1>1, <2>1, <2>3, <3>1 DEF AlertTypeOK, Clock
    <3> QED
      BY <1>3, <2>1, <2>3, <3>2, UsageAlert
  <2> QED
    BY <1>8, <2>2, <2>3 DEF UsageDecide
<1>9. ASSUME NEW c \in Checker, BalanceCheck(c) PROVE AlertInv' /\ EventsKept
  <2>1. Raise("balance") /\ UNCHANGED <<clock, events, cache>>
    BY <1>9 DEF BalanceCheck
  <2>2. /\ alerts' \in [AlertKind -> [Clock -> Nat]]
        /\ alerts'["usage"] = alerts["usage"]
    BY <1>1, <2>1, RaiseType DEF AlertKind
  <2>3. AlertTypeOK'
    BY <1>1, <2>1, <2>2 DEF AlertTypeOK
  <2> QED
    BY <1>3, <2>1, <2>2, <2>3, NoUsageAlert
<1>10. ASSUME NEW c \in Checker, AlertEvent(c) PROVE AlertInv' /\ EventsKept
  <2>1. UNCHANGED <<clock, cache, alerts>>
    BY <1>10 DEF AlertEvent
  <2>2. \/ UNCHANGED events
        \/ \E n \in 1..MaxEvents : events' = events \cup {[n |-> n, resolvedAt |-> 0]}
    BY <1>10 DEF AlertEvent, Written
  <2>3. events' \in SUBSET Row /\ events \subseteq events'
    BY <1>1, <2>2 DEF AlertTypeOK
  <2> QED
    BY <1>2, <2>1, <2>3 DEF EventsKept
<1>11. ASSUME NEW c \in Checker, PurgeDelete(c) PROVE AlertInv' /\ EventsKept
  <2>1. UNCHANGED <<clock, cache, alerts>> /\ events' = {e \in events : ~Expired(e, job[c].days)}
    BY <1>11 DEF PurgeDelete
  <2>2. \A e \in events : e.resolvedAt = 0 => e \in events'
    BY <2>1 DEF Expired
  <2>3. events' \in SUBSET Row
    BY <1>1, <2>1 DEF AlertTypeOK
  <2> QED
    BY <1>2, <2>1, <2>2, <2>3 DEF EventsKept
<1>12. ASSUME NEW e \in events, ResolveAlert(e) PROVE AlertInv' /\ EventsKept
  <2> DEFINE new == [e EXCEPT !.resolvedAt = clock]
  <2>1. UNCHANGED <<clock, cache, alerts>> /\ events' = (events \ {e}) \cup {new}
    BY <1>12 DEF ResolveAlert
  <2>2. new \in Row /\ new.n = e.n
    BY <1>1 DEF AlertTypeOK
  <2> HIDE DEF new
  <2>3. events' \in SUBSET Row
    BY <1>1, <2>1, <2>2 DEF AlertTypeOK
  <2>4. EventsKept
    BY <2>1, <2>2 DEF EventsKept
  <2> QED
    BY <1>2, <2>1, <2>3, <2>4
<1> QED
  BY <1>4, <1>5, <1>6, <1>7, <1>8, <1>9, <1>10, <1>11, <1>12 DEF AlertNext

(* No step raises the usage alert of a key a second time within a day or   *)
(* purges an alert that nobody resolved, whatever checks overlap, queries  *)
(* fail or retention was set.                                              *)
THEOREM AlertsAlwaysKept == AlertSpec => AlertsKept
<1>1. AlertInv /\ [AlertNext]_alertVars => AlertInv'
  BY AlertStep
<1>2. AlertInv /\ [AlertNext]_alertVars =>
         [/\ UsageAlertOnce'
          /\ \A e \in events : e.resolvedAt = 0 => \E f \in events' : f.n = e.n]_alertVars
  BY AlertStep DEF AlertInv, EventsKept
<1> QED
  BY <1>1, <1>2, AlertInitial, PTL DEF AlertSpec, AlertsKept

-----------------------------------------------------------------------------
(* Alert rules.  What an evaluation owes is always on its list, so that    *)
(* nothing is owed when the list is empty; and the rule it has hit has an  *)
(* event before it is marked.                                              *)

Evaluation == [at : {"idle", "rules", "hit", "quiet"}, todo : SUBSET Rule, owed : SUBSET Rule,
               rule : SUBSET Rule]

RuleTypeOK ==
    /\ rules \in SUBSET Rule /\ triggered \in SUBSET Rule /\ missed \in SUBSET Rule
    /\ hits \in [Rule -> Nat] /\ trouble \in Nat
    /\ evals \in [Evaluator -> Evaluation]

OwedIsListed ==
    \A v \in Evaluator :
        /\ evals[v].owed \subseteq evals[v].todo \ Unknown
        /\ evals[v].at = "hit" => \A r \in evals[v].rule : hits[r] > 0

RuleInv == RuleTypeOK /\ OwedIsListed /\ RulesInOrder

LEMMA RuleInitial == RuleInit => RuleInv
BY RuleAssumption
   DEF RuleInit, RuleInv, RuleTypeOK, OwedIsListed, RulesInOrder, RulesAllEvaluated,
       TriggeredHasEvent, Evaluation, NoEval

(* An evaluation that ends, and one that goes on with its list.            *)
LEMMA AbortStep ==
    ASSUME RuleInv, NEW v \in Evaluator, Aborts(v) PROVE
    /\ evals' \in [Evaluator -> Evaluation]
    /\ \A w \in Evaluator : evals'[w] = NoEval \/ evals'[w] = evals[w]
BY DEF RuleInv, RuleTypeOK, Aborts, NoEval, Evaluation

LEMMA RuleStep == RuleInv /\ [RuleNext]_ruleVars => RuleInv'
<1> SUFFICES ASSUME RuleInv, [RuleNext]_ruleVars PROVE RuleInv'
  OBVIOUS
<1> USE RuleAssumption DEF RuleInv, RuleTypeOK, RulesInOrder, RulesAllEvaluated, TriggeredHasEvent
<1>1. ASSUME NEW v \in Evaluator, RulesRead(v) PROVE RuleInv'
  BY <1>1 DEF RulesRead, Evaluates, OwedIsListed, Evaluation
<1>2. ASSUME NEW v \in Evaluator, RuleUpdate(v) PROVE RuleInv'
  <2> DEFINE e == evals[v]
             next == [at |-> "rules", todo |-> e.todo \ e.rule, owed |-> e.owed \ e.rule, rule |-> {}]
  <2>1. /\ UNCHANGED <<rules, hits, trouble, missed>>
        /\ e.at = "hit" \/ e.at = "quiet"
        /\ triggered' = IF e.at = "hit" THEN triggered \cup (e.rule \cap rules) ELSE triggered
        /\ evals' = [evals EXCEPT ![v] = next] \/ evals' = [evals EXCEPT ![v] = NoEval]
    BY <1>2 DEF RuleUpdate, Evaluates, Aborts
  <2>2. e \in Evaluation
    OBVIOUS
  <2>3. next \in Evaluation /\ NoEval \in Evaluation /\ next.at = "rules" /\ NoEval.at = "idle"
        /\ next.owed = e.owed \ e.rule /\ next.todo = e.todo \ e.rule
        /\ NoEval.owed = {} /\ NoEval.todo = {}
    BY <2>2 DEF Evaluation, NoEval
  <2> HIDE DEF next
  <2>4. RuleTypeOK'
    BY <2>1, <2>2, <2>3 DEF Evaluation
  <2>5. OwedIsListed'
    BY <2>1, <2>3 DEF OwedIsListed
  <2>6. TriggeredHasEvent'
    BY <2>1 DEF OwedIsListed
  <2> QED
    BY <2>1, <2>4, <2>5, <2>6
<1>3. ASSUME NEW v \in Evaluator, RulesDone(v) PROVE RuleInv'
  <2>1. evals[v].owed = {}
    BY <1>3 DEF RulesDone, OwedIsListed
  <2>2. Aborts(v) /\ UNCHANGED <<rules, triggered, hits, trouble, missed>>
    BY <1>3, <2>1 DEF RulesDone
  <2> QED
    BY <2>2, AbortStep DEF OwedIsListed, NoEval
<1>4. ASSUME NEW v \in Evaluator, RuleFails(v) PROVE RuleInv'
  <2>1. Aborts(v) /\ UNCHANGED <<rules, triggered, hits, missed>> /\ trouble' \in Nat
    BY <1>4 DEF RuleFails
  <2> QED
    BY <2>1, AbortStep DEF OwedIsListed, NoEval
<1>5. ASSUME NEW v \in Evaluator, NEW r \in Rule, RuleUnknown(v, r) PROVE RuleInv'
  <2>1. /\ UNCHANGED <<rules, triggered, hits, trouble, missed>>
        /\ evals[v].at = "rules" /\ r \in Unknown
        /\ evals' = [evals EXCEPT ![v].todo = evals[v].todo \ {r}]
    BY <1>5 DEF RuleUnknown, UnknownMetric, Evaluates
  <2>2. evals' \in [Evaluator -> Evaluation]
    BY <2>1 DEF Evaluation
  <2>3. OwedIsListed'
    BY <2>1 DEF OwedIsListed, Evaluation
  <2> QED
    BY <2>1, <2>2, <2>3
<1>6. ASSUME NEW v \in Evaluator, NEW r \in Rule, RuleHit(v, r) PROVE RuleInv'
  <2>1. /\ UNCHANGED <<rules, triggered, trouble, missed>>
        /\ hits' = [hits EXCEPT ![r] = hits[r] + 1]
        /\ evals' = [evals EXCEPT ![v].at = "hit", ![v].rule = {r}]
    BY <1>6 DEF RuleHit, Evaluates
  <2>2. hits' \in [Rule -> Nat] /\ \A i \in Rule : hits[i] > 0 => hits'[i] > 0
    BY <2>1
  <2>3. hits'[r] > 0
    BY <2>1
  <2>4. evals' \in [Evaluator -> Evaluation]
    BY <2>1, ZenonT(30) DEF Evaluation
  <2>5. OwedIsListed'
    <3> SUFFICES ASSUME NEW w \in Evaluator
                 PROVE  /\ evals'[w].owed \subseteq evals'[w].todo \ Unknown
                        /\ evals'[w].at = "hit" => \A i \in evals'[w].rule : hits'[i] > 0
      BY DEF OwedIsListed
    <3>1. CASE w = v
      <4>1. /\ evals'[v].owed = evals[v].owed /\ evals'[v].todo = evals[v].todo
            /\ evals'[v].rule = {r}
        BY <2>1 DEF Evaluation
      <4> QED
        BY <2>3, <3>1, <4>1 DEF OwedIsListed
    <3>2. CASE w # v
      <4>1. evals'[w] = evals[w]
        BY <2>1, <3>2
      <4>2. evals[w].rule \subseteq Rule
        BY DEF Evaluation
      <4> QED
        BY <2>2, <4>1, <4>2 DEF OwedIsListed
    <3> QED
      BY <3>1, <3>2
  <2> QED
    BY <2>1, <2>2, <2>4, <2>5
<1>7. ASSUME NEW v \in Evaluator, NEW r \in Rule, RuleQuiet(v, r) PROVE RuleInv'
  BY <1>7, ZenonT(30) DEF RuleQuiet, Evaluates, OwedIsListed, Evaluation
<1>8. ASSUME NEW r \in Rule, DeleteRule(r) PROVE RuleInv'
  BY <1>8 DEF DeleteRule, OwedIsListed
<1>9. CASE UNCHANGED ruleVars
  BY <1>9 DEF ruleVars, OwedIsListed
<1> QED
  BY <1>1, <1>2, <1>3, <1>4, <1>5, <1>6, <1>7, <1>8, <1>9 DEF RuleNext

(* An evaluation that returns has evaluated every rule it read, and a rule *)
(* that says it was triggered has an error event, with evaluations that    *)
(* overlap or break off.                                                   *)
THEOREM RulesAlwaysInOrder == RuleSpec => []RulesInOrder
<1>1. RuleInv => RulesInOrder
  BY DEF RuleInv
<1> QED
  BY <1>1, RuleInitial, RuleStep, PTL DEF RuleSpec

-----------------------------------------------------------------------------
(* Provider health.  ErrorsWithinFailures is kept because what a check     *)
(* read of the counter was within the failures, and those only grow; and   *)
(* FailureBenches because the check that still owes the cooldown is one    *)
(* that took the last failure, not just any.                               *)

Bench == [expiresAt : Nat, resolved : BOOLEAN]
Checking == [at : {"idle", "write", "look", "create"}, ok : BOOLEAN, takenAt : Nat, count : Nat]

HealthTypeOK ==
    /\ ticks \in Nat /\ errorCount \in Nat /\ checks \in Nat
    /\ benches \in SUBSET Bench
    /\ check \in [HealthCheck -> Checking]
    /\ failures \in Nat /\ lastFailure \in Nat

LastFailureBenches ==
    lastFailure # 0 =>
        \/ \E b \in benches : b.expiresAt >= lastFailure /\ ~b.resolved
        \/ \E h \in HealthCheck : check[h].at = "create" /\ check[h].takenAt >= lastFailure

CountsWithinFailures ==
    errorCount <= failures /\ \A h \in HealthCheck : check[h].count <= failures

HealthInv == HealthTypeOK /\ LastFailureBenches /\ CountsWithinFailures

LEMMA HealthInitial == HealthInit => HealthInv
<1> SUFFICES ASSUME HealthInit PROVE HealthInv
  OBVIOUS
<1>1. HealthTypeOK
  BY DEF HealthInit, HealthTypeOK, Checking, NoCheck
<1>2. LastFailureBenches /\ CountsWithinFailures
  BY DEF HealthInit, LastFailureBenches, CountsWithinFailures, NoCheck
<1> QED
  BY <1>1, <1>2 DEF HealthInv

LEMMA HealthStep == HealthInv /\ [HealthNext]_healthVars => HealthInv'
<1> SUFFICES ASSUME HealthInv, [HealthNext]_healthVars PROVE HealthInv'
  OBVIOUS
<1> USE HealthAssumption DEF HealthInv, HealthTypeOK
<1>1. ASSUME NEW h \in HealthCheck, HealthRead(h) PROVE HealthInv'
  <2>1. check[h].at = "idle" /\ UNCHANGED <<ticks, errorCount, benches, failures, lastFailure>>
    BY <1>1 DEF HealthRead
  <2>2. PICK b \in BOOLEAN : check' = [check EXCEPT ![h] =
             [at |-> "write", ok |-> b, takenAt |-> ticks, count |-> errorCount]]
    BY <1>1 DEF HealthRead
  <2>3. checks' \in Nat
    BY <1>1 DEF HealthRead
  <2>4. HealthTypeOK'
    BY <2>1, <2>2, <2>3 DEF Checking
  <2>5. LastFailureBenches'
    BY <2>1, <2>2 DEF LastFailureBenches
  <2>6. CountsWithinFailures'
    BY <2>1, <2>2 DEF CountsWithinFailures
  <2> QED
    BY <2>4, <2>5, <2>6
<1>2. ASSUME NEW h \in HealthCheck, HealthWrite(h) PROVE HealthInv'
  <2>1. check[h].at = "write" /\ UNCHANGED <<ticks, benches, checks, lastFailure>>
    BY <1>2 DEF HealthWrite
  <2>2. check' = [check EXCEPT ![h] = IF @.ok THEN NoCheck ELSE [@ EXCEPT !.at = "look"]]
    BY <1>2 DEF HealthWrite
  <2>3. /\ errorCount' = IF check[h].ok THEN 0 ELSE check[h].count + 1
        /\ failures' = IF check[h].ok THEN failures ELSE failures + 1
    BY <1>2 DEF HealthWrite, Count
  <2>4. check[h].count \in Nat /\ check[h].ok \in BOOLEAN
    BY DEF Checking
  <2>5. HealthTypeOK'
    <3>1. check' \in [HealthCheck -> Checking]
      BY <2>2 DEF Checking, NoCheck
    <3> QED
      BY <2>1, <2>3, <2>4, <3>1
  <2>6. LastFailureBenches'
    BY <2>1, <2>2 DEF LastFailureBenches, NoCheck
  <2>7. CountsWithinFailures'
    <3>1. \A i \in HealthCheck : check[i].count \in Nat
      BY DEF Checking
    <3>2. \A i \in HealthCheck : check'[i].count = check[i].count \/ check'[i].count = 0
      BY <2>2 DEF NoCheck, Checking
    <3> QED
      BY <2>3, <2>4, <3>1, <3>2 DEF CountsWithinFailures
  <2> QED
    BY <2>5, <2>6, <2>7
<1>3. ASSUME NEW h \in HealthCheck, HealthLook(h) PROVE HealthInv'
  <2>1. check[h].at = "look" /\ UNCHANGED <<ticks, errorCount, benches, checks, failures>>
    BY <1>3 DEF HealthLook
  <2>2. check' = [check EXCEPT ![h] = IF Existing(@.takenAt) # {} THEN NoCheck
                                      ELSE [@ EXCEPT !.at = "create"]]
    BY <1>3 DEF HealthLook
  <2>3. lastFailure' = IF check[h].takenAt > lastFailure THEN check[h].takenAt ELSE lastFailure
    BY <1>3 DEF HealthLook
  <2>4. check[h].takenAt \in Nat /\ check[h] \in Checking
    BY DEF Checking
  <2>5. HealthTypeOK'
    <3>1. check' \in [HealthCheck -> Checking]
      BY <2>2, <2>4 DEF Checking, NoCheck
    <3> QED
      BY <2>1, <2>3, <2>4, <3>1
  <2>6. LastFailureBenches'
    <3>1. CASE check[h].takenAt > lastFailure /\ Existing(check[h].takenAt) # {}
      BY <2>1, <2>3, <3>1 DEF LastFailureBenches, Existing
    <3>2. CASE check[h].takenAt > lastFailure /\ Existing(check[h].takenAt) = {}
      <4>1. check'[h].at = "create" /\ check'[h].takenAt = check[h].takenAt
        BY <2>2, <2>4, <3>2 DEF Checking
      <4> QED
        BY <2>3, <2>4, <3>2, <4>1 DEF LastFailureBenches
    <3>3. CASE ~(check[h].takenAt > lastFailure)
      <4>1. \A i \in HealthCheck : check[i].at = "create" => check'[i] = check[i]
        BY <2>1, <2>2
      <4> QED
        BY <2>1, <2>3, <3>3, <4>1 DEF LastFailureBenches
    <3> QED
      BY <3>1, <3>2, <3>3
  <2>7. CountsWithinFailures'
    <3>1. \A i \in HealthCheck : check'[i].count = check[i].count \/ check'[i].count = 0
      BY <2>2 DEF NoCheck, Checking
    <3> QED
      BY <2>1, <3>1 DEF CountsWithinFailures
  <2> QED
    BY <2>5, <2>6, <2>7
<1>4. ASSUME NEW h \in HealthCheck, HealthBench(h) PROVE HealthInv'
  <2>1. check[h].at = "create" /\ UNCHANGED <<ticks, errorCount, checks, failures, lastFailure>>
    BY <1>4 DEF HealthBench
  <2>2. check' = [check EXCEPT ![h] = NoCheck]
    BY <1>4 DEF HealthBench
  <2> DEFINE bench == [expiresAt |-> check[h].takenAt + FailureCooldown, resolved |-> FALSE]
  <2>3. benches' = benches \cup {bench}
    BY <1>4 DEF HealthBench
  <2>4. check[h].takenAt \in Nat
    BY DEF Checking
  <2>5. bench \in Bench /\ bench.expiresAt >= check[h].takenAt /\ ~bench.resolved
    BY <2>4 DEF Bench
  <2>6. HealthTypeOK'
    <3>1. check' \in [HealthCheck -> Checking]
      BY <2>2 DEF Checking, NoCheck
    <3> QED
      BY <2>1, <2>3, <2>5, <3>1
  <2>7. LastFailureBenches'
    <3>1. CASE check[h].takenAt >= lastFailure
      <4>1. bench.expiresAt >= lastFailure
        BY <2>4, <2>5, <3>1
      <4> QED
        BY <2>1, <2>3, <2>5, <4>1 DEF LastFailureBenches
    <3>2. CASE ~(check[h].takenAt >= lastFailure)
      <4>1. \A i \in HealthCheck : check[i].takenAt >= lastFailure => check'[i] = check[i]
        BY <2>2, <3>2
      <4> QED
        BY <2>1, <2>3, <4>1 DEF LastFailureBenches
    <3> QED
      BY <3>1, <3>2
  <2>8. CountsWithinFailures'
    BY <2>1, <2>2 DEF CountsWithinFailures, NoCheck
  <2> QED
    BY <2>6, <2>7, <2>8
<1>5. ASSUME NEW h \in HealthCheck, HealthFails(h) PROVE HealthInv'
  <2>1. /\ UNCHANGED <<ticks, errorCount, benches, checks, failures>>
        /\ check' = [check EXCEPT ![h] = NoCheck]
        /\ lastFailure' = IF check[h].at = "create" THEN 0 ELSE lastFailure
    BY <1>5 DEF HealthFails
  <2>2. HealthTypeOK'
    BY <2>1 DEF Checking, NoCheck
  <2>3. LastFailureBenches'
    BY <2>1 DEF LastFailureBenches
  <2>4. CountsWithinFailures'
    BY <2>1 DEF CountsWithinFailures, NoCheck
  <2> QED
    BY <2>2, <2>3, <2>4
<1>6. CASE Lift
  BY <1>6 DEF Lift, Bench, LastFailureBenches, CountsWithinFailures
<1>7. CASE HealthTick
  BY <1>7 DEF HealthTick, LastFailureBenches, CountsWithinFailures
<1>8. CASE UNCHANGED healthVars
  BY <1>8 DEF healthVars, LastFailureBenches, CountsWithinFailures
<1> QED
  BY <1>1, <1>2, <1>3, <1>4, <1>5, <1>6, <1>7, <1>8 DEF HealthNext

(* After a failing check the provider is on cooldown, or about to be, and  *)
(* its counter never exceeds the failing checks, with checks that overlap. *)
THEOREM HealthAlwaysInOrder == HealthSpec => []HealthInOrder
<1>1. HealthInv => HealthInOrder
  BY DEF HealthInv, HealthTypeOK, LastFailureBenches, CountsWithinFailures,
         HealthInOrder, FailureBenches, ErrorsWithinFailures
<1> QED
  BY <1>1, HealthInitial, HealthStep, PTL DEF HealthSpec

-----------------------------------------------------------------------------
(* The query cache of the console.  What has been promised is at the       *)
(* server, and a query in flight either will read it or has.               *)
CallsOfPage ==
    call \in [Call -> [deed : DeedsOf(page, view) \cup {"none"}, wrote : {NoQuery, Asked} \cup Nat]]

QueryInv ==
    /\ page \in Pages /\ view \in page.views /\ ViewOf[view].route \notin ServedFromMemory
    /\ version \in Nat /\ owed \in 0..version
    /\ query \in {NoQuery, Asked} \cup owed..version
    /\ data \in {NotCached} \cup 0..version
    /\ invalid \/ data = NotCached \/ data >= owed
    /\ CallsOfPage
    /\ \A c \in Call : /\ call[c].wrote \in {NoQuery, Asked} \cup 0..version
                       /\ call[c].wrote # NoQuery => call[c].deed \in DeedsOf(page, view)

LEMMA QueryInitInv == CacheInit => QueryInv
BY DEF CacheInit, Empty, QueryInv, CallsOfPage, NoCall, NoQuery, Asked, NotCached

LEMMA QueryStepInv == QueryInv /\ [CacheNext]_cacheVars => QueryInv'
<1> SUFFICES ASSUME QueryInv, [CacheNext]_cacheVars PROVE QueryInv'
  OBVIOUS
<1> USE DEF NoQuery, Asked, NotCached
<1>1. CASE UNCHANGED cacheVars
  BY <1>1 DEF cacheVars, QueryInv, CallsOfPage, DeedsOf
<1>2. ASSUME UNCHANGED <<page, view, version, data, invalid, call, owed>>,
             query' \in {query, NoQuery, Asked, version}
      PROVE  QueryInv'
  BY <1>2 DEF QueryInv, CallsOfPage, DeedsOf
<1>3. CASE Open \/ Leave \/ Age \/ Poll \/ QueryReads \/ ViewQueryFails
  BY <1>2, <1>3 DEF Open, Leave, Age, Poll, QueryReads, ViewQueryFails, Ask, KeepQuery
<1>4. CASE Collect \/ DataArrives \/ Others
  BY <1>4 DEF QueryInv, CallsOfPage, DeedsOf, Collect, DataArrives, Others, KeepQuery
<1>5. ASSUME NEW c \in Call, BeginDeed(c) \/ Write(c) \/ Fail(c) PROVE QueryInv'
  BY <1>5 DEF QueryInv, CallsOfPage, DeedsOf, BeginDeed, Write, Fail, KeepQuery, NoCall
<1>6. ASSUME NEW c \in Call, Succeed(c) PROVE QueryInv'
  <2>1. call' \in [Call -> [deed : DeedsOf(page, view) \cup {"none"},
                            wrote : {NoQuery, Asked} \cup Nat]]
        /\ \A o \in Call : call'[o] \in {call[o], NoCall}
    BY <1>6 DEF QueryInv, CallsOfPage, Succeed, NoCall
  <2>2. call[c].deed \in DeedsOf(page, view) /\ call[c].wrote \in 0..version
    BY <1>6 DEF QueryInv, CallsOfPage, Succeed
  <2>3. Invalidates(call[c].deed, view) \/ <<view, call[c].deed>> \in Overlooked
    BY <2>2, TablesAssumption DEF QueryInv
  <2> QED
    BY <1>6, <2>1, <2>2, <2>3 DEF QueryInv, CallsOfPage, DeedsOf, Succeed, Underway, AskAgain, Ask,
       KeepQuery, NoCall
<1> QED
  BY <1>1, <1>3, <1>4, <1>5, <1>6 DEF CacheNext

(* Once the success of a deed has had the view asked for again, or marked  *)
(* while nothing shows it, no query, failure, return to the page or success*)
(* of another deed has the page show, unmarked, what is older (TanStack    *)
(* Query under the hooks of admin-hooks.ts).  The exceptions are in Succeed*)
(* and in CacheInit: a success while a first query, or one no page waits   *)
(* for, is in flight; the deeds that invalidate nothing of the view; and   *)
(* the views the server answers from its memory.                           *)
THEOREM ShownAlwaysCurrent == CacheSpec => []ShownIsCurrent
<1>1. QueryInv => ShownIsCurrent
  BY DEF QueryInv, ShownIsCurrent
<1> QED
  BY <1>1, QueryInitInv, QueryStepInv, PTL DEF CacheSpec

-----------------------------------------------------------------------------
(* The conversations of the playground.  Whatever the visitor does: every  *)
(* list of turns is in order, as the page only appends the newest; a       *)
(* conversation that was only saved from screens of its own has the turns  *)
(* of the last of them; and a chat that is pending knows those of the      *)
(* conversation it will be saved in, unless the screen it was sent from    *)
(* was amiss.                                                              *)
SaidIn(id) == {t \in DOMAIN home : id \in home[t]}
KeptOf(id) == {t \in Nat : <<id, t>> \in kept}

Fits(s, may, must) == Range(s) \subseteq may /\ must \subseteq Range(s)
Turns(s, n) ==
    /\ \A x, y \in DOMAIN s : x < y => s[x] < s[y]
    /\ Range(s) \subseteq 1..n

Detail == [data : Seq(Nat), invalid : BOOLEAN, query : {"idle", "asked", "read"}, got : Seq(Nat)]
Place == Conversation \cup {NoConversation}
Chat == [at : {"idle", "asked", "saving", "saved"} \cup Conversation, active : Place,
         messages : Seq(Nat), began : Nat, amiss : BOOLEAN]

PlayTypes ==
    /\ stored \in [Conversation -> Seq(Nat)] /\ detail \in [Conversation -> Detail]
    /\ home \in Seq(SUBSET Conversation) /\ draft \in 1..(Len(home) + 1)
    /\ kept \subseteq Conversation \X Nat
    /\ activeId \in Place /\ screen \in Seq(Nat) /\ chat \in Chat /\ hurried \in Nat

TurnsInOrder ==
    /\ Turns(screen, Len(home)) /\ Turns(chat.messages, Len(home))
    /\ \A id \in Conversation : /\ Turns(stored[id], Len(home))
                                /\ Turns(detail[id].data, Len(home))
                                /\ Turns(detail[id].got, Len(home))

KeptAreBorn == \A id \in Conversation : KeptOf(id) # {} => id \in Born
StoredFit == \A id \in Conversation \ spoiled : IsStored(id) => Fits(stored[id], SaidIn(id), KeptOf(id))

SavedIn(id) == stored[id] \in {chat.messages, <<>>}
ChatKnows ==
    ChatPending =>
        /\ \E t \in Range(chat.messages) : t >= chat.began
        /\ chat.active \in Conversation => chat.active \in Born
        /\ ~chat.amiss => IF chat.active = NoConversation
                          THEN \A t \in Range(chat.messages) : t >= chat.began
                          ELSE Fits(chat.messages, SaidIn(chat.active), KeptOf(chat.active))
        /\ chat.at = "saved" => chat.active \in Conversation /\ SavedIn(chat.active)
        /\ chat.at \in Conversation =>
              chat.active = NoConversation /\ chat.at \in Born /\ SavedIn(chat.at)

PlayInv == PlayTypes /\ TurnsInOrder /\ KeptAreBorn /\ StoredFit /\ ChatKnows

LEMMA NobodyIsNone ==
    /\ NoConversation \notin Conversation
    /\ \A a \in Place : a # NoConversation => a \in Conversation
    /\ {"idle", "asked", "saving", "saved"} \cap Conversation = {}
BY PlaygroundAssumption DEF NoConversation, Place

LEMMA EmptyRange ==
    Range(<<>>) = {} /\ <<>> \in Seq(Nat) /\ \A n : Turns(<<>>, n)
BY DEF Range, Turns

LEMMA TurnsMore ==
    ASSUME NEW s, NEW n \in Nat, NEW m \in Nat, n <= m, Turns(s, n)
    PROVE  Turns(s, m)
BY DEF Turns

LEMMA FitsMore ==
    ASSUME NEW s, NEW may, NEW must, Fits(s, may, must), NEW may2, NEW must2, may \subseteq may2,
           must2 \subseteq must
    PROVE  Fits(s, may2, must2)
BY DEF Fits

LEMMA KeptPairs ==
    ASSUME PlayTypes, NEW id, NEW S
    PROVE  (\A p \in kept : p[1] = id => p[2] \in S) <=> KeptOf(id) \subseteq S
<1>1. ASSUME KeptOf(id) \subseteq S, NEW p \in kept, p[1] = id PROVE p[2] \in S
  <2>1. p = <<p[1], p[2]>> /\ p[2] \in Nat
    BY DEF PlayTypes
  <2> QED
    BY <1>1, <2>1 DEF KeptOf
<1>2. ASSUME \A p \in kept : p[1] = id => p[2] \in S, NEW t \in KeptOf(id) PROVE t \in S
  <2>1. <<id, t>> \in kept
    BY DEF KeptOf
  <2> QED
    BY <1>2, <2>1
<1> QED
  BY <1>1, <1>2

LEMMA NoChatTyped == NoChat \in Chat /\ Turns(NoChat.messages, 0) /\ NoChat.at = "idle"
BY EmptyRange DEF NoChat, Chat, Place

LEMMA NoDetailTyped ==
    /\ NoDetail \in Detail /\ NoDetail.data = <<>> /\ NoDetail.got = <<>> /\ NoDetail.query = "idle"
BY EmptyRange DEF NoDetail, Detail

(* Most steps move what there is, or drop it.                              *)
LEMMA NothingSaid ==
    ASSUME PlayInv, UNCHANGED <<home, kept, spoiled>>, chat' \in {chat, NoChat}, activeId' \in Place,
           draft' \in 1..(Len(home) + 1), hurried' \in Nat, screen' \in Seq(Nat),
           Turns(screen', Len(home)),
           stored' \in [Conversation -> Seq(Nat)],
           \A id \in Conversation : stored'[id] \in {stored[id], <<>>},
           detail' \in [Conversation -> Detail],
           \A id \in Conversation :
               /\ detail'[id].data \in {<<>>, detail[id].data, detail[id].got}
               /\ detail'[id].got \in {<<>>, detail[id].got, stored[id]}
    PROVE  PlayInv'
<1>1. PlayTypes'
  BY NoChatTyped DEF PlayInv, PlayTypes
<1>2. Len(home) \in Nat /\ chat' \in Chat /\ Turns(chat'.messages, Len(home))
  <2>1. NoChat \in Chat /\ Turns(NoChat.messages, Len(home))
    BY NoChatTyped, EmptyRange DEF NoChat
  <2> QED
    BY <2>1 DEF PlayInv, PlayTypes, TurnsInOrder
<1>3. TurnsInOrder'
  BY <1>2, EmptyRange DEF PlayInv, TurnsInOrder
<1>4. \A id : SaidIn(id)' = SaidIn(id) /\ KeptOf(id)' = KeptOf(id) /\ Born' = Born
  BY DEF SaidIn, KeptOf, Born
<1>5. KeptAreBorn' /\ StoredFit'
  BY <1>4 DEF PlayInv, KeptAreBorn, StoredFit, IsStored
<1>6. ChatKnows'
  <2>1. CASE chat' = NoChat
    BY <2>1, NoChatTyped DEF ChatKnows, ChatPending
  <2>2. CASE chat' = chat
    BY <1>4, <2>2 DEF PlayInv, PlayTypes, Chat, Place, ChatKnows, ChatPending, SavedIn
  <2> QED
    BY <2>1, <2>2
<1> QED
  BY <1>1, <1>3, <1>5, <1>6 DEF PlayInv

LEMMA AskedKept ==
    ASSUME NEW d \in Detail
    PROVE  /\ AskedAgain(d) \in Detail /\ AskedAgain(d).data = d.data
           /\ AskedAgain(d).invalid = d.invalid /\ AskedAgain(d).got = <<>>
           /\ AskedAgain(d).query = "asked"
           /\ Shown(d) \in Detail /\ Shown(d) \in {d, AskedAgain(d)}
BY EmptyRange DEF AskedAgain, Shown, Detail

LEMMA InvalidatedKept ==
    ASSUME PlayTypes
    PROVE  /\ DetailsInvalidated \in [Conversation -> Detail]
           /\ \A id \in Conversation :
                 /\ DetailsInvalidated[id].data = detail[id].data
                 /\ DetailsInvalidated[id].got \in {detail[id].got, <<>>}
                 /\ DetailsInvalidated[id].query \in {detail[id].query, "asked"}
                 /\ DetailsInvalidated[id].query = "read" =>
                       DetailsInvalidated[id].got = detail[id].got
                 /\ detail[id].data # <<>> => DetailsInvalidated[id].invalid
                 /\ id = activeId /\ detail[id].data # <<>> => DetailsInvalidated[id].got = <<>>
<1>1. ASSUME NEW id \in Conversation
      PROVE  /\ DetailsInvalidated[id] \in Detail
             /\ DetailsInvalidated[id].data = detail[id].data
             /\ DetailsInvalidated[id].got \in {detail[id].got, <<>>}
             /\ DetailsInvalidated[id].query \in {detail[id].query, "asked"}
             /\ DetailsInvalidated[id].query = "read" => DetailsInvalidated[id].got = detail[id].got
             /\ detail[id].data # <<>> => DetailsInvalidated[id].invalid
             /\ id = activeId /\ detail[id].data # <<>> => DetailsInvalidated[id].got = <<>>
  <2> DEFINE d == [detail[id] EXCEPT !.invalid = detail[id].data # <<>> \/ detail[id].query # "idle"]
  <2>1. /\ d \in Detail /\ d.data = detail[id].data /\ d.got = detail[id].got
        /\ d.query = detail[id].query /\ (detail[id].data # <<>> => d.invalid)
    BY DEF PlayTypes, Detail
  <2>2. DetailsInvalidated[id] = IF id = activeId /\ ~(d.data = <<>> /\ d.query # "idle")
                                 THEN AskedAgain(d) ELSE d
    BY DEF DetailsInvalidated
  <2> HIDE DEF d
  <2> QED
    BY <2>1, <2>2, AskedKept
<1>2. DetailsInvalidated = [id \in Conversation |-> DetailsInvalidated[id]]
  BY DEF DetailsInvalidated
<1> QED
  BY <1>1, <1>2

LEMMA DetailKept ==
    ASSUME PlayInv, NEW id \in Conversation, \/ ReadDetail(id) \/ ArriveDetail(id)
                                             \/ FailDetail(id) \/ Collected(id)
    PROVE  PlayInv'
<1>1. /\ UNCHANGED <<home, kept, spoiled, chat, activeId, draft, hurried, stored>>
      /\ screen' \in {screen, detail[id].got}
      /\ \E d \in Detail : /\ detail' = [detail EXCEPT ![id] = d]
                           /\ d.data \in {<<>>, detail[id].data, detail[id].got}
                           /\ d.got \in {<<>>, detail[id].got, stored[id]}
  <2>1. detail[id] \in Detail /\ stored[id] \in Seq(Nat) /\ <<>> \in Seq(Nat)
    BY EmptyRange DEF PlayInv, PlayTypes
  <2>2. CASE ReadDetail(id)
    <3>1. [detail[id] EXCEPT !.query = "read", !.got = stored[id]] \in Detail
      BY <2>1 DEF Detail
    <3> QED
      BY <2>1, <2>2, <3>1 DEF ReadDetail, Detail
  <2>3. CASE ArriveDetail(id)
    <3> DEFINE d == [NoDetail EXCEPT !.data = detail[id].got]
    <3>1. d \in Detail /\ d.data = detail[id].got /\ d.got = <<>>
      BY <2>1, NoDetailTyped DEF Detail
    <3>2. /\ detail' = [detail EXCEPT ![id] = d] /\ screen' \in {screen, detail[id].got}
          /\ UNCHANGED <<home, kept, spoiled, chat, activeId, draft, hurried, stored>>
      BY <2>3 DEF ArriveDetail
    <3> HIDE DEF d
    <3> QED
      BY <3>1, <3>2
  <2>4. CASE FailDetail(id)
    <3> DEFINE d == [detail[id] EXCEPT !.query = "idle", !.got = <<>>]
    <3>1. d \in Detail /\ d.data = detail[id].data /\ d.got = <<>>
      BY <2>1 DEF Detail
    <3>2. /\ detail' = [detail EXCEPT ![id] = d]
          /\ UNCHANGED <<home, kept, spoiled, chat, activeId, draft, hurried, stored, screen>>
      BY <2>4 DEF FailDetail
    <3> HIDE DEF d
    <3> QED
      BY <3>1, <3>2
  <2>5. CASE Collected(id)
    BY <2>5, NoDetailTyped DEF Collected
  <2> QED
    BY <2>2, <2>3, <2>4, <2>5
<1>2. detail' \in [Conversation -> Detail]
      /\ \A o \in Conversation : /\ detail'[o].data \in {<<>>, detail[o].data, detail[o].got}
                                 /\ detail'[o].got \in {<<>>, detail[o].got, stored[o]}
  BY <1>1 DEF PlayInv, PlayTypes
<1>3. screen' \in Seq(Nat) /\ Turns(screen', Len(home))
  <2>1. detail[id].got \in Seq(Nat) /\ screen \in Seq(Nat)
    BY DEF PlayInv, PlayTypes, Detail
  <2> QED
    BY <1>1, <2>1 DEF PlayInv, TurnsInOrder
<1> QED
  BY <1>1, <1>2, <1>3, NothingSaid DEF PlayInv, PlayTypes

LEMMA HurriesTyped ==
    ASSUME hurried \in Nat, NEW p \in BOOLEAN, Hurries(p)
    PROVE  hurried' \in Nat /\ (hurried' = 0 => hurried = 0 /\ ~p)
BY DEF Hurries

LEMMA GoneElsewhere ==
    ASSUME PlayInv, \/ \E id \in Conversation : SwitchToSession(id) \/ RemoveSession(id)
                    \/ NewConversation \/ RemovalDone \/ RemovalFails
    PROVE  PlayInv'
<1>1. Len(home) \in Nat /\ Len(home) + 1 \in 1..(Len(home) + 1) /\ hurried \in Nat
  BY DEF PlayInv, PlayTypes
<1>2. hurried' \in Nat
  BY <1>1, HurriesTyped DEF SwitchToSession, RemoveSession, NewConversation, RemovalDone, RemovalFails,
     ChatPending
<1>3. /\ UNCHANGED <<home, kept, spoiled, chat>> /\ activeId' \in Place /\ draft' \in 1..(Len(home) + 1)
      /\ \/ screen' \in {<<>>, screen}
         \/ \E id \in Conversation : screen' = detail[id].data
  BY <1>1, NobodyIsNone DEF SwitchToSession, RemoveSession, NewConversation, RemovalDone, RemovalFails,
     PlayInv, PlayTypes, Place
<1>4. screen' \in Seq(Nat) /\ Turns(screen', Len(home))
  BY <1>3, EmptyRange DEF PlayInv, PlayTypes, TurnsInOrder, Detail
<1>5. /\ stored' \in [Conversation -> Seq(Nat)]
      /\ \A id \in Conversation : stored'[id] \in {stored[id], <<>>}
  BY EmptyRange DEF SwitchToSession, RemoveSession, NewConversation, RemovalDone, RemovalFails,
     PlayInv, PlayTypes
<1>6. /\ detail' \in [Conversation -> Detail]
      /\ \A id \in Conversation : /\ detail'[id].data \in {<<>>, detail[id].data, detail[id].got}
                                  /\ detail'[id].got \in {<<>>, detail[id].got, stored[id]}
  <2>1. CASE detail' = detail
    BY <2>1 DEF PlayInv, PlayTypes
  <2>2. CASE detail' = DetailsInvalidated
    BY <2>2, InvalidatedKept DEF PlayInv
  <2>3. ASSUME NEW id \in Conversation, detail' = [detail EXCEPT ![id] = Shown(detail[id])]
        PROVE  /\ detail' \in [Conversation -> Detail]
               /\ \A o \in Conversation : /\ detail'[o].data \in {<<>>, detail[o].data, detail[o].got}
                                          /\ detail'[o].got \in {<<>>, detail[o].got, stored[o]}
    BY <2>3, AskedKept DEF PlayInv, PlayTypes
  <2> QED
    BY <2>1, <2>2, <2>3 DEF SwitchToSession, RemoveSession, NewConversation, RemovalDone, RemovalFails
<1> QED
  BY <1>2, <1>3, <1>4, <1>5, <1>6, NothingSaid

(* A turn is sent: it is the newest, and said in the active conversation.  *)
LEMMA SendGround ==
    ASSUME PlayInv, Send
    PROVE  LET n == Len(home) + 1 IN
           /\ Len(home) \in Nat /\ DOMAIN home = 1..Len(home)
           /\ home' \in Seq(SUBSET Conversation) /\ Len(home') = n /\ DOMAIN home' = 1..n
           /\ home'[n] = {activeId} \ {NoConversation} /\ \A t \in 1..Len(home) : home'[t] = home[t]
           /\ screen' \in Seq(Nat) /\ screen' # <<>> /\ Range(screen') = Range(screen) \cup {n}
           /\ Turns(screen', n)
           /\ \A id \in Conversation :
                 SaidIn(id)' = SaidIn(id) \cup (IF id = activeId THEN {n} ELSE {})
           /\ Born \subseteq Born' /\ (activeId # NoConversation => activeId \in Born')
<1> DEFINE n == Len(home) + 1
<1>1. /\ Len(home) \in Nat /\ DOMAIN home = 1..Len(home) /\ n \in Nat
      /\ home' = Append(home, {activeId} \ {NoConversation})
      /\ Len(home') = n /\ DOMAIN home' = 1..n /\ home'[n] = {activeId} \ {NoConversation}
      /\ \A t \in 1..Len(home) : home'[t] = home[t]
      /\ home' \in Seq(SUBSET Conversation)
  BY DEF PlayInv, PlayTypes, Place, Send
<1>2. /\ screen' = Append(screen, n) /\ screen' \in Seq(Nat) /\ DOMAIN screen = 1..Len(screen)
      /\ DOMAIN screen' = 1..(Len(screen) + 1) /\ screen'[Len(screen) + 1] = n
      /\ Len(screen) \in Nat /\ \A x \in 1..Len(screen) : screen'[x] = screen[x]
  BY <1>1 DEF PlayInv, PlayTypes, Send
<1>3. Range(screen') = Range(screen) \cup {n} /\ screen' # <<>>
  BY <1>2 DEF Range
<1>4. Turns(screen', n)
  <2>1. Turns(screen, Len(home))
    BY DEF PlayInv, TurnsInOrder
  <2>2. Range(screen') \subseteq 1..n
    BY <1>1, <1>3, <2>1 DEF Turns
  <2>3. ASSUME NEW x \in DOMAIN screen', NEW y \in DOMAIN screen', x < y
        PROVE  screen'[x] < screen'[y]
    <3>1. x \in 1..Len(screen) /\ screen'[x] = screen[x] /\ screen[x] \in 1..Len(home)
      BY <1>2, <2>1, <2>3 DEF Range, Turns
    <3>2. CASE y = Len(screen) + 1
      BY <1>1, <1>2, <3>1, <3>2
    <3>3. CASE y \in 1..Len(screen)
      BY <1>2, <2>1, <2>3, <3>1, <3>3 DEF Turns
    <3> QED
      BY <1>2, <2>3, <3>2, <3>3
  <2> QED
    BY <2>2, <2>3 DEF Turns
<1>5. \A id \in Conversation :
         SaidIn(id)' = SaidIn(id) \cup (IF id = activeId THEN {n} ELSE {})
  BY <1>1, NobodyIsNone DEF SaidIn
<1>6. Born \subseteq Born' /\ (activeId # NoConversation => activeId \in Born')
  <2>1. \A t \in 1..Len(home) : home[t] \in Range(home')
    BY <1>1 DEF Range
  <2>2. home'[n] \in Range(home')
    BY <1>1 DEF Range
  <2> QED
    BY <1>1, <2>1, <2>2 DEF Born, Range
<1> HIDE DEF n
<1> QED
  BY <1>1, <1>2, <1>3, <1>4, <1>5, <1>6 DEF n

LEMMA SendKept == ASSUME PlayInv, Send PROVE PlayInv'
<1> DEFINE n == Len(home) + 1
<1>1. /\ Len(home) \in Nat /\ n \in Nat /\ Len(home) <= n /\ DOMAIN home = 1..Len(home)
      /\ home' \in Seq(SUBSET Conversation) /\ Len(home') = n
      /\ screen' \in Seq(Nat) /\ Range(screen') = Range(screen) \cup {n} /\ Turns(screen', n)
      /\ Born \subseteq Born' /\ (activeId # NoConversation => activeId \in Born')
  BY SendGround
<1>2. \A id \in Conversation :
         /\ SaidIn(id)' = SaidIn(id) \cup (IF id = activeId THEN {n} ELSE {})
         /\ KeptOf(id)' = KeptOf(id)
  BY SendGround DEF KeptOf, Send
<1>3. /\ chat' = [at |-> "asked", active |-> activeId, messages |-> screen', began |-> draft,
                  amiss |-> Foreign \/ Short]
      /\ UNCHANGED <<stored, detail, activeId, removing, draft, kept, spoiled>>
  BY DEF Send
<1>4. PlayTypes'
  <2>1. hurried' \in Nat
    BY HurriesTyped DEF PlayInv, PlayTypes, Send
  <2>2. chat' \in Chat
    BY <1>1, <1>3 DEF PlayInv, PlayTypes, Chat, Foreign, Short
  <2>3. draft' \in 1..(Len(home') + 1)
    BY <1>1, <1>3 DEF PlayInv, PlayTypes
  <2> QED
    BY <1>1, <1>3, <2>1, <2>2, <2>3 DEF PlayInv, PlayTypes
<1>5. TurnsInOrder'
  <2>1. \A s : Turns(s, Len(home)) => Turns(s, n)
    BY <1>1, TurnsMore
  <2>2. chat'.messages = screen'
    BY <1>3
  <2> HIDE DEF n
  <2> QED
    BY <1>1, <1>3, <2>1, <2>2 DEF PlayInv, TurnsInOrder
<1>6. KeptAreBorn' /\ StoredFit'
  <2> HIDE DEF n
  <2>1. StoredFit'
    BY <1>2, <1>3 DEF PlayInv, StoredFit, IsStored, Fits
  <2> QED
    BY <1>1, <1>2, <2>1 DEF PlayInv, KeptAreBorn
<1>7. ChatKnows'
  <2>1. /\ chat'.at = "asked" /\ chat'.active = activeId /\ chat'.messages = screen'
        /\ chat'.began = draft /\ chat'.amiss = (Foreign \/ Short)
    BY <1>3
  <2>2. n \in Range(screen') /\ n >= draft /\ draft \in Nat /\ activeId \in Place
    BY <1>1 DEF PlayInv, PlayTypes
  <2>3. \A t \in Range(screen) : t \in 1..Len(home)
    BY DEF PlayInv, TurnsInOrder, Turns
  <2>4. ASSUME ~Foreign, activeId = NoConversation PROVE \A t \in Range(screen') : t >= draft
    BY <1>1, <2>2, <2>3, <2>4 DEF Foreign
  <2>5. ASSUME ~Foreign, ~Short, activeId # NoConversation
        PROVE  Fits(screen', SaidIn(activeId)', KeptOf(activeId)')
    <3>1. Range(screen) \subseteq SaidIn(activeId)
      BY <1>1, <2>3, <2>5 DEF Foreign, SaidIn
    <3>2. KeptOf(activeId) \subseteq Range(screen)
      BY <2>5, KeptPairs DEF PlayInv, Short
    <3>3. activeId \in Conversation
      BY <2>2, <2>5, NobodyIsNone
    <3>4. SaidIn(activeId)' = SaidIn(activeId) \cup {n} /\ KeptOf(activeId)' = KeptOf(activeId)
      <4>1. activeId' = activeId
        BY <1>3
      <4> QED
        BY <1>2, <3>3, <4>1
    <3> QED
      BY <1>1, <3>1, <3>2, <3>4 DEF Fits
  <2> HIDE DEF n
  <2>6. (~chat.amiss => IF chat.active = NoConversation
                        THEN \A t \in Range(chat.messages) : t >= chat.began
                        ELSE Fits(chat.messages, SaidIn(chat.active), KeptOf(chat.active)))'
    <3>1. chat'.active = activeId'
      BY <1>3, <2>1
    <3>2. SaidIn(chat.active)' = SaidIn(activeId)' /\ KeptOf(chat.active)' = KeptOf(activeId)'
      BY <3>1
    <3> QED
      BY <2>1, <2>4, <2>5, <3>2
  <2>7. chat'.at # "saved" /\ chat'.at \notin Conversation
    BY <2>1, NobodyIsNone
  <2>9. \E t \in Range(chat'.messages) : t >= chat'.began
    BY <2>1, <2>2
  <2>8. chat'.active \in Conversation => chat'.active \in Born'
    BY <1>1, <2>1, NobodyIsNone
  <2> QED
    BY <2>6, <2>7, <2>8, <2>9 DEF ChatKnows
<1> QED
  BY <1>4, <1>5, <1>6, <1>7 DEF PlayInv

LEMMA SameGround ==
    ASSUME UNCHANGED <<home, kept>>
    PROVE  \A id : SaidIn(id)' = SaidIn(id) /\ KeptOf(id)' = KeptOf(id) /\ Born' = Born
BY DEF SaidIn, KeptOf, Born

LEMMA AnswerKept == ASSUME PlayInv, AnswerChat PROVE PlayInv'
<1>1. /\ ChatPending /\ chat'.at = "saving" /\ chat'.active = chat.active /\ chat' \in Chat
      /\ chat'.messages = chat.messages /\ screen' = chat.messages
      /\ chat'.amiss = chat.amiss /\ chat'.began = chat.began
      /\ UNCHANGED <<stored, detail, activeId, home, draft, kept, hurried, spoiled>>
  BY DEF PlayInv, PlayTypes, Chat, AnswerChat, ChatPending
<1>2. \A id : SaidIn(id)' = SaidIn(id) /\ KeptOf(id)' = KeptOf(id) /\ Born' = Born
  BY <1>1, SameGround
<1>3. PlayTypes' /\ TurnsInOrder'
  BY <1>1 DEF PlayInv, PlayTypes, Chat, TurnsInOrder
<1>4. KeptAreBorn' /\ StoredFit'
  BY <1>1, <1>2 DEF PlayInv, KeptAreBorn, StoredFit, IsStored
<1>5. ChatKnows'
  <2>1. chat'.at # "saved" /\ chat'.at \notin Conversation
    BY <1>1, NobodyIsNone
  <2> QED
    BY <1>1, <1>2, <2>1 DEF PlayInv, ChatKnows
<1> QED
  BY <1>3, <1>4, <1>5 DEF PlayInv

LEMMA SaveTurnsKept == ASSUME PlayInv, SaveTurns PROVE PlayInv'
<1>1. /\ ChatPending /\ chat'.at = "saved" /\ chat'.active = chat.active /\ chat' \in Chat
      /\ chat'.messages = chat.messages /\ chat.messages \in Seq(Nat)
      /\ chat'.amiss = chat.amiss /\ chat'.began = chat.began
      /\ spoiled' = SpoiledBySaving(chat.active)
      /\ UNCHANGED <<detail, screen, activeId, home, draft, kept, hurried>>
  BY DEF PlayInv, PlayTypes, Chat, SaveTurns, ChatPending
<1>2. \A id : SaidIn(id)' = SaidIn(id) /\ KeptOf(id)' = KeptOf(id) /\ Born' = Born
  BY <1>1, SameGround
<1>3. /\ chat.active \in Conversation /\ chat.active # NoConversation
      /\ ~chat.amiss => Fits(chat.messages, SaidIn(chat.active), KeptOf(chat.active))
  BY <1>1, NobodyIsNone DEF PlayInv, PlayTypes, Chat, ChatKnows, SaveTurns
<1>4. /\ stored' \in [Conversation -> Seq(Nat)] /\ stored'[chat.active] = chat.messages
      /\ \A id \in Conversation : id # chat.active => stored'[id] = stored[id]
  BY <1>1, <1>3 DEF PlayInv, PlayTypes, SaveTurns
<1>5. PlayTypes' /\ TurnsInOrder'
  BY <1>1, <1>4 DEF PlayInv, PlayTypes, TurnsInOrder
<1>6. KeptAreBorn' /\ StoredFit'
  BY <1>1, <1>2, <1>3, <1>4 DEF PlayInv, KeptAreBorn, StoredFit, IsStored, SpoiledBySaving
<1>7. ChatKnows'
  <2>1. chat'.at \notin Conversation /\ SavedIn(chat.active)'
    BY <1>1, <1>4, NobodyIsNone DEF SavedIn
  <2> QED
    BY <1>1, <1>2, <1>3, <2>1 DEF PlayInv, ChatKnows
<1> QED
  BY <1>5, <1>6, <1>7 DEF PlayInv

(* A conversation is created of what was said since nothing is active; it  *)
(* is a new one, of which the page was told nothing.                       *)
LEMMA CreateGround ==
    ASSUME PlayInv, NEW id \in Conversation, Create(id)
    PROVE  /\ home' \in Seq(SUBSET Conversation) /\ Len(home') = Len(home)
           /\ KeptOf(id) = {} /\ SaidIn(id) = {} /\ KeptOf(id)' = {}
           /\ SaidIn(id)' = {t \in Range(chat.messages) : t >= chat.began}
           /\ \A o \in Conversation : SaidIn(o) \subseteq SaidIn(o)' /\ KeptOf(o)' = KeptOf(o)
           /\ \A o \in Conversation \ {id} : SaidIn(o)' = SaidIn(o)
           /\ id \in Born' /\ Born \subseteq Born'
<1> DEFINE f(t) == IF t >= chat.began /\ t \in Range(chat.messages) THEN home[t] \cup {id} ELSE home[t]
<1>1. /\ Len(home) \in Nat /\ DOMAIN home = 1..Len(home)
      /\ \A t \in 1..Len(home) : home[t] \in SUBSET Conversation
      /\ id \notin Born /\ Range(chat.messages) \subseteq 1..Len(home)
  BY DEF PlayInv, PlayTypes, TurnsInOrder, Turns, Create
<1>2. home' = [t \in 1..Len(home) |-> f(t)]
  BY <1>1 DEF Create
<1>3. \A t \in 1..Len(home) : f(t) \in SUBSET Conversation
  BY <1>1
<1>4. home' \in Seq(SUBSET Conversation) /\ Len(home') = Len(home) /\ DOMAIN home' = 1..Len(home)
      /\ \A t \in 1..Len(home) : home'[t] = f(t)
  <2> HIDE DEF f
  <2> QED
    BY <1>1, <1>2, <1>3
<1>5. \A t \in 1..Len(home) : id \notin home[t]
  BY <1>1 DEF Born, Range
<1>6. KeptOf(id) = {} /\ SaidIn(id) = {}
  BY <1>1, <1>5 DEF PlayInv, KeptAreBorn, SaidIn
<1>7. \A o : KeptOf(o)' = KeptOf(o)
  BY DEF KeptOf, Create
<1>8. SaidIn(id)' = {t \in Range(chat.messages) : t >= chat.began}
  BY <1>1, <1>4, <1>5 DEF SaidIn
<1>9. \A o \in Conversation : SaidIn(o) \subseteq SaidIn(o)' /\ (o # id => SaidIn(o)' = SaidIn(o))
  BY <1>1, <1>4 DEF SaidIn
<1>10. PICK t \in Range(chat.messages) : t >= chat.began
  BY DEF PlayInv, ChatKnows, ChatPending, Create
<1>11. id \in Born' /\ Born \subseteq Born'
  <2>1. t \in DOMAIN home' /\ id \in home'[t]
    BY <1>1, <1>4, <1>10
  <2>2. ASSUME NEW s \in DOMAIN home PROVE home[s] \subseteq home'[s] /\ s \in DOMAIN home'
    BY <1>1, <1>4
  <2> HIDE DEF f
  <2> QED
    BY <2>1, <2>2 DEF Born, Range
<1> QED
  BY <1>4, <1>6, <1>7, <1>8, <1>9, <1>11

LEMMA CreateKept == ASSUME PlayInv, NEW id \in Conversation, Create(id) PROVE PlayInv'
<1>1. /\ ChatPending /\ chat'.at = id /\ chat'.active = NoConversation /\ chat' \in Chat
      /\ chat.active = NoConversation
      /\ chat'.messages = chat.messages /\ chat.messages \in Seq(Nat)
      /\ chat'.amiss = chat.amiss /\ chat'.began = chat.began
      /\ spoiled' = SpoiledBySaving(id)
      /\ UNCHANGED <<detail, screen, activeId, draft, kept, hurried>>
  BY DEF PlayInv, PlayTypes, Chat, Create, ChatPending
<1>2. /\ home' \in Seq(SUBSET Conversation) /\ Len(home') = Len(home)
      /\ KeptOf(id)' = {} /\ SaidIn(id)' = {t \in Range(chat.messages) : t >= chat.began}
      /\ \A o \in Conversation : SaidIn(o) \subseteq SaidIn(o)' /\ KeptOf(o)' = KeptOf(o)
      /\ id \in Born' /\ Born \subseteq Born'
  BY CreateGround
<1>3. /\ stored' \in [Conversation -> Seq(Nat)] /\ stored'[id] = chat.messages
      /\ \A o \in Conversation : o # id => stored'[o] = stored[o]
  BY <1>1 DEF PlayInv, PlayTypes, Create
<1>4. PlayTypes' /\ TurnsInOrder'
  BY <1>1, <1>2, <1>3 DEF PlayInv, PlayTypes, TurnsInOrder
<1>5. ~chat.amiss => Fits(chat.messages, SaidIn(id)', KeptOf(id)')
  BY <1>1, <1>2 DEF PlayInv, ChatKnows, Fits
<1>6. KeptAreBorn' /\ StoredFit'
  <2>1. ASSUME NEW o \in Conversation, o # id, o \notin spoiled, stored[o] # <<>>
        PROVE  Fits(stored[o], SaidIn(o)', KeptOf(o)')
    BY <1>2, <2>1, FitsMore DEF PlayInv, StoredFit, IsStored
  <2>2. StoredFit'
    BY <1>1, <1>3, <1>5, <2>1 DEF StoredFit, IsStored, SpoiledBySaving
  <2> QED
    BY <1>2, <2>2 DEF PlayInv, KeptAreBorn
<1>7. ChatKnows'
  <2>1. SavedIn(id)' /\ id # "saved"
    BY <1>3, <1>1, NobodyIsNone DEF SavedIn
  <2>2. \E t \in Range(chat.messages) : t >= chat.began
    BY <1>1 DEF PlayInv, ChatKnows
  <2>3. ~chat.amiss => \A t \in Range(chat.messages) : t >= chat.began
    BY <1>1 DEF PlayInv, ChatKnows
  <2> QED
    BY <1>1, <1>2, <2>1, <2>2, <2>3, NobodyIsNone DEF ChatKnows
<1> QED
  BY <1>4, <1>6, <1>7 DEF PlayInv

(* The page is told what the server has.                                   *)
LEMMA ToldOf ==
    ASSUME PlayTypes, NEW id \in Conversation, SaysSaved(id)
    PROVE  /\ kept' \subseteq Conversation \X Nat
           /\ KeptOf(id)' = KeptOf(id) \cup Range(chat.messages)
           /\ \A o \in Conversation : o # id => KeptOf(o)' = KeptOf(o)
<1>1. Range(chat.messages) \subseteq Nat
  BY DEF PlayTypes, Chat, Range
<1> QED
  BY <1>1 DEF PlayTypes, SaysSaved, KeptOf

LEMMA ToldKept ==
    ASSUME PlayInv, Saved \/ \E id \in Conversation : Created(id) PROVE PlayInv'
<1>1. PICK id \in Conversation : /\ SaysSaved(id) /\ SavedIn(id) /\ id \in Born
                                 /\ activeId' \in Place
                                 /\ detail' \in {DetailsInvalidated,
                                                 [DetailsInvalidated EXCEPT ![id] = Shown(@)]}
                                 /\ screen' \in {screen, detail[id].data}
  <2>1. CASE Saved
    <3>1. chat.active \in Conversation /\ SavedIn(chat.active) /\ chat.active \in Born
      BY <2>1 DEF PlayInv, ChatKnows, ChatPending, Saved
    <3> QED
      BY <2>1, <3>1 DEF PlayInv, PlayTypes, Saved
  <2>2. ASSUME NEW id \in Conversation, Created(id)
        PROVE  /\ SaysSaved(id) /\ SavedIn(id) /\ id \in Born /\ activeId' \in Place
               /\ detail' \in {DetailsInvalidated, [DetailsInvalidated EXCEPT ![id] = Shown(@)]}
               /\ screen' \in {screen, detail[id].data}
    BY <2>2, NobodyIsNone DEF PlayInv, ChatKnows, ChatPending, Created, Place
  <2> QED
    BY <2>1, <2>2
<1>2. /\ chat' = NoChat /\ UNCHANGED <<stored, home, draft, hurried, spoiled>>
  BY DEF Saved, Created
<1>3. /\ kept' \subseteq Conversation \X Nat
      /\ KeptOf(id)' = KeptOf(id) \cup Range(chat.messages)
      /\ \A o \in Conversation : o # id => KeptOf(o)' = KeptOf(o)
  BY <1>1, ToldOf DEF PlayInv
<1>4. \A o : SaidIn(o)' = SaidIn(o) /\ Born' = Born
  BY <1>2 DEF SaidIn, Born
<1>5. /\ detail' \in [Conversation -> Detail]
      /\ \A o \in Conversation : detail'[o].data = detail[o].data /\ detail'[o].got \in {detail[o].got, <<>>}
  BY <1>1, InvalidatedKept, AskedKept DEF PlayInv
<1>6. PlayTypes'
  <2>1. screen' \in Seq(Nat)
    BY <1>1 DEF PlayInv, PlayTypes, Detail
  <2> QED
    BY <1>1, <1>2, <1>3, <1>5, <2>1, NoChatTyped DEF PlayInv, PlayTypes
<1>7. TurnsInOrder'
  <2>1. Turns(chat'.messages, Len(home)) /\ Turns(screen', Len(home))
    BY <1>1, <1>2, EmptyRange DEF NoChat, PlayInv, TurnsInOrder
  <2> QED
    BY <1>2, <1>5, <2>1, EmptyRange DEF PlayInv, TurnsInOrder
<1>8. KeptAreBorn'
  BY <1>1, <1>3, <1>4 DEF PlayInv, KeptAreBorn
<1>9. StoredFit'
  <2> SUFFICES ASSUME NEW o \in Conversation, o \notin spoiled, stored[o] # <<>>
               PROVE  Fits(stored[o], SaidIn(o), KeptOf(o)')
    BY <1>2, <1>4 DEF StoredFit, IsStored
  <2>1. Fits(stored[o], SaidIn(o), KeptOf(o))
    BY DEF PlayInv, StoredFit, IsStored
  <2>2. CASE o = id
    BY <1>1, <1>3, <2>1, <2>2 DEF Fits, SavedIn
  <2>3. CASE o # id
    BY <1>3, <2>1, <2>3
  <2> QED
    BY <2>2, <2>3
<1>10. ChatKnows'
  BY <1>2, NoChatTyped DEF ChatKnows, ChatPending
<1> QED
  BY <1>6, <1>7, <1>8, <1>9, <1>10 DEF PlayInv

LEMMA SaveFailsKept == ASSUME PlayInv, SaveFails PROVE PlayInv'
BY NothingSaid DEF PlayInv, PlayTypes, TurnsInOrder, SaveFails

LEMMA PlayStepInv == ASSUME PlayInv, [PlaygroundNext]_playVars PROVE PlayInv'
<1>1. CASE UNCHANGED playVars
  BY <1>1, NothingSaid DEF playVars, PlayInv, PlayTypes, TurnsInOrder
<1>2. CASE \/ NewConversation \/ RemovalDone \/ RemovalFails
           \/ Send \/ AnswerChat \/ SaveTurns \/ Saved \/ SaveFails
  BY <1>2, GoneElsewhere, SendKept, AnswerKept, SaveTurnsKept, ToldKept, SaveFailsKept
<1>3. ASSUME NEW id \in Conversation,
             \/ ReadDetail(id) \/ ArriveDetail(id) \/ FailDetail(id) \/ Collected(id)
             \/ SwitchToSession(id) \/ RemoveSession(id) \/ Create(id) \/ Created(id)
      PROVE  PlayInv'
  BY <1>3, DetailKept, GoneElsewhere, CreateKept, ToldKept
<1> QED
  BY <1>1, <1>2, <1>3 DEF PlaygroundNext

LEMMA PlayInitInv == PlaygroundInit => PlayInv
<1> SUFFICES ASSUME PlaygroundInit PROVE PlayInv
  OBVIOUS
<1>1. home = <<>> /\ home \in Seq(SUBSET Conversation) /\ Len(home) = 0
  BY DEF PlaygroundInit
<1>2. PlayTypes
  BY <1>1, EmptyRange, NoDetailTyped, NoChatTyped DEF PlaygroundInit, PlayTypes, Place
<1>3. TurnsInOrder
  BY <1>1, EmptyRange, NoDetailTyped, NoChatTyped DEF PlaygroundInit, TurnsInOrder
<1>4. KeptAreBorn /\ StoredFit /\ ChatKnows
  BY NoChatTyped DEF PlaygroundInit, KeptAreBorn, KeptOf, StoredFit, IsStored, ChatKnows, ChatPending
<1> QED
  BY <1>2, <1>3, <1>4 DEF PlayInv

(* One who waits for what is under way never has a screen that is amiss.   *)
(* What the cache has of a conversation may miss what was saved since only *)
(* if it is marked, and what a query has read misses nothing; the screen   *)
(* has what the cache has of the active conversation, or what was saved in *)
(* it; and a chat that is pending is one of the active conversation.       *)
MustHave(id) == KeptOf(id) \cup (IF chat.at = id THEN Range(chat.messages) ELSE {})

DetailFits(d, may, must) ==
    /\ d.data # <<>> => Range(d.data) \subseteq may /\ (d.invalid \/ must \subseteq Range(d.data))
    /\ d.got # <<>> => Fits(d.got, may, must)
    /\ d.query = "read" => d.got # <<>>

DetailsFit == \A id \in Conversation : DetailFits(detail[id], SaidIn(id), MustHave(id))
DraftShown == activeId = NoConversation => \A t \in Range(screen) : t >= draft
ActiveShown ==
    activeId # NoConversation =>
        IF ChatPending
        THEN detail[activeId].data # <<>> /\ screen \in {detail[activeId].data, chat.messages}
        ELSE \/ detail[activeId].data = <<>> \/ screen = detail[activeId].data
             \/ Fits(screen, SaidIn(activeId), KeptOf(activeId))
ChatFits ==
    ChatPending => /\ chat.active = activeId /\ removing = NoRemoval /\ ~chat.amiss
                   /\ activeId = NoConversation => chat.began = draft

Settled == spoiled = {} /\ DetailsFit /\ DraftShown /\ ActiveShown /\ ChatFits

LEMMA DetailFitsMore ==
    ASSUME NEW d, NEW may, NEW must, DetailFits(d, may, must),
           NEW may2, NEW must2, may \subseteq may2, must2 \subseteq must
    PROVE  DetailFits(d, may2, must2)
BY DEF DetailFits, Fits

LEMMA StoredHasAll ==
    ASSUME PlayInv, spoiled = {}, NEW id \in Conversation, stored[id] # <<>>
    PROVE  Fits(stored[id], SaidIn(id), MustHave(id))
<1>1. Fits(stored[id], SaidIn(id), KeptOf(id))
  BY DEF PlayInv, StoredFit, IsStored
<1>2. chat.at = id => stored[id] = chat.messages
  BY NobodyIsNone DEF PlayInv, ChatKnows, ChatPending, SavedIn
<1> QED
  BY <1>1, <1>2 DEF Fits, MustHave

(* What a step leaves of the ground that everything stands on.             *)
GroundStays ==
    \A id \in Conversation : SaidIn(id) \subseteq SaidIn(id)' /\ MustHave(id)' \subseteq MustHave(id)

LEMMA GroundKept ==
    ASSUME UNCHANGED <<home, kept>>, chat' = chat \/ chat'.at \notin Conversation
    PROVE  GroundStays
BY DEF GroundStays, SaidIn, MustHave, KeptOf

LEMMA DetailsStay ==
    ASSUME GroundStays,
           \A id \in Conversation : DetailFits(detail'[id], SaidIn(id), MustHave(id))
    PROVE  DetailsFit'
<1> SUFFICES ASSUME NEW id \in Conversation PROVE DetailFits(detail'[id], SaidIn(id)', MustHave(id)')
  BY DEF DetailsFit
<1> QED
  BY DetailFitsMore DEF GroundStays

LEMMA AskedFits ==
    ASSUME NEW d \in Detail, NEW may, NEW must, DetailFits(d, may, must)
    PROVE  DetailFits(AskedAgain(d), may, must) /\ DetailFits(Shown(d), may, must)
<1>1. DetailFits(AskedAgain(d), may, must)
  BY AskedKept DEF DetailFits
<1> QED
  BY <1>1, AskedKept

LEMMA InvalidatedFits ==
    ASSUME PlayTypes, DetailsFit, NEW id \in Conversation
    PROVE  DetailFits(DetailsInvalidated[id], SaidIn(id), MustHave(id))
BY InvalidatedKept DEF DetailsFit, DetailFits

(* A query of the cache: one conversation has another entry.               *)
LEMMA DetailStep ==
    ASSUME PlayInv, Settled, UNCHANGED <<stored, activeId, chat, removing, home, draft, kept, spoiled>>,
           NEW id \in Conversation, NEW d \in Detail, detail' = [detail EXCEPT ![id] = d],
           DetailFits(d, SaidIn(id), MustHave(id)),
           \/ screen' = screen /\ (id = activeId => d.data = detail[id].data)
           \/ screen' = d.data /\ id = activeId /\ d.data # <<>>
    PROVE  Settled'
<1>1. GroundStays
  BY GroundKept
<1>2. /\ \A o \in Conversation : o # id => detail'[o] = detail[o]
      /\ detail'[id] = d /\ activeId \in Place
  BY DEF PlayInv, PlayTypes
<1>3. DetailsFit'
  <2>1. \A o \in Conversation : DetailFits(detail'[o], SaidIn(o), MustHave(o))
    BY <1>2 DEF Settled, DetailsFit
  <2> QED
    BY <1>1, <2>1, DetailsStay
<1>4. DraftShown' /\ ChatFits'
  BY NobodyIsNone DEF Settled, DraftShown, ChatFits, ChatPending
<1>5. ActiveShown'
  <2>1. SaidIn(activeId)' = SaidIn(activeId) /\ KeptOf(activeId)' = KeptOf(activeId)
    BY DEF SaidIn, KeptOf
  <2> QED
    BY <1>2, <2>1, NobodyIsNone DEF Settled, ActiveShown, ChatPending
<1> QED
  BY <1>3, <1>4, <1>5 DEF Settled

LEMMA DetailSettled ==
    ASSUME PlayInv, Settled, NEW id \in Conversation, \/ ReadDetail(id) \/ ArriveDetail(id)
                                                      \/ FailDetail(id) \/ Collected(id)
    PROVE  Settled'
<1>1. detail[id] \in Detail /\ DetailFits(detail[id], SaidIn(id), MustHave(id)) /\ stored[id] \in Seq(Nat)
  BY DEF PlayInv, PlayTypes, Settled, DetailsFit
<1>2. CASE ReadDetail(id)
  <2> DEFINE d == [detail[id] EXCEPT !.query = "read", !.got = stored[id]]
  <2>1. /\ d \in Detail /\ d.data = detail[id].data /\ d.invalid = detail[id].invalid
        /\ d.got = stored[id] /\ stored[id] # <<>> /\ detail' = [detail EXCEPT ![id] = d]
    BY <1>1, <1>2 DEF Detail, ReadDetail, IsStored
  <2> HIDE DEF d
  <2>2. DetailFits(d, SaidIn(id), MustHave(id))
    BY <1>1, <2>1, StoredHasAll DEF Settled, DetailFits
  <2> QED
    BY <1>2, <2>1, <2>2, DetailStep DEF ReadDetail
<1>3. CASE ArriveDetail(id)
  <2> DEFINE d == [NoDetail EXCEPT !.data = detail[id].got]
  <2>1. detail[id].got # <<>> /\ detail[id].got \in Seq(Nat)
    BY <1>1, <1>3 DEF ArriveDetail, DetailFits, Detail
  <2>2. /\ d \in Detail /\ d.data = detail[id].got /\ d.got = <<>> /\ d.query = "idle"
        /\ detail' = [detail EXCEPT ![id] = d]
    BY <1>3, <2>1, NoDetailTyped DEF Detail, ArriveDetail
  <2> HIDE DEF d
  <2>3. DetailFits(d, SaidIn(id), MustHave(id))
    BY <1>1, <2>1, <2>2 DEF DetailFits, Fits
  <2> QED
    BY <1>3, <2>1, <2>2, <2>3, DetailStep DEF ArriveDetail
<1>4. CASE FailDetail(id)
  <2> DEFINE d == [detail[id] EXCEPT !.query = "idle", !.got = <<>>]
  <2>1. /\ d \in Detail /\ d.data = detail[id].data /\ d.invalid = detail[id].invalid
        /\ d.got = <<>> /\ d.query = "idle" /\ detail' = [detail EXCEPT ![id] = d]
    BY <1>1, <1>4, EmptyRange DEF Detail, FailDetail
  <2> HIDE DEF d
  <2>2. DetailFits(d, SaidIn(id), MustHave(id))
    BY <1>1, <2>1 DEF DetailFits
  <2> QED
    BY <1>4, <2>1, <2>2, DetailStep DEF FailDetail
<1>5. CASE Collected(id)
  <2>1. DetailFits(NoDetail, SaidIn(id), MustHave(id))
    BY NoDetailTyped DEF DetailFits
  <2> QED
    BY <1>5, <2>1, NoDetailTyped, DetailStep DEF Collected
<1> QED
  BY <1>2, <1>3, <1>4, <1>5

(* The visitor goes elsewhere, or removes a conversation, with no chat     *)
(* pending.                                                                *)
LEMMA ElsewhereSettled ==
    ASSUME PlayInv, Settled, ~ChatPending, UNCHANGED <<chat, home, kept, spoiled>>,
           \A id \in Conversation : DetailFits(detail'[id], SaidIn(id), MustHave(id)),
           \/ activeId' = NoConversation /\ screen' = <<>>
           \/ activeId' # NoConversation /\ detail'[activeId'].data \in {<<>>, screen'}
           \/ /\ UNCHANGED <<activeId, screen, draft>>
              /\ \A id \in Conversation : detail'[id].data = detail[id].data
    PROVE  Settled'
<1>1. GroundStays
  BY GroundKept
<1>2. DetailsFit'
  BY <1>1, DetailsStay
<1>3. ~ChatPending' /\ ChatFits' /\ spoiled' = {}
  BY DEF ChatPending, ChatFits, Settled
<1>4. activeId \in Place
  BY DEF PlayInv, PlayTypes
<1>5. DraftShown'
  BY EmptyRange DEF Settled, DraftShown
<1>6. ActiveShown'
  <2>1. CASE activeId' = activeId
    <3>1. SaidIn(activeId)' = SaidIn(activeId) /\ KeptOf(activeId)' = KeptOf(activeId)
      BY <2>1 DEF SaidIn, KeptOf
    <3> QED
      BY <1>3, <1>4, <2>1, <3>1, NobodyIsNone DEF Settled, ActiveShown
  <2>2. CASE activeId' # activeId
    BY <1>3, <2>2 DEF ActiveShown
  <2> QED
    BY <2>1, <2>2
<1> QED
  BY <1>2, <1>3, <1>5, <1>6 DEF Settled

LEMMA GoneSettled ==
    ASSUME PlayInv, Settled, hurried' = 0,
           \/ \E id \in Conversation : SwitchToSession(id) \/ RemoveSession(id)
           \/ NewConversation \/ RemovalDone \/ RemovalFails
    PROVE  Settled'
<1>1. hurried \in Nat /\ PlayTypes
  BY DEF PlayInv, PlayTypes
<1>2. ~ChatPending
  BY <1>1, HurriesTyped DEF SwitchToSession, RemoveSession, NewConversation, RemovalDone, RemovalFails,
     ChatPending, Settled, ChatFits
<1>3. UNCHANGED <<chat, home, kept, spoiled>>
  BY DEF SwitchToSession, RemoveSession, NewConversation, RemovalDone, RemovalFails
<1>4. \A o \in Conversation : detail[o] \in Detail /\ DetailFits(detail[o], SaidIn(o), MustHave(o))
  BY DEF PlayInv, PlayTypes, Settled, DetailsFit
<1>5. CASE (\E id \in Conversation : RemoveSession(id)) \/ NewConversation \/ RemovalFails
  BY <1>2, <1>3, <1>4, <1>5, ElsewhereSettled DEF RemoveSession, NewConversation, RemovalFails
<1>6. CASE RemovalDone
  BY <1>1, <1>2, <1>3, <1>6, InvalidatedFits, InvalidatedKept, ElsewhereSettled DEF RemovalDone, Settled
<1>7. ASSUME NEW id \in Conversation, SwitchToSession(id) PROVE Settled'
  <2>1. DetailFits(Shown(detail[id]), SaidIn(id), MustHave(id)) /\ Shown(detail[id]).data = detail[id].data
    BY <1>4, AskedFits, AskedKept
  <2>2. /\ \A o \in Conversation : DetailFits(detail'[o], SaidIn(o), MustHave(o))
        /\ detail'[id].data = detail[id].data
    BY <1>4, <1>7, <2>1 DEF SwitchToSession, PlayInv, PlayTypes
  <2> QED
    BY <1>2, <1>3, <1>7, <2>2, NobodyIsNone, ElsewhereSettled DEF SwitchToSession
<1> QED
  BY <1>5, <1>6, <1>7

(* A turn, from the send until the page is told, or is not.                *)
LEMMA SendSettled == ASSUME PlayInv, Settled, hurried' = 0, Send PROVE Settled'
<1> DEFINE n == Len(home) + 1
<1>1. ~ChatPending /\ removing = NoRemoval /\ ~Unsettled
  BY HurriesTyped DEF PlayInv, PlayTypes, Send, Unsettled, ChatPending
<1>2. /\ chat' = [at |-> "asked", active |-> activeId, messages |-> screen', began |-> draft,
                  amiss |-> Foreign \/ Short]
      /\ UNCHANGED <<stored, detail, activeId, removing, draft, kept, spoiled>>
  BY DEF Send
<1>3. /\ \A id \in Conversation : SaidIn(id) \subseteq SaidIn(id)' /\ KeptOf(id)' = KeptOf(id)
      /\ Len(home) \in Nat /\ DOMAIN home = 1..Len(home) /\ Range(screen') = Range(screen) \cup {n}
      /\ activeId \in Place /\ draft \in 1..n
  BY SendGround DEF KeptOf, Send, PlayInv, PlayTypes
<1>4. DetailsFit'
  <2>1. \A id \in Conversation : MustHave(id)' \subseteq MustHave(id)
    BY <1>2, <1>3, NobodyIsNone DEF MustHave
  <2> QED
    BY <1>2, <1>3, <2>1, DetailsStay DEF GroundStays, Settled, DetailsFit
<1>5. activeId # NoConversation =>
         detail[activeId].data # <<>> /\ Fits(screen, SaidIn(activeId), KeptOf(activeId))
  BY <1>1, <1>3, NobodyIsNone
     DEF Unsettled, Settled, ActiveShown, DetailsFit, DetailFits, Fits, MustHave
<1>6. \A t \in Range(screen) : t \in 1..Len(home)
  BY DEF PlayInv, TurnsInOrder, Turns
<1>7. ~Foreign /\ ~Short
  <2>1. ~Foreign
    BY <1>5, <1>6 DEF Foreign, Settled, DraftShown, SaidIn, Fits, PlayInv, PlayTypes
  <2>2. ~Short
    <3>1. activeId = NoConversation => \A p \in kept : p[1] # activeId
      BY NobodyIsNone DEF PlayInv, PlayTypes
    <3> QED
      BY <1>5, <3>1, KeptPairs DEF PlayInv, Short, Fits
  <2> QED
    BY <2>1, <2>2
<1>8. DraftShown'
  BY <1>2, <1>3 DEF Settled, DraftShown
<1>9. ActiveShown' /\ ChatFits' /\ spoiled' = {}
  BY <1>1, <1>2, <1>5, <1>7 DEF ActiveShown, ChatFits, ChatPending, Settled
<1> QED
  BY <1>4, <1>8, <1>9 DEF Settled

LEMMA AnswerSettled == ASSUME PlayInv, Settled, AnswerChat PROVE Settled'
<1>1. /\ ChatPending /\ chat'.at = "saving" /\ chat'.active = chat.active
      /\ chat'.messages = chat.messages /\ screen' = chat.messages
      /\ chat'.amiss = chat.amiss /\ chat'.began = chat.began
      /\ UNCHANGED <<stored, detail, activeId, removing, home, draft, kept, spoiled>>
  BY DEF PlayInv, PlayTypes, Chat, AnswerChat, ChatPending
<1>2. GroundStays
  BY <1>1, GroundKept, NobodyIsNone
<1>3. DetailsFit'
  BY <1>1, <1>2, DetailsStay DEF Settled, DetailsFit
<1>4. DraftShown'
  BY <1>1 DEF PlayInv, ChatKnows, Settled, ChatFits, DraftShown
<1>5. ActiveShown' /\ ChatFits'
  BY <1>1 DEF Settled, ActiveShown, ChatFits, ChatPending
<1> QED
  BY <1>1, <1>3, <1>4, <1>5 DEF Settled

LEMMA SaveTurnsSettled == ASSUME PlayInv, Settled, SaveTurns PROVE Settled'
<1>1. /\ ChatPending /\ chat'.at = "saved" /\ chat'.active = chat.active
      /\ chat'.messages = chat.messages /\ chat'.amiss = chat.amiss /\ chat'.began = chat.began
      /\ spoiled' = SpoiledBySaving(chat.active)
      /\ UNCHANGED <<detail, screen, activeId, removing, home, draft, kept>>
  BY DEF PlayInv, PlayTypes, Chat, SaveTurns, ChatPending
<1>2. GroundStays
  BY <1>1, GroundKept, NobodyIsNone
<1>3. DetailsFit'
  BY <1>1, <1>2, DetailsStay DEF Settled, DetailsFit
<1>4. DraftShown' /\ ActiveShown' /\ ChatFits' /\ spoiled' = {}
  BY <1>1 DEF Settled, DraftShown, ActiveShown, ChatFits, ChatPending, SpoiledBySaving
<1> QED
  BY <1>3, <1>4 DEF Settled

LEMMA CreateSettled ==
    ASSUME PlayInv, Settled, NEW id \in Conversation, Create(id) PROVE Settled'
<1>1. /\ ChatPending /\ chat'.at = id /\ chat'.active = chat.active
      /\ chat'.messages = chat.messages /\ chat'.amiss = chat.amiss /\ chat'.began = chat.began
      /\ spoiled' = SpoiledBySaving(id) /\ chat.active = NoConversation /\ chat.at = "saving"
      /\ UNCHANGED <<detail, screen, activeId, removing, draft, kept>>
  BY DEF PlayInv, PlayTypes, Chat, Create, ChatPending
<1>2. /\ SaidIn(id) = {}
      /\ \A o \in Conversation : SaidIn(o) \subseteq SaidIn(o)' /\ KeptOf(o)' = KeptOf(o)
  BY CreateGround
<1>3. activeId = NoConversation /\ ~chat.amiss /\ ChatPending'
  BY <1>1, NobodyIsNone DEF Settled, ChatFits, ChatPending
<1>4. \A o \in Conversation : o # id => MustHave(o)' = MustHave(o)
  BY <1>1, <1>2, NobodyIsNone DEF MustHave
<1>5. DetailsFit'
  <2> SUFFICES ASSUME NEW o \in Conversation PROVE DetailFits(detail[o], SaidIn(o)', MustHave(o)')
    BY <1>1 DEF DetailsFit
  <2>1. DetailFits(detail[o], SaidIn(o), MustHave(o)) /\ detail[o] \in Detail
    BY DEF PlayInv, PlayTypes, Settled, DetailsFit
  <2>2. CASE o = id
    <3>1. ASSUME NEW s \in Seq(Nat), Range(s) \subseteq {} PROVE s = <<>>
      <4>1. Len(s) \in Nat /\ DOMAIN s = 1..Len(s)
        OBVIOUS
      <4>2. CASE Len(s) # 0
        <5>1. 1 \in DOMAIN s
          BY <4>1, <4>2
        <5>2. s[1] \in Range(s)
          BY <5>1 DEF Range
        <5> QED
          BY <3>1, <5>2
      <4>3. CASE Len(s) = 0
        BY <4>3
      <4> QED
        BY <4>2, <4>3
    <3>2. detail[id].data = <<>> /\ detail[id].got = <<>> /\ detail[id].query # "read"
      BY <1>2, <2>1, <2>2, <3>1 DEF DetailFits, Fits, Detail
    <3> QED
      BY <2>2, <3>2 DEF DetailFits
  <2>3. CASE o # id
    BY <1>2, <1>4, <2>1, <2>3, DetailFitsMore
  <2> QED
    BY <2>2, <2>3
<1>6. DraftShown' /\ ActiveShown' /\ ChatFits' /\ spoiled' = {}
  BY <1>1, <1>3 DEF Settled, DraftShown, ActiveShown, ChatFits, SpoiledBySaving
<1> QED
  BY <1>5, <1>6 DEF Settled

(* The page marks what the cache has of the conversation when it is told.  *)
LEMMA SavedSettled == ASSUME PlayInv, Settled, Saved PROVE Settled'
<1> DEFINE m == chat.messages
<1>1. PICK a \in Conversation : a = activeId /\ a = chat.active
  BY DEF PlayInv, ChatKnows, ChatPending, Settled, ChatFits, Saved
<1>2. /\ ChatPending /\ a # NoConversation /\ chat.at = "saved"
      /\ Fits(m, SaidIn(a), KeptOf(a))
      /\ detail[a].data # <<>> /\ screen \in {detail[a].data, m}
  BY <1>1, NobodyIsNone DEF PlayInv, ChatKnows, ChatPending, Settled, ChatFits, ActiveShown, Saved
<1>3. /\ ~ChatPending' /\ chat'.at = "idle" /\ detail' = DetailsInvalidated /\ activeId' = a
      /\ UNCHANGED <<screen, home, draft, spoiled>>
  BY <1>1, NoChatTyped DEF Saved, ChatPending
<1>4. /\ KeptOf(a)' = KeptOf(a) \cup Range(m)
      /\ \A o \in Conversation : o # a => KeptOf(o)' = KeptOf(o)
  BY <1>1, ToldOf DEF PlayInv, Saved
<1>5. \A o : SaidIn(o)' = SaidIn(o)
  BY <1>3 DEF SaidIn
<1>6. \A o \in Conversation : MustHave(o)' = KeptOf(o)'
  BY <1>3, NobodyIsNone DEF MustHave
<1>7. DetailsFit'
  <2> SUFFICES ASSUME NEW o \in Conversation
               PROVE  DetailFits(DetailsInvalidated[o], SaidIn(o), KeptOf(o)')
    BY <1>3, <1>5, <1>6 DEF DetailsFit
  <2>1. DetailFits(DetailsInvalidated[o], SaidIn(o), MustHave(o))
    BY InvalidatedFits DEF PlayInv, Settled
  <2>2. CASE o = a
    BY <1>1, <1>2, <2>1, <2>2, InvalidatedKept DEF PlayInv, DetailFits
  <2>3. CASE o # a
    BY <1>4, <2>1, <2>3, DetailFitsMore DEF MustHave
  <2> QED
    BY <2>2, <2>3
<1>8. ActiveShown'
  <2>1. detail'[a].data = detail[a].data
    BY <1>3, InvalidatedKept DEF PlayInv
  <2>2. Fits(m, SaidIn(a)', KeptOf(a)')
    BY <1>2, <1>4, <1>5 DEF Fits
  <2> QED
    BY <1>2, <1>3, <2>1, <2>2 DEF ActiveShown
<1>9. DraftShown' /\ ChatFits' /\ spoiled' = {}
  BY <1>2, <1>3 DEF DraftShown, ChatFits, Settled
<1> QED
  BY <1>7, <1>8, <1>9 DEF Settled

LEMMA CreatedSettled ==
    ASSUME PlayInv, Settled, NEW id \in Conversation, Created(id) PROVE Settled'
<1>1. ChatPending /\ chat.at = id /\ id # NoConversation
  BY NobodyIsNone DEF ChatPending, Created
<1>2. /\ ~ChatPending' /\ chat'.at = "idle" /\ activeId' = id
      /\ detail' = [DetailsInvalidated EXCEPT ![id] = Shown(@)]
      /\ screen' = (IF id = activeId \/ detail[id].data = <<>> THEN screen ELSE detail[id].data)
      /\ SaysSaved(id) /\ UNCHANGED <<home, spoiled>>
  BY NoChatTyped DEF Created, ChatPending
<1>3. GroundStays
  <2>1. \A o \in Conversation : MustHave(o)' = KeptOf(o)'
    BY <1>2, NobodyIsNone DEF MustHave
  <2>2. \A o \in Conversation : KeptOf(o)' \subseteq MustHave(o)
    BY <1>1, <1>2, ToldOf DEF PlayInv, MustHave
  <2>3. \A o : SaidIn(o)' = SaidIn(o)
    BY <1>2 DEF SaidIn
  <2> QED
    BY <2>1, <2>2, <2>3 DEF GroundStays
<1>4. DetailsFit' /\ detail'[id].data = detail[id].data
  <2>1. \A o \in Conversation : DetailFits(DetailsInvalidated[o], SaidIn(o), MustHave(o))
    BY InvalidatedFits DEF PlayInv, Settled
  <2>2. /\ \A o \in Conversation : DetailsInvalidated[o] \in Detail
        /\ DetailsInvalidated[id].data = detail[id].data /\ DOMAIN DetailsInvalidated = Conversation
    BY InvalidatedKept DEF PlayInv
  <2>3. DetailFits(Shown(DetailsInvalidated[id]), SaidIn(id), MustHave(id))
        /\ Shown(DetailsInvalidated[id]).data = detail[id].data
    BY <2>1, <2>2, AskedFits, AskedKept
  <2>4. \A o \in Conversation : DetailFits(detail'[o], SaidIn(o), MustHave(o))
    BY <1>2, <2>1, <2>2, <2>3
  <2> QED
    BY <1>2, <1>3, <2>2, <2>3, <2>4, DetailsStay
<1>5. activeId # id
  BY <1>1 DEF PlayInv, ChatKnows, Settled, ChatFits, Created, NoConversation
<1>6. ActiveShown' /\ DraftShown' /\ ChatFits' /\ spoiled' = {}
  BY <1>1, <1>2, <1>4, <1>5 DEF ActiveShown, DraftShown, ChatFits, Settled
<1> QED
  BY <1>4, <1>6 DEF Settled

LEMMA SaveFailsSettled == ASSUME PlayInv, Settled, SaveFails PROVE Settled'
<1>1. /\ ChatPending /\ ~ChatPending' /\ chat'.at = "idle"
      /\ UNCHANGED <<stored, detail, activeId, screen, removing, home, draft, kept, spoiled>>
  BY NoChatTyped DEF SaveFails, ChatPending
<1>2. GroundStays
  BY <1>1, GroundKept, NobodyIsNone
<1>3. DetailsFit'
  BY <1>1, <1>2, DetailsStay DEF Settled, DetailsFit
<1>4. ActiveShown'
  <2>1. SaidIn(activeId)' = SaidIn(activeId) /\ KeptOf(activeId)' = KeptOf(activeId)
    BY <1>1 DEF SaidIn, KeptOf
  <2>2. activeId # NoConversation => Fits(chat.messages, SaidIn(activeId), KeptOf(activeId))
    BY <1>1 DEF PlayInv, ChatKnows, Settled, ChatFits
  <2> QED
    BY <1>1, <2>1, <2>2 DEF Settled, ActiveShown
<1>5. DraftShown' /\ ChatFits' /\ spoiled' = {}
  BY <1>1 DEF Settled, DraftShown, ChatFits
<1> QED
  BY <1>3, <1>4, <1>5 DEF Settled

LEMMA PlaySettled ==
    ASSUME PlayInv, hurried = 0 => Settled, [PlaygroundNext]_playVars, hurried' = 0 PROVE Settled'
<1>1. CASE UNCHANGED playVars
  BY <1>1 DEF playVars, Settled, DetailsFit, SaidIn, MustHave, KeptOf, DraftShown, ActiveShown,
     ChatFits, ChatPending
<1>2. CASE PlaygroundNext
  <2>1. hurried = 0
    <3>1. CASE NewConversation \/ Send \/ \E id \in Conversation : SwitchToSession(id) \/ RemoveSession(id)
      BY <3>1, HurriesTyped DEF PlayInv, PlayTypes, NewConversation, Send, SwitchToSession, RemoveSession,
         ChatPending, Unsettled
    <3>2. CASE UNCHANGED hurried
      BY <3>2
    <3> QED
      BY <1>2, <3>1, <3>2 DEF PlaygroundNext, RemovalDone, RemovalFails, AnswerChat, SaveTurns, Saved,
         SaveFails, ReadDetail, ArriveDetail, FailDetail, Collected, Create, Created
  <2>2. Settled
    BY <2>1
  <2>3. CASE \/ NewConversation \/ RemovalDone \/ RemovalFails
             \/ Send \/ AnswerChat \/ SaveTurns \/ Saved \/ SaveFails
    BY <2>2, <2>3, GoneSettled, SendSettled, AnswerSettled, SaveTurnsSettled, SavedSettled,
       SaveFailsSettled
  <2>4. ASSUME NEW id \in Conversation,
               \/ ReadDetail(id) \/ ArriveDetail(id) \/ FailDetail(id) \/ Collected(id)
               \/ SwitchToSession(id) \/ RemoveSession(id) \/ Create(id) \/ Created(id)
        PROVE  Settled'
    BY <2>2, <2>4, DetailSettled, GoneSettled, CreateSettled, CreatedSettled
  <2> QED
    BY <1>2, <2>3, <2>4 DEF PlaygroundNext
<1> QED
  BY <1>1, <1>2

LEMMA InitSettled == PlaygroundInit => Settled
BY NoChatTyped, NoDetailTyped, EmptyRange
   DEF PlaygroundInit, Settled, DetailsFit, DetailFits, DraftShown, ActiveShown, ChatFits, ChatPending

(* Whatever a visitor of the playground does, while the page, its cache    *)
(* and the server answer in any order and calls fail, a conversation that  *)
(* exists is made of the turns said in it, in order, and has all that the  *)
(* page was told are saved, unless a message was sent in it from a screen  *)
(* with another conversation or only part of it; and it is only by acting  *)
(* on what is not settled that one gets such a screen (Playground.tsx,     *)
(* persistMessages, against routes/playground.ts).                         *)
THEOREM ConversationsAlwaysWhole == PlaygroundSpec => []ConversationsWhole
<1>1. PlayInv /\ (hurried = 0 => Settled) => ConversationsWhole
  <2> SUFFICES ASSUME PlayInv PROVE \A id \in Conversation \ spoiled : IsStored(id) => Whole(id)
    BY DEF ConversationsWhole, Settled
  <2> TAKE id \in Conversation \ spoiled
  <2> HAVE IsStored(id)
  <2>1. Fits(stored[id], SaidIn(id), KeptOf(id)) /\ Turns(stored[id], Len(home)) /\ PlayTypes
    BY DEF PlayInv, StoredFit, TurnsInOrder
  <2>2. \A p \in kept : p[1] = id => p[2] \in Range(stored[id])
    BY <2>1, KeptPairs DEF Fits
  <2> QED
    BY <2>1, <2>2 DEF Whole, Turns, Fits, SaidIn
<1>2. PlaygroundInit => PlayInv /\ (hurried = 0 => Settled)
  BY PlayInitInv, InitSettled
<1>3. PlayInv /\ (hurried = 0 => Settled) /\ [PlaygroundNext]_playVars
         => (PlayInv /\ (hurried = 0 => Settled))'
  BY PlayStepInv, PlaySettled
<1> QED
  BY <1>1, <1>2, <1>3, PTL DEF PlaygroundSpec
=============================================================================
