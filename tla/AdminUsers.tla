----------------------------- MODULE AdminUsers -----------------------------
(***************************************************************************)
(* Administrator accounts and their sessions: AdminUserService behind the  *)
(* routes of auth.routes.ts and users.routes.ts and the admin-auth hook.   *)
(* A login reads the account and writes it back in later queries; so do    *)
(* the operations that count accounts before they write.  An operation     *)
(* that only checks that its account exists is one step: if the account    *)
(* is gone before the update, the update fails.                            *)
(*                                                                         *)
(* A user is the id of a row, which is never used again.  lockedUntil 0    *)
(* stands for null.                                                        *)
(***************************************************************************)
EXTENDS RateLimits, FiniteSets

CONSTANTS
    User,
    SessionId,
    NoUser,
    Caller,       \* requests in progress at once
    FailedLimit,  \* FAILED_LOGIN_LIMIT
    Lockout,      \* LOCKOUT_MS, in ticks
    SessionTtl,   \* SESSION_TTL_MS, in ticks
    MaxWrong,     \* bound: wrong passwords for one account
    MaxAdmin      \* bound: operations of administrators

ASSUME AdminAssumption ==
    /\ NoUser \notin User
    /\ FailedLimit \in Nat \ {0} /\ Lockout \in Nat \ {0} /\ SessionTtl \in Nat \ {0}
    /\ MaxWrong \in Nat /\ MaxAdmin \in Nat

VARIABLES
    users,     \* users[u]: the row of admin_users
    sessions,  \* sessions[s]: a row of sessions; one of NoUser does not exist
    op,        \* op[c]: an operation between two of its queries
    wrong,     \* history: wrong passwords for u
    adminOps   \* operations of administrators so far

adminVars == <<users, sessions, op, wrong, adminOps>>

Account == [row : {"none", "there", "deleted"}, isAdmin : BOOLEAN, enabled : BOOLEAN,
            failedLogins : Nat, lockedUntil : Nat]
NoAccount == [row |-> "none", isAdmin |-> FALSE, enabled |-> FALSE,
              failedLogins |-> 0, lockedUntil |-> 0]
Deleted == [NoAccount EXCEPT !.row = "deleted"]
Session == [user : User \cup {NoUser}, revoked : BOOLEAN, expiresAt : Nat]
NoSession == [user |-> NoUser, revoked |-> FALSE, expiresAt |-> 0]
Op == [at : {"idle", "password", "minted", "demote", "delete"},
       user : User \cup {NoUser}, failed : Nat]
NoOp == [at |-> "idle", user |-> NoUser, failed |-> 0]

AdminTypeOK ==
    /\ users \in [User -> Account]
    /\ sessions \in [SessionId -> Session]
    /\ op \in [Caller -> Op]
    /\ wrong \in [User -> Nat]
    /\ adminOps \in Nat

(* The seed creates one administrator.                                     *)
AdminInit ==
    /\ \E root \in User :
          users = [u \in User |-> IF u = root
                                  THEN [NoAccount EXCEPT !.row = "there", !.isAdmin = TRUE,
                                                         !.enabled = TRUE]
                                  ELSE NoAccount]
    /\ sessions = [s \in SessionId |-> NoSession]
    /\ op = [c \in Caller |-> NoOp]
    /\ wrong = [u \in User |-> 0]
    /\ adminOps = 0

AdminOp == adminOps < MaxAdmin /\ adminOps' = adminOps + 1
Exists(u) == users[u].row = "there"
Locked(u) == users[u].lockedUntil > now
Begin(c, l, u) == /\ op[c].at = "idle"
                  /\ op' = [op EXCEPT ![c] = [at |-> l, user |-> u,
                                              failed |-> users[u].failedLogins]]
End(c) == op' = [op EXCEPT ![c] = NoOp]
In(c, l) == op[c].at = l

-----------------------------------------------------------------------------
(* POST /admin/auth/login.                                                 *)

(* An account that is missing, disabled or locked is refused as it is.     *)
LoginRead(c, u) ==
    /\ Exists(u) /\ users[u].enabled /\ ~Locked(u)
    /\ wrong[u] < MaxWrong
    /\ Begin(c, "password", u)
    /\ UNCHANGED <<rateVars, users, sessions, wrong, adminOps>>

(* The counter is computed from the row that was read; both columns are    *)
(* written whatever is there now.                                          *)
LoginWrong(c) ==
    LET u == op[c].user
        failed == op[c].failed + 1
    IN
    /\ In(c, "password") /\ Exists(u)
    /\ users' = [users EXCEPT ![u].failedLogins = failed,
                              ![u].lockedUntil = IF failed >= FailedLimit THEN now + Lockout ELSE 0]
    /\ wrong' = [wrong EXCEPT ![u] = @ + 1]
    /\ End(c)
    /\ UNCHANGED <<rateVars, sessions, adminOps>>

(* The right password: the session first, with its foreign key.            *)
LoginRight(c, s) ==
    /\ In(c, "password") /\ Exists(op[c].user)
    /\ sessions[s].user = NoUser
    /\ sessions' = [sessions EXCEPT ![s] = [user |-> op[c].user, revoked |-> FALSE,
                                            expiresAt |-> now + SessionTtl]]
    /\ op' = [op EXCEPT ![c].at = "minted"]
    /\ UNCHANGED <<rateVars, users, wrong, adminOps>>

ResetCounter(u) ==
    /\ users' = [users EXCEPT ![u].failedLogins = 0, ![u].lockedUntil = 0]

LoginReset(c) ==
    /\ In(c, "minted") /\ Exists(op[c].user)
    /\ ResetCounter(op[c].user)
    /\ End(c)
    /\ UNCHANGED <<rateVars, sessions, wrong, adminOps>>

(* The account went away after it was read: the next query fails.          *)
LoginThrows(c) ==
    /\ op[c].at \in {"password", "minted"} /\ ~Exists(op[c].user)
    /\ End(c)
    /\ UNCHANGED <<rateVars, users, sessions, wrong, adminOps>>

-----------------------------------------------------------------------------
(* Sessions.  resolveSession does not look at enabled.                     *)

Valid(s) == sessions[s].user # NoUser /\ ~sessions[s].revoked /\ sessions[s].expiresAt > now

(* logout by the session's token, or revokeSession by an administrator.    *)
Revoke(s) ==
    /\ sessions[s].user # NoUser /\ ~sessions[s].revoked
    /\ sessions' = [sessions EXCEPT ![s].revoked = TRUE]
    /\ UNCHANGED <<rateVars, users, op, wrong, adminOps>>

(* The onRequest hook lets an administrator's session at an admin-only     *)
(* path.                                                                   *)
Authorised(s) == Valid(s) /\ users[sessions[s].user].isAdmin
ByAdmin == AdminOp /\ \E s \in SessionId : Authorised(s)

-----------------------------------------------------------------------------
(* /admin/users.                                                           *)

CreateUser(u) ==
    /\ ByAdmin /\ users[u].row = "none"
    /\ \E b \in BOOLEAN : users' = [users EXCEPT ![u] = [NoAccount EXCEPT !.row = "there",
                                                             !.enabled = TRUE, !.isAdmin = b]]
    /\ UNCHANGED <<rateVars, sessions, op, wrong>>

SetEnabled(u) ==
    /\ ByAdmin /\ Exists(u)
    /\ \E b \in BOOLEAN : users' = [users EXCEPT ![u].enabled = b]
    /\ UNCHANGED <<rateVars, sessions, op, wrong>>

(* unlock and resetPassword.  Sessions stay valid.                         *)
Unlock(u) ==
    /\ ByAdmin /\ Exists(u)
    /\ ResetCounter(u)
    /\ UNCHANGED <<rateVars, sessions, op, wrong>>

Promote(u) ==
    /\ ByAdmin /\ Exists(u)
    /\ users' = [users EXCEPT ![u].isAdmin = TRUE]
    /\ UNCHANGED <<rateVars, sessions, op, wrong>>

Admins == {u \in User : users[u].isAdmin /\ users[u].enabled}

(* setRole counts the enabled administrators before it demotes one.        *)
DemoteCount(c, u) ==
    /\ ByAdmin /\ Exists(u) /\ users[u].isAdmin
    /\ Cardinality(Admins) > 1
    /\ Begin(c, "demote", u)
    /\ UNCHANGED <<rateVars, users, sessions, wrong>>

DemoteWrite(c) ==
    /\ In(c, "demote")
    /\ users' = IF Exists(op[c].user) THEN [users EXCEPT ![op[c].user].isAdmin = FALSE] ELSE users
    /\ End(c)
    /\ UNCHANGED <<rateVars, sessions, wrong, adminOps>>

(* deleteUser counts the enabled accounts of either role.                  *)
DeleteCount(c, u) ==
    /\ AdminOp
    /\ \E s \in SessionId : Authorised(s) /\ sessions[s].user # u
    /\ Cardinality({v \in User : users[v].enabled}) > 1
    /\ Exists(u)
    /\ Begin(c, "delete", u)
    /\ UNCHANGED <<rateVars, users, sessions, wrong>>

(* Mutant: the sessions stay.                                              *)
DeleteKeepingSessions(c) ==
    /\ In(c, "delete")
    /\ users' = [users EXCEPT ![op[c].user] = Deleted]
    /\ End(c)
    /\ UNCHANGED <<rateVars, sessions, wrong, adminOps>>

(* The sessions go with the account.                                       *)
DeleteWrite(c) ==
    LET u == op[c].user IN
    /\ In(c, "delete")
    /\ users' = [users EXCEPT ![u] = Deleted]
    /\ sessions' = [s \in SessionId |-> IF sessions[s].user = u THEN NoSession ELSE sessions[s]]
    /\ End(c)
    /\ UNCHANGED <<rateVars, wrong, adminOps>>

AdminStep ==
    \/ \E c \in Caller :
          \/ \E u \in User : LoginRead(c, u) \/ DemoteCount(c, u) \/ DeleteCount(c, u)
          \/ \E s \in SessionId : LoginRight(c, s)
          \/ LoginWrong(c) \/ LoginReset(c) \/ LoginThrows(c) \/ DemoteWrite(c) \/ DeleteWrite(c)
    \/ \E s \in SessionId : Revoke(s)
    \/ \E u \in User : CreateUser(u) \/ SetEnabled(u) \/ Unlock(u) \/ Promote(u)

AdminNext == AdminStep \/ (Tick /\ UNCHANGED adminVars)
AdminSpec == RateInit /\ AdminInit /\ [][AdminNext]_<<rateVars, adminVars>>

-----------------------------------------------------------------------------
(* An account is only ever locked after FailedLimit wrong passwords for    *)
(* it, however the counter was overwritten in between (login).             *)
LockIsEarned ==
    \A u \in User : users[u].lockedUntil # 0 => wrong[u] >= FailedLimit

(* Every session has its account, with logins, deletions and re-creations  *)
(* of the account in any order (login, deleteUser).                        *)
SessionsHaveUsers ==
    \A s \in SessionId : sessions[s].user # NoUser => Exists(sessions[s].user)
(* Both, for accounts that are read, written and deleted by requests that  *)
(* overlap.                                                                *)
AccountsInOrder == AdminTypeOK /\ LockIsEarned /\ SessionsHaveUsers
=============================================================================
