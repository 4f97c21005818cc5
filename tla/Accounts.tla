------------------------------- MODULE Accounts -------------------------------
(***************************************************************************)
(* The AuthenticationManager of src/enterprise.rs: users and their keys,   *)
(* failed logins, permissions and the audit log; and the way into the      *)
(* enterprise calls of src/lib.rs.                                         *)
(*                                                                         *)
(* Every map has a lock of its own.  A login looks at the failed attempts  *)
(* under one lock and at the users under another, so that logins of one    *)
(* name overlap; an enterprise call takes the users' lock twice; every     *)
(* other operation is one step.  No code inserts a session or changes      *)
(* is_active: a token is never found, and every user and key is active.    *)
(***************************************************************************)
EXTENDS Integers, Sequences, FiniteSets, FiniteSetsExt

CONSTANTS Task, Name, Password, Role, Permission,
          Grants,            \* has_permission: the permissions of each role
          Default,           \* the password create_user sets
          Policies,          \* values of max_login_attempts
          LogSize, LogDrop,  \* 10000 entries, of which the oldest 1000 go
          MaxUsers, MaxKeys, MaxLogged \* bounds

ASSUME AccountAssumption ==
    /\ IsFiniteSet(Task) /\ Task # {}
    /\ Grants \in [Role -> SUBSET Permission]
    /\ Default \in Password
    /\ Policies \subseteq Nat \ {0} /\ Policies # {} /\ IsFiniteSet(Policies)
    /\ LogSize \in Nat /\ LogDrop \in 1..LogSize
    /\ MaxUsers \in Nat /\ MaxKeys \in Nat /\ MaxLogged \in Nat

VARIABLES users,          \* in the order of their creation
          expired,        \* keys whose time is over
          login_attempts, \* of each name
          lapsed,         \* names whose last failure is five minutes old
          max_login_attempts,
          login,          \* the login or call each task has yet to verify
          audit_log, logged \* the log, and how many entries were ever written

accountVars == <<users, expired, login_attempts, lapsed, max_login_attempts, login,
                 audit_log, logged>>

NoLogin == [at |-> "idle"]

AccountInit ==
    /\ users = << >> /\ expired = {}
    /\ login_attempts = [n \in Name |-> 0]
    /\ lapsed = {}
    /\ max_login_attempts \in Policies
    /\ login = [t \in Task |-> NoLogin]
    /\ audit_log = << >> /\ logged = 0

\* log_audit_event.
Log ==
    LET longer == Append(audit_log, logged + 1)
    IN  /\ logged < MaxLogged /\ logged' = logged + 1
        /\ audit_log' = IF Len(longer) > LogSize
                        THEN SubSeq(longer, LogDrop + 1, Len(longer)) ELSE longer

NotLogged == UNCHANGED <<audit_log, logged>>

-----------------------------------------------------------------------------
(* Users and keys.                                                         *)

NamesInUse == {users[u].name : u \in DOMAIN users}

\* create_admin_user takes any name.
CreateAdminUser(n, p) ==
    /\ Len(users) < MaxUsers
    /\ users' = Append(users, [name |-> n, password |-> p, roles |-> {"SuperAdmin"},
                               keys |-> {}])
    /\ Log
    /\ UNCHANGED <<expired, login_attempts, lapsed, max_login_attempts, login>>

\* create_user refuses a name that is in use.
CreateUser(n, roles) ==
    /\ Len(users) < MaxUsers
    /\ IF n \in NamesInUse THEN NotLogged /\ UNCHANGED users
       ELSE /\ users' = Append(users, [name |-> n, password |-> Default,
                                       roles |-> roles, keys |-> {}])
            /\ Log
    /\ UNCHANGED <<expired, login_attempts, lapsed, max_login_attempts, login>>

Keys == UNION {users[u].keys : u \in DOMAIN users}

\* create_api_key_for_user: a key that nobody has.
CreateApiKey(u, k) ==
    /\ u \in DOMAIN users /\ k \in 1..MaxKeys /\ \A l \in Keys \cup expired : l < k
    /\ users' = [users EXCEPT ![u].keys = @ \cup {k}]
    /\ Log
    /\ UNCHANGED <<expired, login_attempts, lapsed, max_login_attempts, login>>

\* revoke_api_key_for_user.
RevokeApiKey(u, k) ==
    /\ u \in DOMAIN users
    /\ users' = [users EXCEPT ![u].keys = @ \ {k}]
    /\ IF k \in users[u].keys THEN Log ELSE NotLogged
    /\ UNCHANGED <<expired, login_attempts, lapsed, max_login_attempts, login>>

KeyExpires(k) ==
    /\ k \in Keys /\ expired' = expired \cup {k}
    /\ NotLogged
    /\ UNCHANGED <<users, login_attempts, lapsed, max_login_attempts, login>>

\* authenticate_api_key and authenticate_jwt log their outcome, whatever it is.
Authenticate ==
    /\ Log
    /\ UNCHANGED <<users, expired, login_attempts, lapsed, max_login_attempts, login>>

HasPermission(u, p) == \E r \in users[u].roles : p \in Grants[r]

\* check_permission logs a refusal, unless nobody has the identifier.
Refusals(u, p) ==
    IF u \notin DOMAIN users THEN NotLogged ELSE IF HasPermission(u, p) THEN NotLogged ELSE Log

CheckPermission(u, p) ==
    /\ Refusals(u, p)
    /\ UNCHANGED <<users, expired, login_attempts, lapsed, max_login_attempts, login>>

\* update_security_policy.
UpdatePolicy(max) ==
    /\ max_login_attempts' = max
    /\ NotLogged
    /\ UNCHANGED <<users, expired, login_attempts, lapsed, login>>

-----------------------------------------------------------------------------
(* Enterprise calls: adding a document needs the permission WriteData, a    *)
(* search ReadData; a call without a key or an identifier skips all this.   *)

Call(t, u, p) == login' = [login EXCEPT ![t] = [at |-> "call", user |-> u, permission |-> p]]

\* The key of the caller becomes the identifier of its user, or ends the call.
BeginCallWithKey(t, k, p) ==
    /\ login[t] = NoLogin
    /\ \/ \E u \in DOMAIN users : k \in users[u].keys \ expired /\ Call(t, u, p)
       \/ k \notin Keys \ expired /\ UNCHANGED login
    /\ Log
    /\ UNCHANGED <<users, expired, login_attempts, lapsed, max_login_attempts>>

\* The caller gives an identifier, perhaps of nobody.
BeginCallById(t, u, p) ==
    /\ login[t] = NoLogin
    /\ Call(t, u, p)
    /\ NotLogged
    /\ UNCHANGED <<users, expired, login_attempts, lapsed, max_login_attempts>>

\* The permission is looked at under a lock of its own; then the operation is
\* executed, which knows nothing of accounts, or the call is refused.
FinishCall(t) ==
    /\ login[t].at = "call"
    /\ Refusals(login[t].user, login[t].permission)
    /\ login' = [login EXCEPT ![t] = NoLogin]
    /\ UNCHANGED <<users, expired, login_attempts, lapsed, max_login_attempts>>

-----------------------------------------------------------------------------
(* Logins.                                                                 *)

\* Five minutes pass without a failure of this name.
LockoutPasses(n) ==
    /\ login_attempts[n] > 0 /\ lapsed' = lapsed \cup {n}
    /\ NotLogged
    /\ UNCHANGED <<users, expired, login_attempts, max_login_attempts, login>>

\* Mutant: one attempt more before the name is locked.
LockedLate(n) == login_attempts[n] > max_login_attempts

Locked(n) == login_attempts[n] >= max_login_attempts

\* check_login_attempts refuses a locked name, or forgets its failures.
BeginLogin(t, n, p) ==
    /\ login[t] = NoLogin
    /\ \/ /\ ~Locked(n)
          /\ login' = [login EXCEPT ![t] = [at |-> "login", name |-> n, password |-> p]]
          /\ UNCHANGED login_attempts
       \/ /\ Locked(n) /\ n \notin lapsed
          /\ UNCHANGED <<login, login_attempts>>
       \/ /\ Locked(n) /\ n \in lapsed
          /\ login' = [login EXCEPT ![t] = [at |-> "login", name |-> n, password |-> p]]
          /\ login_attempts' = [login_attempts EXCEPT ![n] = 0]
    /\ NotLogged
    /\ UNCHANGED <<users, expired, lapsed, max_login_attempts>>

\* The rest of authenticate_user: of several users of the name, the one the map
\* yields first is compared.
FinishLogin(t) ==
    /\ login[t].at = "login"
    /\ LET n == login[t].name
           named == {u \in DOMAIN users : users[u].name = n}
       IN  \/ /\ \E u \in named : users[u].password = login[t].password
              /\ login_attempts' = [login_attempts EXCEPT ![n] = 0]
              /\ UNCHANGED lapsed
           \/ /\ named = {} \/ \E u \in named : users[u].password # login[t].password
              /\ login_attempts' = [login_attempts EXCEPT ![n] = @ + 1]
              /\ lapsed' = lapsed \ {n}
    /\ login' = [login EXCEPT ![t] = NoLogin]
    /\ Log
    /\ UNCHANGED <<users, expired, max_login_attempts>>

AccountNext ==
    \/ \E n \in Name : LockoutPasses(n)
        \/ (\E p \in Password : CreateAdminUser(n, p))
        \/ (\E roles \in SUBSET Role : CreateUser(n, roles))
        \/ (\E t \in Task, p \in Password : BeginLogin(t, n, p))
    \/ \E t \in Task : FinishLogin(t) \/ FinishCall(t)
    \/ \E k \in 1..MaxKeys :
        KeyExpires(k)
        \/ (\E u \in DOMAIN users : CreateApiKey(u, k) \/ RevokeApiKey(u, k))
    \/ \E u \in 1..MaxUsers, p \in Permission :
        CheckPermission(u, p) \/ \E t \in Task : BeginCallById(t, u, p)
    \/ \E t \in Task, k \in 1..MaxKeys, p \in Permission : BeginCallWithKey(t, k, p)
    \/ Authenticate
    \/ \E max \in Policies : UpdatePolicy(max)

AccountSpec == AccountInit /\ [][AccountNext]_accountVars

-----------------------------------------------------------------------------
\* However logins of one name overlap, and whenever the policy changes, no more
\* failures are counted than the policy allows and the other tasks had begun
\* (check_login_attempts and record_login_failure take their lock one after
\* the other).
FailuresBounded ==
    \A n \in Name :
        login_attempts[n] <= Max(Policies) + Cardinality(Task) - 1

\* The audit log is the unbroken end of all that was logged, and never shorter
\* than what a removal of the oldest entries leaves (log_audit_event).
AuditKeepsLatest ==
    /\ Len(audit_log) >= Min({logged, LogSize + 1 - LogDrop})
    /\ \A i \in DOMAIN audit_log : audit_log[i] = logged - Len(audit_log) + i

\* What logins leave behind stays in its bounds: their counters and their
\* entries of the audit log (enterprise.rs:604-690).
LoginsLeaveBounds == FailuresBounded /\ AuditKeepsLatest
=============================================================================
