----------------------------- MODULE AuthStore -----------------------------
(***************************************************************************)
(* Users and server-side sessions (auth_store.py, repositories/            *)
(* user_repository.py, session_repository.py) under the handlers that use  *)
(* them: setup, login, logout and the user administration page.            *)
(*                                                                          *)
(* The handlers run on the event loop of the only application process and   *)
(* do not suspend between their first look at the store and their last      *)
(* write, so each is one step.  The exceptions are the bootstrap and the    *)
(* import of several users, which commit one user at a time: a process that *)
(* dies, or a database error, leaves the rest undone.                       *)
(*                                                                          *)
(* A password stands for its own hash; "viewer" stands for both roles that  *)
(* are not administrator.                                                   *)
(***************************************************************************)
EXTENDS Integers, FiniteSets, Sequences

CONSTANTS
  Users,         \* usernames
  Sids,          \* session tokens; each is drawn at most once
  Passwords,
  MaxFailures,   \* wrong passwords counted before the next one locks (code: 4)
  LockTime,      \* how long a lock lasts (code: 300 s)
  Ttl,           \* session lifetime
  MaxTime,       \* bound: the clock stops here
  Imports,       \* user files an administrator may import
  BootUsers      \* the accounts configured at the first start

ASSUME LimitAssumption == MaxFailures \in Nat /\ LockTime \in Nat \ {0}
ASSUME TimeAssumption == Ttl \in Nat \ {0} /\ MaxTime \in Nat

Roles == {"admin", "viewer"}
Entry == [user: Users, role: Roles, enabled: BOOLEAN, password: Passwords]
ASSUME FilesAssumption == Imports \subseteq Seq(Entry) /\ BootUsers \in Seq(Entry)
ASSUME UsersAssumption == IsFiniteSet(Users)
\* The bootstrap makes its first account the administrator; no name comes twice.
ASSUME BootAssumption ==
  \A i \in DOMAIN BootUsers :
    /\ i = 1 => BootUsers[i].role = "admin" /\ BootUsers[i].enabled
    /\ i # 1 => BootUsers[i].user # BootUsers[1].user

VARIABLES
  users,      \* the users table
  sessions,   \* the sessions table
  drawn,      \* tokens already handed out
  pending,    \* what an import or the bootstrap has still to write
  now,        \* the clock
  guesses     \* auxiliary: wrong passwords tried since the account was last open

vars == <<users, sessions, drawn, pending, now, guesses>>

NoUser == [role |-> "none"]
UserType == [role: Roles, enabled: BOOLEAN, password: Passwords,
             failed: 0..MaxFailures, locked_until: 0..MaxTime + LockTime]
NoSession == [user |-> "none"]
\* password: auxiliary, the password its owner had when the session began.
SessionType == [user: Users, expires: 1..MaxTime + Ttl, revoked: BOOLEAN,
                password: Passwords]

TypeOK ==
  /\ users \in [Users -> UserType \cup {NoUser}]
  /\ sessions \in [Sids -> SessionType \cup {NoSession}]
  /\ drawn \subseteq Sids
  /\ \A s \in Sids : sessions[s] # NoSession => s \in drawn
  /\ pending \in Seq(Entry)
  /\ now \in 0..MaxTime
  /\ guesses \in [Users -> Nat]

Init ==
  /\ users = [u \in Users |-> NoUser]
  /\ sessions = [s \in Sids |-> NoSession]
  /\ drawn = {}
  /\ pending = <<>>
  /\ now = 0
  /\ guesses = [u \in Users |-> 0]

-----------------------------------------------------------------------------
(* Reading the tables.                                                      *)

Known(u) == users[u] # NoUser
IsEnabledAdmin(row) == row # NoUser /\ row.role = "admin" /\ row.enabled
EnabledAdmins == {u \in Users : IsEnabledAdmin(users[u])}
Locked(u) == Known(u) /\ users[u].locked_until > now
\* authenticate gets to the password.
Open(u) == Known(u) /\ users[u].enabled /\ ~Locked(u)

\* SessionRepository.get returns a row.
Live(s) ==
  /\ sessions[s] # NoSession
  /\ ~sessions[s].revoked
  /\ sessions[s].expires > now
  /\ users[sessions[s].user].enabled

\* Some browser holds a session of an administrator (_admin_principal).
AdminPresent ==
  \E s \in Sids : Live(s) /\ users[sessions[s].user].role = "admin"

Revoked(u) ==
  [s \in Sids |-> IF sessions[s] # NoSession /\ sessions[s].user = u
                  THEN [sessions[s] EXCEPT !.revoked = TRUE] ELSE sessions[s]]

-----------------------------------------------------------------------------
(* The first start and the setup page.                                      *)

NewRow(e) == [role |-> e.role, enabled |-> e.enabled, password |-> e.password,
              failed |-> 0, locked_until |-> 0]

Bootstrap ==
  /\ \A u \in Users : ~Known(u)
  /\ pending = <<>> /\ BootUsers # <<>>
  /\ pending' = BootUsers
  /\ UNCHANGED <<users, sessions, drawn, now, guesses>>

\* The one-time initial administrator.
CreateInitialAdmin(u, p) ==
  /\ \A v \in Users : ~Known(v)
  /\ users' = [users EXCEPT ![u] = NewRow([role |-> "admin", enabled |-> TRUE,
                                            password |-> p])]
  /\ UNCHANGED <<sessions, drawn, pending, now, guesses>>

-----------------------------------------------------------------------------
(* Logging in and out.                                                      *)

\* The failure that follows MaxFailures counted ones locks the account.
WrongPasswordUncounted(row) == [row EXCEPT !.failed = @ + 1] \* Mutant: the count is never cut.
WrongPasswordUntimed(row) == \* Mutant: the lock comes without a term.
  IF row.failed >= MaxFailures THEN [row EXCEPT !.failed = 0] ELSE [row EXCEPT !.failed = @ + 1]
WrongPassword(row) ==
  IF row.failed >= MaxFailures
  THEN [row EXCEPT !.failed = 0, !.locked_until = now + LockTime]
  ELSE [row EXCEPT !.failed = @ + 1]

\* An unknown, disabled or locked account: the password is not even looked at.
LoginRefused(u) ==
  /\ ~Open(u)
  /\ UNCHANGED vars

LoginDenied(u, p) ==
  /\ Open(u)
  /\ p # users[u].password
  /\ users' = [users EXCEPT ![u] = WrongPassword(@)]
  /\ guesses' = [guesses EXCEPT ![u] = @ + 1]
  /\ UNCHANGED <<sessions, drawn, pending, now>>

\* SessionRepository.create: dead rows go, a fresh token is stored.
Stored(s, u) ==
  [t \in Sids |->
     IF t = s THEN [user |-> u, expires |-> now + Ttl, revoked |-> FALSE,
                    password |-> users[u].password]
     ELSE IF sessions[t] # NoSession /\ (sessions[t].expires <= now \/ sessions[t].revoked)
          THEN NoSession ELSE sessions[t]]

Login(u, s) ==
  /\ Open(u)
  /\ s \notin drawn
  /\ users' = [users EXCEPT ![u].failed = 0, ![u].locked_until = 0]
  /\ sessions' = Stored(s, u)
  /\ drawn' = drawn \cup {s}
  /\ guesses' = [guesses EXCEPT ![u] = 0]
  /\ UNCHANGED <<pending, now>>

Logout(s) ==
  /\ sessions[s] # NoSession
  /\ sessions' = [sessions EXCEPT ![s].revoked = TRUE]
  /\ UNCHANGED <<users, drawn, pending, now, guesses>>

-----------------------------------------------------------------------------
(* User administration.                                                     *)

\* create_user, for a new name or, when replacing, over an existing row: the
\* lock of the account stays, its sessions go.
Upserted(e) ==
  [users EXCEPT ![e.user] =
     IF @ = NoUser THEN NewRow(e)
     ELSE [@ EXCEPT !.role = e.role, !.enabled = e.enabled, !.password = e.password]]

CreateUser(e) ==
  /\ AdminPresent /\ ~Known(e.user)
  /\ e.enabled
  /\ users' = Upserted(e)
  /\ UNCHANGED <<sessions, drawn, pending, now, guesses>>

\* set_enabled and set_role refuse when this was the last enabled administrator.
MayLoseAdmin(u) == IsEnabledAdmin(users[u]) => Cardinality(EnabledAdmins) > 1

DisableKeepingSessions(u) == \* Mutant: the sessions of the account are not revoked.
  /\ AdminPresent /\ Known(u) /\ MayLoseAdmin(u)
  /\ users' = [users EXCEPT ![u].enabled = FALSE]
  /\ UNCHANGED <<sessions, drawn, pending, now, guesses>>
Disable(u) ==
  /\ AdminPresent /\ Known(u) /\ MayLoseAdmin(u)
  /\ users' = [users EXCEPT ![u].enabled = FALSE]
  /\ sessions' = Revoked(u)
  /\ UNCHANGED <<drawn, pending, now, guesses>>

Enable(u) ==
  /\ AdminPresent /\ Known(u)
  /\ users' = [users EXCEPT ![u].enabled = TRUE]
  /\ UNCHANGED <<sessions, drawn, pending, now, guesses>>

SetRole(u, role) ==
  /\ AdminPresent /\ Known(u)
  /\ role # "admin" => MayLoseAdmin(u)
  /\ users' = [users EXCEPT ![u].role = role]
  /\ UNCHANGED <<sessions, drawn, pending, now, guesses>>

ResetPassword(u, p) ==
  /\ AdminPresent /\ Known(u)
  /\ users' = [users EXCEPT ![u].password = p, ![u].failed = 0, ![u].locked_until = 0]
  /\ sessions' = Revoked(u)
  /\ guesses' = [guesses EXCEPT ![u] = 0]
  /\ UNCHANGED <<drawn, pending, now>>

-----------------------------------------------------------------------------
(* Imports.  The file is checked as a whole against the table, then written *)
(* user by user, each in a transaction of its own.                          *)

\* The entry of the file that decides about u, or what the table says of it.
Prospect(file, u) ==
  LET mine == {i \in DOMAIN file : file[i].user = u}
  IN  IF mine = {} THEN users[u]
      ELSE file[CHOOSE i \in mine : \A j \in mine : j <= i]

LeavesSomeAdmin(file) == \E i \in DOMAIN file : file[i].role = "admin" \* Mutant: a disabled one will do.
LeavesAdmin(file) == \E u \in Users : IsEnabledAdmin(Prospect(file, u))

Import(file) ==
  /\ AdminPresent
  /\ LeavesAdmin(file)
  /\ pending' = file
  /\ UNCHANGED <<users, sessions, drawn, now, guesses>>

WriteKeepingSessions == \* Mutant: replacing a user leaves its sessions alone.
  /\ users' = Upserted(Head(pending))
  /\ pending' = Tail(pending)
  /\ UNCHANGED <<sessions, drawn, now, guesses>>
WriteNext ==
  /\ users' = Upserted(Head(pending))
  /\ sessions' = Revoked(Head(pending).user)
  /\ pending' = Tail(pending)
  /\ UNCHANGED <<drawn, now, guesses>>

\* The process dies, or the database refuses a transaction: what is committed stays.
Abort ==
  /\ pending' = <<>>
  /\ UNCHANGED <<users, sessions, drawn, now, guesses>>

-----------------------------------------------------------------------------
\* The clock.  An account whose lock ends is open for guesses again.
Tick ==
  /\ now < MaxTime
  /\ now' = now + 1
  /\ guesses' = [u \in Users |-> IF Locked(u) /\ users[u].locked_until = now + 1
                                 THEN 0 ELSE guesses[u]]
  /\ UNCHANGED <<users, sessions, drawn, pending>>

Request ==
  \/ Bootstrap
  \/ \E u \in Users, p \in Passwords :
       CreateInitialAdmin(u, p) \/ LoginDenied(u, p) \/ ResetPassword(u, p)
  \/ \E u \in Users, s \in Sids : Login(u, s)
  \/ \E s \in Sids : Logout(s)
  \/ \E e \in Entry : CreateUser(e)
  \/ \E u \in Users : LoginRefused(u) \/ Disable(u) \/ Enable(u)
  \/ \E u \in Users, role \in Roles : SetRole(u, role)
  \/ \E file \in Imports : Import(file)
  \/ Tick

Next ==
  \/ pending = <<>> /\ Request
  \/ pending # <<>> /\ (WriteNext \/ Abort)

Spec == Init /\ [][Next]_vars

-----------------------------------------------------------------------------
(* Properties.                                                              *)

\* Whoever holds a live session knew the password the account has now: a reset
\* or an import that changes it ends every session begun before.
LiveSessionsKnowPassword ==
  \A s \in Sids : Live(s) => sessions[s].password = users[sessions[s].user].password

\* A session that has ended, for whatever reason, stays ended: also when its
\* account is disabled and enabled again.
EndedSessionsStayEnded ==
  [][\A s \in drawn : ~Live(s) => ~Live(s)']_vars

\* Between two moments at which an account is opened (a login, a reset, the end
\* of a lock) at most MaxFailures + 1 wrong passwords are tried against it,
\* whatever is done to the account meanwhile.
GuessesAreBounded == \A u \in Users : guesses[u] <= MaxFailures + 1

\* No request but an import that is broken off takes the last enabled
\* administrator: not disabling, demoting, nor a whole import or bootstrap.
AdminRemains ==
  [][/\ pending = <<>> /\ EnabledAdmins # {} => EnabledAdmins' # {}
     /\ Len(pending) = 1 /\ WriteNext => EnabledAdmins' # {}]_vars

\* import_users: "Import must leave at least one enabled administrator."
ImportLeavesAdmin ==
  pending = <<>> /\ (\E u \in Users : Known(u)) => EnabledAdmins # {}
=============================================================================
