-------------------------- MODULE AuthStoreProofs --------------------------
(***************************************************************************)
(* Proofs about AuthStore, for every number of accounts, tokens, passwords   *)
(* and import files: the types, what a live session shows about its account, *)
(* that a session once ended stays ended, and how often a password can be    *)
(* guessed.                                                                  *)
(***************************************************************************)
EXTENDS AuthStore, FiniteSetTheorems, WellFoundedInduction, TLAPS

-----------------------------------------------------------------------------
(* Rows.  Each lemma says what one way of writing a row leaves of it.         *)

\* A row of the users table is not the absence of one, and says who it is.
LEMMA RowIsKnown ==
  ASSUME NEW r \in UserType
  PROVE  r # NoUser
<1>1. r.role \in {"admin", "viewer"}
  BY DEF UserType, Roles
<1>2. NoUser.role = "none"
  BY DEF NoUser
<1>3. QED
  BY <1>1, <1>2

\* A stored session is not the absence of one.
LEMMA SessionIsThere ==
  ASSUME NEW r \in SessionType
  PROVE  r # NoSession
<1>1. "expires" \in DOMAIN r
  BY DEF SessionType
<1>2. DOMAIN NoSession = {"user"}
  BY DEF NoSession
<1>3. QED
  BY <1>1, <1>2

\* A new account counts no failures and is not locked.
LEMMA NewRowOK ==
  ASSUME NEW role \in Roles, NEW on \in BOOLEAN, NEW p \in Passwords,
         NEW e, e.role = role, e.enabled = on, e.password = p
  PROVE  /\ NewRow(e) \in UserType
         /\ NewRow(e).failed = 0 /\ NewRow(e).locked_until = 0
         /\ NewRow(e).role = role /\ NewRow(e).enabled = on /\ NewRow(e).password = p
BY LimitAssumption, TimeAssumption DEF NewRow, UserType

\* A wrong password is counted, or locks the account and restarts the count.
LEMMA WrongPasswordOK ==
  ASSUME NEW r \in UserType, now \in 0..MaxTime
  PROVE  LET w == WrongPassword(r) IN
         /\ w \in UserType
         /\ w.role = r.role /\ w.enabled = r.enabled /\ w.password = r.password
         /\ \/ w.failed = r.failed + 1 /\ w.locked_until = r.locked_until
            \/ r.failed = MaxFailures /\ w.locked_until = now + LockTime
<1>1. r.failed \in 0..MaxFailures /\ now + LockTime \in 0..MaxTime + LockTime
  BY LimitAssumption, TimeAssumption DEF UserType
<1> DEFINE locked == [r EXCEPT !.failed = 0, !.locked_until = now + LockTime]
           counted == [r EXCEPT !.failed = r.failed + 1]
<1>2. CASE r.failed >= MaxFailures
  <2>1. WrongPassword(r) = locked
    BY <1>2 DEF WrongPassword
  <2>2. locked \in UserType
    <3>1. 0 \in 0..MaxFailures
      BY LimitAssumption
    <3>2. \A until \in 0..MaxTime + LockTime :
            [r EXCEPT !.failed = 0, !.locked_until = until] \in UserType
      BY <3>1, Zenon DEF UserType
    <3>3. QED
      BY <1>1, <3>2
  <2>3. /\ locked.role = r.role /\ locked.enabled = r.enabled /\ locked.password = r.password
        /\ locked.locked_until = now + LockTime
    BY DEF UserType
  <2>4. r.failed = MaxFailures
    BY <1>1, <1>2, LimitAssumption
  <2> HIDE DEF locked
  <2>5. QED
    BY <2>1, <2>2, <2>3, <2>4
<1>3. CASE ~(r.failed >= MaxFailures)
  <2>1. WrongPassword(r) = counted
    BY <1>3 DEF WrongPassword
  <2>2. counted \in UserType
    <3>1. r.failed + 1 \in 0..MaxFailures
      BY <1>1, <1>3, LimitAssumption
    <3>2. QED
      BY <3>1 DEF UserType
  <2>3. /\ counted.role = r.role /\ counted.enabled = r.enabled
        /\ counted.password = r.password
        /\ counted.failed = r.failed + 1 /\ counted.locked_until = r.locked_until
    BY DEF UserType
  <2> HIDE DEF counted
  <2>4. QED
    BY <2>1, <2>2, <2>3
<1>4. QED
  BY <1>2, <1>3

\* A login, like a reset, forgets failures and lock.
LEMMA ClearedOK ==
  ASSUME NEW r \in UserType, NEW p \in Passwords
  PROVE  /\ [r EXCEPT !.failed = 0, !.locked_until = 0] \in UserType
         /\ [r EXCEPT !.password = p, !.failed = 0, !.locked_until = 0] \in UserType
<1>1. 0 \in 0..MaxFailures /\ 0 \in 0..MaxTime + LockTime
  BY LimitAssumption, TimeAssumption
<1>2. \A f \in 0..MaxFailures, until \in 0..MaxTime + LockTime :
        /\ [r EXCEPT !.failed = f, !.locked_until = until] \in UserType
        /\ [r EXCEPT !.password = p, !.failed = f, !.locked_until = until] \in UserType
  BY DEF UserType
<1>3. QED
  BY <1>1, <1>2

\* Writing an entry over a row keeps what is known about failures.
LEMMA OverwrittenOK ==
  ASSUME NEW r \in UserType, NEW e \in Entry
  PROVE  LET w == [r EXCEPT !.role = e.role, !.enabled = e.enabled, !.password = e.password]
         IN  /\ w \in UserType
             /\ w.failed = r.failed /\ w.locked_until = r.locked_until
             /\ w.role = e.role /\ w.enabled = e.enabled /\ w.password = e.password
BY DEF UserType, Entry

-----------------------------------------------------------------------------
(* Tables.  What each way of writing the users or the sessions does to them.  *)

UserTable == [Users -> UserType \cup {NoUser}]
SessionTable == [Sids -> SessionType \cup {NoSession}]

\* create_user writes one account and no other.
LEMMA UpsertedOK ==
  ASSUME users \in UserTable, NEW e \in Entry
  PROVE  LET w == Upserted(e)[e.user] IN
         /\ Upserted(e) \in UserTable
         /\ w \in UserType
         /\ w.role = e.role /\ w.enabled = e.enabled /\ w.password = e.password
         /\ IF users[e.user] = NoUser THEN w.failed = 0 /\ w.locked_until = 0
            ELSE w.failed = users[e.user].failed /\ w.locked_until = users[e.user].locked_until
         /\ \A v \in Users : v # e.user => Upserted(e)[v] = users[v]
<1> DEFINE r == users[e.user]
           over == [r EXCEPT !.role = e.role, !.enabled = e.enabled, !.password = e.password]
           w == IF r = NoUser THEN NewRow(e) ELSE over
<1>1. e.user \in Users /\ e.role \in Roles /\ e.enabled \in BOOLEAN /\ e.password \in Passwords
  BY DEF Entry
<1>2. Upserted(e) = [users EXCEPT ![e.user] = w]
  BY <1>1 DEF Upserted, UserTable
<1>3. /\ w \in UserType
      /\ w.role = e.role /\ w.enabled = e.enabled /\ w.password = e.password
      /\ IF r = NoUser THEN w.failed = 0 /\ w.locked_until = 0
         ELSE w.failed = r.failed /\ w.locked_until = r.locked_until
  <2>1. CASE r = NoUser
    BY <1>1, <2>1, NewRowOK
  <2>2. CASE r # NoUser
    <3>1. r \in UserType
      BY <1>1, <2>2 DEF UserTable
    <3>2. w = over
      BY <2>2
    <3> HIDE DEF w
    <3>3. QED
      BY <2>2, <3>1, <3>2, OverwrittenOK
  <2>3. QED
    BY <2>1, <2>2
<1> HIDE DEF w
<1>4. Upserted(e)[e.user] = w
  BY <1>1, <1>2 DEF UserTable
<1>5. Upserted(e) \in UserTable /\ \A v \in Users : v # e.user => Upserted(e)[v] = users[v]
  BY <1>1, <1>2, <1>3 DEF UserTable
<1>6. QED
  BY <1>3, <1>4, <1>5

\* Writing one row keeps the table typed and leaves the other rows.
LEMMA RowWritten ==
  ASSUME users \in UserTable, NEW u \in Users, NEW w \in UserType,
         users' = [users EXCEPT ![u] = w]
  PROVE  users' \in UserTable /\ users'[u] = w /\ \A v \in Users : v # u => users'[v] = users[v]
BY DEF UserTable

\* Enabling or disabling an account changes nothing else about it.
LEMMA EnabledWritten ==
  ASSUME users \in UserTable, NEW u \in Users, Known(u), NEW b \in BOOLEAN,
         users' = [users EXCEPT ![u].enabled = b]
  PROVE  /\ users' \in UserTable
         /\ users'[u] \in UserType /\ users'[u].enabled = b
         /\ users'[u].role = users[u].role /\ users'[u].password = users[u].password
         /\ users'[u].failed = users[u].failed /\ users'[u].locked_until = users[u].locked_until
         /\ \A v \in Users : v # u => users'[v] = users[v]
<1> DEFINE w == [users[u] EXCEPT !.enabled = b]
<1>1. users[u] \in UserType
  BY DEF Known, UserTable
<1>2. /\ w \in UserType /\ w.enabled = b
      /\ w.role = users[u].role /\ w.password = users[u].password
      /\ w.failed = users[u].failed /\ w.locked_until = users[u].locked_until
  BY <1>1 DEF UserType
<1>3. users' = [users EXCEPT ![u] = w]
  OBVIOUS
<1> HIDE DEF w
<1>4. QED
  BY <1>2, <1>3, RowWritten

\* Changing a role changes nothing else about the account.
LEMMA RoleWritten ==
  ASSUME users \in UserTable, NEW u \in Users, Known(u), NEW role \in Roles,
         users' = [users EXCEPT ![u].role = role]
  PROVE  /\ users' \in UserTable
         /\ users'[u] \in UserType /\ users'[u].role = role
         /\ users'[u].enabled = users[u].enabled /\ users'[u].password = users[u].password
         /\ users'[u].failed = users[u].failed /\ users'[u].locked_until = users[u].locked_until
         /\ \A v \in Users : v # u => users'[v] = users[v]
<1> DEFINE w == [users[u] EXCEPT !.role = role]
<1>1. users[u] \in UserType
  BY DEF Known, UserTable
<1>2. /\ w \in UserType /\ w.role = role
      /\ w.enabled = users[u].enabled /\ w.password = users[u].password
      /\ w.failed = users[u].failed /\ w.locked_until = users[u].locked_until
  BY <1>1 DEF UserType
<1>3. users' = [users EXCEPT ![u] = w]
  OBVIOUS
<1> HIDE DEF w
<1>4. QED
  BY <1>2, <1>3, RowWritten

\* Revoking the sessions of an account ends all of them and touches no other.
LEMMA RevokedOK ==
  ASSUME sessions \in SessionTable, NEW u \in Users
  PROVE  /\ Revoked(u) \in SessionTable
         /\ \A s \in Sids :
              /\ Revoked(u)[s] = NoSession <=> sessions[s] = NoSession
              /\ Revoked(u)[s] # NoSession /\ ~Revoked(u)[s].revoked =>
                   Revoked(u)[s] = sessions[s] /\ sessions[s].user # u
<1>1. ASSUME NEW s \in Sids
      PROVE  /\ Revoked(u)[s] \in SessionType \cup {NoSession}
             /\ Revoked(u)[s] = NoSession <=> sessions[s] = NoSession
             /\ Revoked(u)[s] # NoSession /\ ~Revoked(u)[s].revoked =>
                  Revoked(u)[s] = sessions[s] /\ sessions[s].user # u
  <2> DEFINE w == [sessions[s] EXCEPT !.revoked = TRUE]
  <2>1. CASE sessions[s] # NoSession /\ sessions[s].user = u
    <3>1. sessions[s] \in SessionType
      BY <2>1 DEF SessionTable
    <3>2. w \in SessionType /\ w.revoked
      BY <3>1 DEF SessionType
    <3>3. Revoked(u)[s] = w
      BY <2>1 DEF Revoked
    <3> HIDE DEF w
    <3>4. QED
      BY <2>1, <3>2, <3>3, SessionIsThere
  <2>2. CASE ~(sessions[s] # NoSession /\ sessions[s].user = u)
    <3>1. Revoked(u)[s] = sessions[s]
      BY <2>2 DEF Revoked
    <3>2. QED
      BY <2>2, <3>1 DEF SessionTable
  <2>3. QED
    BY <2>1, <2>2
<1>2. Revoked(u) = [s \in Sids |-> Revoked(u)[s]]
  BY DEF Revoked
<1>3. QED
  BY <1>1, <1>2 DEF SessionTable

\* A login stores its session and otherwise only drops dead ones.
LEMMA StoredOK ==
  ASSUME sessions \in SessionTable, now \in 0..MaxTime,
         NEW s \in Sids, NEW u \in Users, users[u] \in UserType
  PROVE  /\ Stored(s, u) \in SessionTable
         /\ Stored(s, u)[s].user = u /\ Stored(s, u)[s].password = users[u].password
         /\ \A t \in Sids : t # s => Stored(s, u)[t] \in {sessions[t], NoSession}
<1> DEFINE w == [user |-> u, expires |-> now + Ttl, revoked |-> FALSE,
                 password |-> users[u].password]
<1>1. w \in SessionType /\ w.user = u /\ w.password = users[u].password
  <2>1. now + Ttl \in 1..MaxTime + Ttl
    BY TimeAssumption
  <2>2. users[u].password \in Passwords
    BY DEF UserType
  <2>3. QED
    BY <2>1, <2>2 DEF SessionType
<1>2. Stored(s, u)[s] = w
  BY DEF Stored
<1> HIDE DEF w
<1>3. ASSUME NEW t \in Sids, t # s PROVE Stored(s, u)[t] \in {sessions[t], NoSession}
  BY <1>3 DEF Stored
<1>4. \A t \in Sids : Stored(s, u)[t] \in SessionType \cup {NoSession}
  BY <1>1, <1>2, <1>3 DEF SessionTable
<1>5. Stored(s, u) = [t \in Sids |-> Stored(s, u)[t]]
  BY DEF Stored
<1>6. QED
  BY <1>1, <1>2, <1>3, <1>4, <1>5 DEF SessionTable

-----------------------------------------------------------------------------
(* Types.                                                                    *)

\* A wrong password, a login and a reset each write one typed row.
LEMMA DeniedWrites ==
  ASSUME TypeOK, NEW u \in Users, NEW p \in Passwords, LoginDenied(u, p)
  PROVE  /\ users' \in UserTable /\ users'[u] \in UserType
         /\ users'[u].enabled = users[u].enabled /\ users'[u].password = users[u].password
         /\ users'[u].role = users[u].role
         /\ \/ users'[u].failed = users[u].failed + 1
               /\ users'[u].locked_until = users[u].locked_until
            \/ users[u].failed = MaxFailures /\ users'[u].locked_until = now + LockTime
         /\ \A v \in Users : v # u => users'[v] = users[v]
<1> DEFINE w == WrongPassword(users[u])
<1>1. users \in UserTable /\ users[u] \in UserType /\ now \in 0..MaxTime
  BY DEF LoginDenied, Open, Known, TypeOK, UserTable
<1>2. /\ w \in UserType
      /\ w.role = users[u].role /\ w.enabled = users[u].enabled /\ w.password = users[u].password
      /\ \/ w.failed = users[u].failed + 1 /\ w.locked_until = users[u].locked_until
         \/ users[u].failed = MaxFailures /\ w.locked_until = now + LockTime
  BY <1>1, WrongPasswordOK
<1>3. users' = [users EXCEPT ![u] = w]
  BY DEF LoginDenied
<1> HIDE DEF w
<1>4. QED
  BY <1>1, <1>2, <1>3, RowWritten

\* A login forgets failures and lock and nothing else.
LEMMA LoginWrites ==
  ASSUME TypeOK, NEW u \in Users, NEW s \in Sids, Login(u, s)
  PROVE  /\ users' \in UserTable /\ users'[u] \in UserType /\ users[u] \in UserType
         /\ users'[u].enabled = users[u].enabled /\ users'[u].password = users[u].password
         /\ users'[u].role = users[u].role
         /\ \A v \in Users : v # u => users'[v] = users[v]
<1> DEFINE w == [users[u] EXCEPT !.failed = 0, !.locked_until = 0]
<1>1. users \in UserTable /\ users[u] \in UserType
  BY DEF Login, Open, Known, TypeOK, UserTable
<1>2. users[u].password \in Passwords
  BY <1>1 DEF UserType
<1>3. w \in UserType
  BY <1>1, <1>2, ClearedOK
<1>4. /\ w.role = users[u].role /\ w.enabled = users[u].enabled
      /\ w.password = users[u].password
  BY <1>1 DEF UserType
<1>5. users' = [users EXCEPT ![u] = w]
  BY <1>1 DEF Login, UserTable
<1> HIDE DEF w
<1>6. QED
  BY <1>1, <1>3, <1>4, <1>5, RowWritten

\* A reset sets the password and forgets failures and lock.
LEMMA ResetWrites ==
  ASSUME TypeOK, NEW u \in Users, NEW p \in Passwords, ResetPassword(u, p)
  PROVE  /\ users' \in UserTable /\ users'[u] \in UserType
         /\ users'[u].enabled = users[u].enabled /\ users'[u].role = users[u].role
         /\ \A v \in Users : v # u => users'[v] = users[v]
<1> DEFINE w == [users[u] EXCEPT !.password = p, !.failed = 0, !.locked_until = 0]
<1>1. users \in UserTable /\ users[u] \in UserType
  BY DEF ResetPassword, Known, TypeOK, UserTable
<1>2. w \in UserType
  BY <1>1, ClearedOK
<1>3. w.role = users[u].role /\ w.enabled = users[u].enabled
  BY <1>1 DEF UserType
<1>4. users' = [users EXCEPT ![u] = w]
  BY <1>1 DEF ResetPassword, UserTable
<1> HIDE DEF w
<1>5. QED
  BY <1>1, <1>2, <1>3, <1>4, RowWritten

\* The one-time administrator is the only account, enabled.
LEMMA InitialWrites ==
  ASSUME TypeOK, NEW u \in Users, NEW p \in Passwords, CreateInitialAdmin(u, p)
  PROVE  /\ users' \in UserTable /\ users'[u] \in UserType
         /\ IsEnabledAdmin(users'[u])
         /\ users[u] = NoUser
         /\ \A v \in Users : v # u => users'[v] = users[v]
<1> DEFINE e == [role |-> "admin", enabled |-> TRUE, password |-> p]
           w == NewRow(e)
<1>1. w \in UserType /\ w.role = "admin" /\ w.enabled = TRUE
  <2>1. e.role = "admin" /\ e.enabled = TRUE /\ e.password = p /\ "admin" \in Roles
    BY DEF Roles
  <2> HIDE DEF e
  <2>2. QED
    BY <2>1, NewRowOK
<1>2. users \in UserTable /\ users' = [users EXCEPT ![u] = w] /\ users[u] = NoUser
  BY DEF CreateInitialAdmin, TypeOK, UserTable, Known
<1> HIDE DEF w
<1>3. users' \in UserTable /\ users'[u] = w /\ \A v \in Users : v # u => users'[v] = users[v]
  BY <1>1, <1>2, RowWritten
<1>4. IsEnabledAdmin(w)
  BY <1>1, RowIsKnown DEF IsEnabledAdmin
<1>5. QED
  BY <1>1, <1>2, <1>3, <1>4

\* Writing the next user of an import.
LEMMA NextWrites ==
  ASSUME TypeOK, pending # <<>>
  PROVE  Head(pending) \in Entry /\ Head(pending).user \in Users /\ Tail(pending) \in Seq(Entry)
<1>1. pending \in Seq(Entry)
  BY DEF TypeOK
<1>2. Head(pending) \in Entry /\ Tail(pending) \in Seq(Entry)
  BY <1>1
<1>3. QED
  BY <1>2 DEF Entry

\* The tables stay typed: every action writes typed rows.
LEMMA TablesTyped ==
  ASSUME TypeOK, Next
  PROVE  users' \in UserTable /\ sessions' \in SessionTable /\ drawn \subseteq drawn'
         /\ drawn' \subseteq Sids
         /\ \A s \in Sids : sessions'[s] # NoSession => s \in drawn'
<1>0. /\ users \in UserTable /\ sessions \in SessionTable /\ drawn \subseteq Sids
      /\ now \in 0..MaxTime
      /\ \A s \in Sids : sessions[s] # NoSession => s \in drawn
  BY DEF TypeOK, UserTable, SessionTable
<1> DEFINE Goal == /\ users' \in UserTable /\ sessions' \in SessionTable /\ drawn \subseteq drawn'
                   /\ drawn' \subseteq Sids
                   /\ \A s \in Sids : sessions'[s] # NoSession => s \in drawn'
<1>1. ASSUME NEW u \in Users, sessions' = Revoked(u), users' \in UserTable, UNCHANGED drawn
      PROVE  Goal
  <2>1. /\ sessions' \in SessionTable
        /\ \A s \in Sids : sessions'[s] = NoSession <=> sessions[s] = NoSession
    BY <1>0, <1>1, RevokedOK
  <2>2. QED
    BY <1>0, <1>1, <2>1
<1>2. ASSUME UNCHANGED <<sessions, drawn>>, users' \in UserTable PROVE Goal
  BY <1>0, <1>2
<1> HIDE DEF Goal
<1>3. ASSUME NEW u \in Users, NEW p \in Passwords, CreateInitialAdmin(u, p) PROVE Goal
  BY <1>2, <1>3, InitialWrites DEF CreateInitialAdmin
<1>4. ASSUME NEW u \in Users, NEW p \in Passwords, LoginDenied(u, p) PROVE Goal
  BY <1>2, <1>4, DeniedWrites DEF LoginDenied
<1>5. ASSUME NEW u \in Users, NEW p \in Passwords, ResetPassword(u, p) PROVE Goal
  BY <1>1, <1>5, ResetWrites DEF ResetPassword
<1>6. ASSUME NEW u \in Users, NEW s \in Sids, Login(u, s) PROVE Goal
  <2>1. users[u] \in UserType /\ users' \in UserTable
    BY <1>6, LoginWrites
  <2>2. sessions' = Stored(s, u) /\ drawn' = drawn \cup {s}
    BY <1>6 DEF Login
  <2>3. QED
    BY <1>0, <2>1, <2>2, StoredOK DEF Goal
<1>7. ASSUME NEW s \in Sids, Logout(s) PROVE Goal
  <2> DEFINE w == [sessions[s] EXCEPT !.revoked = TRUE]
  <2>1. sessions[s] \in SessionType
    BY <1>0, <1>7 DEF Logout, SessionTable
  <2>2. w \in SessionType
    BY <2>1 DEF SessionType
  <2>3. sessions' = [sessions EXCEPT ![s] = w] /\ UNCHANGED <<users, drawn>> /\ s \in drawn
    BY <1>0, <1>7 DEF Logout
  <2> HIDE DEF w
  <2>4. QED
    BY <1>0, <2>2, <2>3 DEF Goal, SessionTable
<1>8. ASSUME NEW e \in Entry, CreateUser(e) PROVE Goal
  BY <1>0, <1>2, <1>8, UpsertedOK DEF CreateUser
<1>9. ASSUME NEW u \in Users, Disable(u) PROVE Goal
  <2>1. Known(u) /\ users' = [users EXCEPT ![u].enabled = FALSE]
        /\ sessions' = Revoked(u) /\ UNCHANGED drawn
    BY <1>9 DEF Disable
  <2>2. users' \in UserTable
    BY <1>0, <2>1, EnabledWritten
  <2>3. QED
    BY <1>1, <2>1, <2>2
<1>10. ASSUME NEW u \in Users, Enable(u) PROVE Goal
  <2>1. Known(u) /\ users' = [users EXCEPT ![u].enabled = TRUE] /\ UNCHANGED <<sessions, drawn>>
    BY <1>10 DEF Enable
  <2>2. users' \in UserTable
    BY <1>0, <2>1, EnabledWritten
  <2>3. QED
    BY <1>2, <2>1, <2>2
<1>11. ASSUME NEW u \in Users, NEW role \in Roles, SetRole(u, role) PROVE Goal
  <2>1. Known(u) /\ users' = [users EXCEPT ![u].role = role] /\ UNCHANGED <<sessions, drawn>>
    BY <1>11 DEF SetRole
  <2>2. users' \in UserTable
    BY <1>0, <2>1, RoleWritten
  <2>3. QED
    BY <1>2, <2>1, <2>2
<1>12. ASSUME pending # <<>>, WriteNext PROVE Goal
  <2>1. Head(pending) \in Entry /\ Head(pending).user \in Users
    BY <1>12, NextWrites
  <2>2. users' = Upserted(Head(pending)) /\ sessions' = Revoked(Head(pending).user)
        /\ UNCHANGED drawn
    BY <1>12 DEF WriteNext
  <2>3. users' \in UserTable
    BY <1>0, <2>1, <2>2, UpsertedOK
  <2>4. QED
    BY <1>1, <2>1, <2>2, <2>3
<1>13. ASSUME UNCHANGED <<users, sessions, drawn>> PROVE Goal
  BY <1>0, <1>2, <1>13
<1>14. Goal
  BY <1>3, <1>4, <1>5, <1>6, <1>7, <1>8, <1>9, <1>10, <1>11, <1>12, <1>13
     DEF Next, Request, Bootstrap, LoginRefused, Import, Tick, Abort, vars
<1>15. QED
  BY <1>14 DEF Goal

\* Every reachable state is typed.
THEOREM TypeCorrect == Spec => []TypeOK
<1>1. Init => TypeOK
  <2> SUFFICES ASSUME Init PROVE TypeOK
    OBVIOUS
  <2>1. users \in UserTable /\ sessions \in SessionTable
    BY DEF Init, UserTable, SessionTable
  <2>2. QED
    BY <2>1, TimeAssumption DEF Init, TypeOK, UserTable, SessionTable
<1>2. TypeOK /\ [Next]_vars => TypeOK'
  <2> SUFFICES ASSUME TypeOK, [Next]_vars PROVE TypeOK'
    OBVIOUS
  <2>1. CASE UNCHANGED vars
    BY <2>1 DEF TypeOK, vars
  <2>2. CASE Next
    <3>1. pending' \in Seq(Entry)
      <4>1. pending' \in {pending, BootUsers, <<>>} \/ pending' \in Imports
            \/ (pending # <<>> /\ pending' = Tail(pending))
        BY <2>2 DEF Next, Request, Bootstrap, CreateInitialAdmin, LoginDenied, ResetPassword,
             Login, Logout, CreateUser, LoginRefused, Disable, Enable, SetRole, Import, Tick,
             WriteNext, Abort, vars
      <4>2. pending \in Seq(Entry) /\ BootUsers \in Seq(Entry) /\ Imports \subseteq Seq(Entry)
        BY FilesAssumption DEF TypeOK
      <4>3. CASE pending # <<>> /\ pending' = Tail(pending)
        BY <4>3, NextWrites
      <4>4. <<>> \in Seq(Entry)
        OBVIOUS
      <4>5. QED
        BY <4>1, <4>2, <4>3, <4>4
    <3>2. now' \in 0..MaxTime
      <4>1. now' = now \/ Tick
        BY <2>2 DEF Next, Request, Bootstrap, CreateInitialAdmin, LoginDenied, ResetPassword,
             Login, Logout, CreateUser, LoginRefused, Disable, Enable, SetRole, Import,
             WriteNext, Abort, vars
      <4>2. QED
        BY <4>1, TimeAssumption DEF TypeOK, Tick
    <3>3. guesses' \in [Users -> Nat]
      <4>1. guesses \in [Users -> Nat]
        BY DEF TypeOK
      <4>2. \/ guesses' = guesses
            \/ \E u \in Users : guesses' = [guesses EXCEPT ![u] = @ + 1]
            \/ \E u \in Users : guesses' = [guesses EXCEPT ![u] = 0]
            \/ guesses' = [u \in Users |-> IF Locked(u) /\ users[u].locked_until = now + 1
                                           THEN 0 ELSE guesses[u]]
        BY <2>2 DEF Next, Request, Bootstrap, CreateInitialAdmin, LoginDenied, ResetPassword,
             Login, Logout, CreateUser, LoginRefused, Disable, Enable, SetRole, Import, Tick,
             WriteNext, Abort, vars
      <4>3. QED
        BY <4>1, <4>2
    <3>4. QED
      BY <2>2, <3>1, <3>2, <3>3, TablesTyped DEF TypeOK, UserTable, SessionTable
  <2>3. QED
    BY <2>1, <2>2
<1>3. QED
  BY <1>1, <1>2, PTL DEF Spec

-----------------------------------------------------------------------------
(* Sessions and passwords.                                                   *)

\* What holds of a session that was not revoked, expired or not.
Matches(s) ==
  sessions[s] # NoSession /\ ~sessions[s].revoked =>
    LET row == users[sessions[s].user]
    IN  row # NoUser /\ row.enabled /\ row.password = sessions[s].password

\* The strengthening of LiveSessionsKnowPassword: its induction cannot look at the
\* clock, and a disabled account must have no session that enabling would revive.
SessionsMatch == \A s \in Sids : Matches(s)

\* Revoking with the row it belongs to rewritten keeps sessions and accounts together.
LEMMA RevokingMatches ==
  ASSUME TypeOK, SessionsMatch, NEW u \in Users, sessions' = Revoked(u),
         \A v \in Users : v # u => users'[v] = users[v]
  PROVE  /\ SessionsMatch'
         /\ \A s \in Sids : sessions'[s] # NoSession /\ ~sessions'[s].revoked =>
              sessions'[s] = sessions[s] /\ Matches(s)
<1> SUFFICES ASSUME NEW s \in Sids, sessions'[s] # NoSession, ~sessions'[s].revoked
             PROVE  sessions'[s] = sessions[s] /\ Matches(s) /\ Matches(s)'
  BY DEF SessionsMatch, Matches
<1>1. sessions \in SessionTable
  BY DEF TypeOK, SessionTable
<1>2. sessions'[s] = sessions[s] /\ sessions[s].user # u
  BY <1>1, RevokedOK
<1>3. sessions[s].user \in Users
  BY <1>1, <1>2 DEF SessionTable, SessionType
<1>4. users'[sessions[s].user] = users[sessions[s].user]
  BY <1>2, <1>3
<1>5. QED
  BY <1>2, <1>4 DEF SessionsMatch, Matches

\* Where sessions stay as they are it is enough that accounts in use keep being
\* enabled, and keep their password.
LEMMA KeepingMatches ==
  ASSUME TypeOK, SessionsMatch, sessions' = sessions,
         \A v \in Users : users[v] # NoUser /\ users[v].enabled =>
           users'[v] # NoUser /\ users'[v].enabled /\ users'[v].password = users[v].password
  PROVE  SessionsMatch'
<1> SUFFICES ASSUME NEW s \in Sids, sessions[s] # NoSession, ~sessions[s].revoked
             PROVE  Matches(s)'
  BY DEF SessionsMatch, Matches
<1>1. sessions[s].user \in Users
  BY DEF TypeOK, SessionType
<1>2. QED
  BY <1>1 DEF SessionsMatch, Matches

\* One step: sessions keep matching their accounts, and every session of a token
\* drawn before that is unrevoked after the step was there, unrevoked, before it.
LEMMA SessionStep ==
  ASSUME TypeOK, SessionsMatch, Next
  PROVE  /\ SessionsMatch'
         /\ \A s \in drawn : sessions'[s] # NoSession /\ ~sessions'[s].revoked =>
              sessions'[s] = sessions[s]
<1> DEFINE Old == \A s \in drawn : sessions'[s] # NoSession /\ ~sessions'[s].revoked =>
                    sessions'[s] = sessions[s]
           Goal == SessionsMatch' /\ Old
<1>0. /\ users \in UserTable /\ sessions \in SessionTable /\ drawn \subseteq Sids
      /\ now \in 0..MaxTime
  BY DEF TypeOK, UserTable, SessionTable
<1>1. ASSUME NEW u \in Users, sessions' = Revoked(u),
             \A v \in Users : v # u => users'[v] = users[v]
      PROVE  Goal
  BY <1>0, <1>1, RevokingMatches
<1>2. ASSUME sessions' = sessions,
             \A v \in Users : users[v] # NoUser /\ users[v].enabled =>
               users'[v] # NoUser /\ users'[v].enabled /\ users'[v].password = users[v].password
      PROVE  Goal
  BY <1>2, KeepingMatches
<1> HIDE DEF Goal
<1>3. ASSUME NEW u \in Users, NEW p \in Passwords, CreateInitialAdmin(u, p) PROVE Goal
  <2>1. sessions' = sessions /\ \A v \in Users : users[v] = NoUser
    BY <1>3 DEF CreateInitialAdmin, Known
  <2>2. QED
    BY <1>2, <2>1
<1>4. ASSUME NEW u \in Users, NEW p \in Passwords, LoginDenied(u, p) PROVE Goal
  <2>1. users'[u] \in UserType /\ users'[u].enabled = users[u].enabled
        /\ users'[u].password = users[u].password
        /\ \A v \in Users : v # u => users'[v] = users[v]
    BY <1>4, DeniedWrites
  <2>2. sessions' = sessions
    BY <1>4 DEF LoginDenied
  <2>3. QED
    BY <1>2, <2>1, <2>2, RowIsKnown
<1>5. ASSUME NEW u \in Users, NEW p \in Passwords, ResetPassword(u, p) PROVE Goal
  BY <1>1, <1>5, ResetWrites DEF ResetPassword
<1>6. ASSUME NEW u \in Users, NEW n \in Sids, Login(u, n) PROVE Goal
  <2>1. /\ users[u] \in UserType /\ users'[u] \in UserType
        /\ users'[u].enabled = users[u].enabled /\ users'[u].password = users[u].password
        /\ \A v \in Users : v # u => users'[v] = users[v]
    BY <1>6, LoginWrites
  <2>2. sessions' = Stored(n, u) /\ n \notin drawn /\ users[u].enabled
    BY <1>6 DEF Login, Open
  <2>3. /\ sessions'[n].user = u /\ sessions'[n].password = users[u].password
        /\ \A t \in Sids : t # n => sessions'[t] \in {sessions[t], NoSession}
    BY <1>0, <2>1, <2>2, StoredOK
  <2>4. Matches(n)'
    BY <2>1, <2>2, <2>3, RowIsKnown DEF Matches
  <2>5. ASSUME NEW s \in Sids, s # n PROVE Matches(s)'
    <3>1. CASE sessions'[s] = NoSession
      BY <3>1 DEF Matches
    <3>2. CASE sessions'[s] = sessions[s] /\ sessions[s] # NoSession
      <4>1. sessions[s].user \in Users
        BY <1>0, <3>2 DEF SessionTable, SessionType
      <4>2. users[sessions[s].user] # NoUser /\ users[sessions[s].user].enabled =>
              /\ users'[sessions[s].user] # NoUser /\ users'[sessions[s].user].enabled
              /\ users'[sessions[s].user].password = users[sessions[s].user].password
        BY <2>1, <4>1, RowIsKnown
      <4>3. QED
        BY <3>2, <4>1, <4>2 DEF SessionsMatch, Matches
    <3>3. QED
      BY <2>3, <2>5, <3>1, <3>2
  <2>6. Old
    BY <1>0, <2>2, <2>3
  <2>7. QED
    BY <2>4, <2>5, <2>6 DEF Goal, SessionsMatch
<1>7. ASSUME NEW n \in Sids, Logout(n) PROVE Goal
  <2> DEFINE w == [sessions[n] EXCEPT !.revoked = TRUE]
  <2>1. sessions[n] \in SessionType
    BY <1>0, <1>7 DEF Logout, SessionTable
  <2>2. w.revoked
    BY <2>1 DEF SessionType
  <2>3. sessions' = [sessions EXCEPT ![n] = w] /\ users' = users
    BY <1>7 DEF Logout
  <2> HIDE DEF w
  <2>4. sessions'[n] = w /\ \A s \in Sids : s # n => sessions'[s] = sessions[s]
    BY <1>0, <2>3 DEF SessionTable
  <2>5. SessionsMatch'
    BY <2>2, <2>3, <2>4 DEF SessionsMatch, Matches
  <2>6. Old
    BY <1>0, <2>2, <2>4
  <2>7. QED
    BY <2>5, <2>6 DEF Goal
<1>8. ASSUME NEW e \in Entry, CreateUser(e) PROVE Goal
  <2>1. sessions' = sessions /\ users[e.user] = NoUser
        /\ \A v \in Users : v # e.user => users'[v] = users[v]
    BY <1>0, <1>8, UpsertedOK DEF CreateUser, Known
  <2>2. QED
    BY <1>2, <2>1
<1>9. ASSUME NEW u \in Users, Disable(u) PROVE Goal
  <2>1. Known(u) /\ users' = [users EXCEPT ![u].enabled = FALSE] /\ sessions' = Revoked(u)
    BY <1>9 DEF Disable
  <2>2. \A v \in Users : v # u => users'[v] = users[v]
    BY <1>0, <2>1, EnabledWritten
  <2>3. QED
    BY <1>1, <2>1, <2>2
<1>10. ASSUME NEW u \in Users, Enable(u) PROVE Goal
  <2>1. Known(u) /\ users' = [users EXCEPT ![u].enabled = TRUE] /\ sessions' = sessions
    BY <1>10 DEF Enable
  <2>2. users'[u] \in UserType /\ users'[u].enabled /\ users'[u].password = users[u].password
        /\ \A v \in Users : v # u => users'[v] = users[v]
    BY <1>0, <2>1, EnabledWritten
  <2>3. QED
    BY <1>2, <2>1, <2>2, RowIsKnown
<1>11. ASSUME NEW u \in Users, NEW role \in Roles, SetRole(u, role) PROVE Goal
  <2>1. Known(u) /\ users' = [users EXCEPT ![u].role = role] /\ sessions' = sessions
    BY <1>11 DEF SetRole
  <2>2. /\ users'[u] \in UserType /\ users'[u].enabled = users[u].enabled
        /\ users'[u].password = users[u].password
        /\ \A v \in Users : v # u => users'[v] = users[v]
    BY <1>0, <2>1, RoleWritten
  <2>3. QED
    BY <1>2, <2>1, <2>2, RowIsKnown
<1>12. ASSUME pending # <<>>, WriteNext PROVE Goal
  <2>1. Head(pending) \in Entry /\ Head(pending).user \in Users
    BY <1>12, NextWrites
  <2>2. users' = Upserted(Head(pending)) /\ sessions' = Revoked(Head(pending).user)
    BY <1>12 DEF WriteNext
  <2>3. \A v \in Users : v # Head(pending).user => users'[v] = users[v]
    BY <1>0, <2>1, <2>2, UpsertedOK
  <2>4. QED
    BY <1>1, <2>1, <2>2, <2>3
<1>13. ASSUME UNCHANGED <<users, sessions>> PROVE Goal
  BY <1>2, <1>13
<1>14. Goal
  BY <1>3, <1>4, <1>5, <1>6, <1>7, <1>8, <1>9, <1>10, <1>11, <1>12, <1>13
     DEF Next, Request, Bootstrap, LoginRefused, Import, Tick, Abort, vars
<1>15. QED
  BY <1>14 DEF Goal

\* The sessions match in every reachable state.
LEMMA AlwaysMatch == Spec => []SessionsMatch
<1>1. Init => SessionsMatch
  BY DEF Init, SessionsMatch, Matches
<1>2. TypeOK /\ SessionsMatch /\ [Next]_vars => SessionsMatch'
  <2>1. ASSUME SessionsMatch, UNCHANGED vars PROVE SessionsMatch'
    BY <2>1 DEF SessionsMatch, Matches, vars
  <2>2. QED
    BY <2>1, SessionStep
<1>3. QED
  BY <1>1, <1>2, TypeCorrect, PTL DEF Spec

\* Whoever holds a live session knew the password the account has now.
THEOREM PasswordKnown == Spec => []LiveSessionsKnowPassword
<1>1. SessionsMatch => LiveSessionsKnowPassword
  BY DEF SessionsMatch, Matches, LiveSessionsKnowPassword, Live
<1>2. QED
  BY <1>1, AlwaysMatch, PTL

\* A session that has ended stays ended: disabling and enabling its account does not
\* bring it back, and no token is handed out again.
THEOREM EndedStays == Spec => EndedSessionsStayEnded
<1> DEFINE Ends == \A s \in drawn : ~Live(s) => ~Live(s)'
<1>1. TypeOK /\ TypeOK' /\ SessionsMatch /\ [Next]_vars => [Ends]_vars
  <2> SUFFICES ASSUME TypeOK, TypeOK', SessionsMatch, Next, NEW s \in drawn, Live(s)'
               PROVE  Live(s)
    BY DEF Ends
  <2>1. sessions'[s] = sessions[s] /\ s \in Sids
    BY SessionStep DEF Live, TypeOK
  <2>2. sessions[s] # NoSession /\ ~sessions[s].revoked /\ sessions[s].expires > now'
    BY <2>1 DEF Live
  <2>3. users[sessions[s].user].enabled
    BY <2>1, <2>2 DEF SessionsMatch, Matches
  <2>4. now' = now \/ Tick
    BY DEF Next, Request, Bootstrap, CreateInitialAdmin, LoginDenied, ResetPassword,
         Login, Logout, CreateUser, LoginRefused, Disable, Enable, SetRole, Import,
         WriteNext, Abort, vars
  <2>5. sessions[s].expires \in Int /\ now \in Int
    BY <2>1, <2>2, TimeAssumption DEF TypeOK, SessionType
  <2>6. sessions[s].expires > now
    BY <2>2, <2>4, <2>5 DEF Tick
  <2>7. QED
    BY <2>2, <2>3, <2>6 DEF Live
<1>2. QED
  BY <1>1, TypeCorrect, AlwaysMatch, PTL DEF Spec, EndedSessionsStayEnded

-----------------------------------------------------------------------------
(* Guesses.                                                                  *)

\* While an account is open the guesses are the failures counted; once it is locked
\* no more are tried, and the count may restart.
Counted(u) ==
  IF users[u] = NoUser THEN guesses[u] = 0
  ELSE IF users[u].locked_until > now THEN guesses[u] <= MaxFailures + 1
  ELSE guesses[u] <= users[u].failed

\* The strengthening of GuessesAreBounded.
GuessesCounted == \A u \in Users : Counted(u)

\* What leaves counts, locks and the clock alone, or only adds accounts, keeps the count.
LEMMA SameCount ==
  ASSUME TypeOK, TypeOK', GuessesCounted, now' = now, guesses' = guesses,
         \A v \in Users :
           \/ users'[v] = users[v]
           \/ users[v] = NoUser /\ users'[v] \in UserType
           \/ /\ users[v] # NoUser /\ users'[v] \in UserType
              /\ users'[v].failed = users[v].failed
              /\ users'[v].locked_until = users[v].locked_until
  PROVE  GuessesCounted'
<1> SUFFICES ASSUME NEW v \in Users PROVE Counted(v)'
  BY DEF GuessesCounted
<1>1. Counted(v) /\ guesses[v] \in Nat
  BY DEF GuessesCounted, TypeOK
<1>2. CASE users'[v] = users[v]
  BY <1>1, <1>2 DEF Counted
<1>3. CASE users[v] = NoUser /\ users'[v] \in UserType
  <2>1. users'[v] # NoUser /\ users'[v].failed \in Nat
    BY <1>3, LimitAssumption, RowIsKnown DEF UserType
  <2>2. guesses'[v] = 0
    BY <1>1, <1>3 DEF Counted
  <2>3. QED
    BY <2>1, <2>2, LimitAssumption DEF Counted
<1>4. CASE /\ users[v] # NoUser /\ users'[v] \in UserType
           /\ users'[v].failed = users[v].failed
           /\ users'[v].locked_until = users[v].locked_until
  BY <1>1, <1>4, RowIsKnown DEF Counted
<1>5. QED
  BY <1>2, <1>3, <1>4

\* What opens one account anew, with no guesses, keeps the count.
LEMMA FreshCount ==
  ASSUME TypeOK, GuessesCounted, now' = now, NEW u \in Users, users'[u] \in UserType,
         guesses' = [guesses EXCEPT ![u] = 0],
         \A v \in Users : v # u => users'[v] = users[v]
  PROVE  GuessesCounted'
<1>1. Counted(u)'
  <2>1. guesses'[u] = 0
    BY DEF TypeOK
  <2>2. users'[u] # NoUser /\ users'[u].failed \in Nat
    BY LimitAssumption, RowIsKnown DEF UserType
  <2>3. QED
    BY <2>1, <2>2, LimitAssumption DEF Counted
<1>2. ASSUME NEW v \in Users, v # u PROVE Counted(v)'
  <2>1. guesses'[v] = guesses[v] /\ users'[v] = users[v]
    BY <1>2 DEF TypeOK
  <2>2. QED
    BY <2>1 DEF GuessesCounted, Counted
<1>3. QED
  BY <1>1, <1>2 DEF GuessesCounted

\* A wrong password is one more guess and one more failure, or the lock.
LEMMA DeniedCount ==
  ASSUME TypeOK, GuessesCounted, NEW u \in Users, NEW p \in Passwords, LoginDenied(u, p)
  PROVE  GuessesCounted'
<1>1. /\ users'[u] \in UserType
      /\ \/ users'[u].failed = users[u].failed + 1
            /\ users'[u].locked_until = users[u].locked_until
         \/ users[u].failed = MaxFailures /\ users'[u].locked_until = now + LockTime
      /\ \A v \in Users : v # u => users'[v] = users[v]
  BY DeniedWrites
<1>2. guesses' = [guesses EXCEPT ![u] = guesses[u] + 1] /\ now' = now
      /\ users[u] # NoUser /\ ~(users[u].locked_until > now)
  BY DEF LoginDenied, Open, Known, Locked
<1>3. guesses[u] <= users[u].failed
  BY <1>2 DEF GuessesCounted, Counted
<1>4. Counted(u)'
  <2>1. guesses'[u] = guesses[u] + 1 /\ guesses[u] \in Nat /\ now \in Nat
    BY <1>2, TimeAssumption DEF TypeOK
  <2>2. users[u] \in UserType /\ users[u].failed \in 0..MaxFailures
    BY <1>2 DEF TypeOK, UserType
  <2>3. users'[u] # NoUser
    BY <1>1, RowIsKnown
  <2>4. CASE users'[u].failed = users[u].failed + 1
             /\ users'[u].locked_until = users[u].locked_until
    BY <1>2, <1>3, <2>1, <2>2, <2>3, <2>4, LimitAssumption DEF Counted
  <2>5. CASE users[u].failed = MaxFailures /\ users'[u].locked_until = now + LockTime
    <3>1. users'[u].locked_until > now
      BY <2>1, <2>5, LimitAssumption
    <3>2. guesses'[u] <= MaxFailures + 1
      BY <1>3, <2>1, <2>5, LimitAssumption
    <3>3. QED
      BY <1>2, <2>3, <3>1, <3>2 DEF Counted
  <2>6. QED
    BY <1>1, <2>4, <2>5
<1>5. ASSUME NEW v \in Users, v # u PROVE Counted(v)'
  <2>1. guesses'[v] = guesses[v] /\ users'[v] = users[v]
    BY <1>1, <1>2, <1>5 DEF TypeOK
  <2>2. QED
    BY <1>2, <2>1 DEF GuessesCounted, Counted
<1>6. QED
  BY <1>4, <1>5 DEF GuessesCounted

\* When a lock ends its account is open for guesses from zero.
LEMMA TickCount ==
  ASSUME TypeOK, GuessesCounted, Tick
  PROVE  GuessesCounted'
<1> SUFFICES ASSUME NEW u \in Users PROVE Counted(u)'
  BY DEF GuessesCounted
<1>1. /\ Counted(u) /\ now' = now + 1 /\ users' = users
      /\ guesses'[u] = IF Locked(u) /\ users[u].locked_until = now + 1 THEN 0 ELSE guesses[u]
  BY DEF GuessesCounted, Tick
<1>2. CASE users[u] = NoUser
  BY <1>1, <1>2 DEF Counted, Locked, Known
<1>3. CASE users[u] # NoUser
  <2>1. users[u].failed \in Nat /\ users[u].locked_until \in Nat
    BY <1>3, LimitAssumption, TimeAssumption DEF TypeOK, UserType
  <2>2. now \in Nat
    BY TimeAssumption DEF TypeOK
  <2>3. Locked(u) <=> users[u].locked_until > now
    BY <1>3 DEF Locked, Known
  <2>4. QED
    BY <1>1, <1>3, <2>1, <2>2, <2>3, LimitAssumption DEF Counted
<1>4. QED
  BY <1>2, <1>3

\* Between two openings of an account at most MaxFailures + 1 passwords are guessed.
THEOREM GuessesBounded == Spec => []GuessesAreBounded
<1>1. Init => GuessesCounted
  BY DEF Init, GuessesCounted, Counted
<1>2. TypeOK /\ TypeOK' /\ GuessesCounted /\ [Next]_vars => GuessesCounted'
  <2> SUFFICES ASSUME TypeOK, TypeOK', GuessesCounted, [Next]_vars PROVE GuessesCounted'
    OBVIOUS
  <2>0. users \in UserTable /\ \A u \in Users : Known(u) => users[u] # NoUser
    BY DEF TypeOK, UserTable, Known
  <2>1. ASSUME UNCHANGED <<users, now, guesses>> PROVE GuessesCounted'
    BY <2>1 DEF GuessesCounted, Counted
  <2>2. ASSUME NEW u \in Users, NEW p \in Passwords, CreateInitialAdmin(u, p)
        PROVE  GuessesCounted'
    BY <2>2, InitialWrites, SameCount DEF CreateInitialAdmin
  <2>3. ASSUME NEW u \in Users, NEW p \in Passwords, ResetPassword(u, p) PROVE GuessesCounted'
    BY <2>3, ResetWrites, FreshCount DEF ResetPassword
  <2>4. ASSUME NEW u \in Users, NEW s \in Sids, Login(u, s) PROVE GuessesCounted'
    BY <2>4, LoginWrites, FreshCount DEF Login
  <2>5. ASSUME NEW u \in Users, NEW b \in BOOLEAN, Known(u), now' = now, guesses' = guesses,
               users' = [users EXCEPT ![u].enabled = b]
        PROVE  GuessesCounted'
    BY <2>0, <2>5, EnabledWritten, SameCount
  <2>6. ASSUME NEW u \in Users, NEW role \in Roles, SetRole(u, role) PROVE GuessesCounted'
    <3>1. Known(u) /\ now' = now /\ guesses' = guesses /\ users' = [users EXCEPT ![u].role = role]
      BY <2>6 DEF SetRole
    <3>2. QED
      BY <2>0, <3>1, RoleWritten, SameCount
  <2>7. ASSUME NEW e \in Entry, users' = Upserted(e), now' = now, guesses' = guesses
        PROVE  GuessesCounted'
    <3>1. e.user \in Users
      BY DEF Entry
    <3>2. QED
      BY <2>0, <2>7, <3>1, UpsertedOK, SameCount
  <2>8. ASSUME pending # <<>>, WriteNext PROVE GuessesCounted'
    BY <2>7, <2>8, NextWrites DEF WriteNext
  <2>9. ASSUME NEW u \in Users, Disable(u) \/ Enable(u) PROVE GuessesCounted'
    BY <2>5, <2>9 DEF Disable, Enable
  <2>10. QED
    BY <2>1, <2>2, <2>3, <2>4, <2>6, <2>7, <2>8, <2>9, DeniedCount, TickCount
       DEF Next, Request, Bootstrap, LoginRefused, Logout, CreateUser, Import, Abort, vars
<1>3. TypeOK /\ GuessesCounted => GuessesAreBounded
  <2> SUFFICES ASSUME TypeOK, GuessesCounted, NEW u \in Users
               PROVE  guesses[u] <= MaxFailures + 1
    BY DEF GuessesAreBounded
  <2>1. Counted(u) /\ guesses[u] \in Nat
    BY DEF GuessesCounted, TypeOK
  <2>2. users[u] # NoUser => users[u].failed \in 0..MaxFailures
    BY DEF TypeOK, UserType
  <2>3. QED
    BY <2>1, <2>2, LimitAssumption DEF Counted
<1>4. QED
  BY <1>1, <1>2, <1>3, TypeCorrect, PTL DEF Spec

-----------------------------------------------------------------------------
(* The last administrator.                                                   *)

\* A nonempty set of places of a file has a last one.
LEMMA LastExists ==
  ASSUME NEW n \in Nat, NEW S, S \subseteq 1..n, S # {}
  PROVE  \E i \in S : \A j \in S : j <= i
<1> DEFINE R == {ss \in Nat \X Nat : ss[1] < ss[2]}
           back == {n - i : i \in S}
<1>1. IsWellFoundedOn(R, Nat)
  BY NatLessThanWellFounded DEF OpToRel
<1>2. back \subseteq Nat /\ back # {}
  <2>1. \A i \in S : i \in Int /\ i <= n
    OBVIOUS
  <2>2. \A i \in S : n - i \in Nat
    BY <2>1
  <2>3. QED
    BY <2>2
<1>3. PICK k \in back : \A q \in back : ~ (<<q, k>> \in R)
  BY <1>1, <1>2, WFMin
<1>4. PICK i \in S : k = n - i
  OBVIOUS
<1>5. ASSUME NEW j \in S PROVE j <= i
  <2>1. n - j \in back /\ n - j \in Nat /\ k \in Nat
    BY <1>2
  <2>2. ~(n - j < k)
    BY <1>3, <2>1
  <2>3. QED
    BY <1>4, <2>2
<1>6. QED
  BY <1>5

\* Prospect for any users table: the one before and the one after a step.
ProspectIn(table, file, u) ==
  LET mine == {i \in DOMAIN file : file[i].user = u}
  IN  IF mine = {} THEN table[u]
      ELSE file[CHOOSE i \in mine : \A j \in mine : j <= i]

\* What LeavesAdmin says, of a file and of what is pending after a step.
LEMMA LeavesIn ==
  /\ \A file : LeavesAdmin(file) <=> \E u \in Users : IsEnabledAdmin(ProspectIn(users, file, u))
  /\ LeavesAdmin(pending)' <=> \E u \in Users : IsEnabledAdmin(ProspectIn(users', pending', u))
BY DEF LeavesAdmin, Prospect, ProspectIn

\* A name the file does not hold stays as the table has it.
LEMMA ProspectAbsent ==
  ASSUME NEW table, NEW file, NEW u, \A i \in DOMAIN file : file[i].user # u
  PROVE  ProspectIn(table, file, u) = table[u]
BY DEF ProspectIn

\* Writing the first entry of a file leaves to the rest of it what it owes: an
\* administrator the whole file leaves is there, or still to come.
LEMMA WrittenLeaves ==
  ASSUME users \in UserTable, NEW file \in Seq(Entry), file # <<>>, LeavesAdmin(file),
         users' = Upserted(Head(file))
  PROVE  \E u \in Users : IsEnabledAdmin(ProspectIn(users', Tail(file), u))
<1> DEFINE e == Head(file)
           rest == Tail(file)
<1>1. /\ e \in Entry /\ e = file[1] /\ rest \in Seq(Entry) /\ Len(file) \in Nat \ {0}
      /\ DOMAIN file = 1..Len(file) /\ DOMAIN rest = 1..(Len(file) - 1)
      /\ \A i \in DOMAIN rest : rest[i] = file[i + 1] /\ i + 1 \in DOMAIN file
      /\ \A i \in DOMAIN file : i # 1 => i - 1 \in DOMAIN rest /\ rest[i - 1] = file[i]
  OBVIOUS
<1>2. PICK u \in Users : IsEnabledAdmin(ProspectIn(users, file, u))
  BY DEF LeavesAdmin, Prospect, ProspectIn
<1>3. /\ users'[e.user] \in UserType
      /\ users'[e.user].role = e.role /\ users'[e.user].enabled = e.enabled
      /\ \A v \in Users : v # e.user => users'[v] = users[v]
  BY <1>1, UpsertedOK
<1> HIDE DEF e, rest
<1> DEFINE mine == {i \in DOMAIN file : file[i].user = u}
<1>4. CASE mine = {}
  <2>1. ProspectIn(users, file, u) = users[u]
    BY <1>4, ProspectAbsent
  <2>2. u # e.user
    BY <1>1, <1>4
  <2>3. \A i \in DOMAIN rest : rest[i].user # u
    BY <1>1, <1>4
  <2>4. ProspectIn(users', rest, u) = users'[u]
    BY <2>3, ProspectAbsent
  <2>5. QED
    BY <1>2, <1>3, <2>1, <2>2, <2>4 DEF rest
<1>5. CASE mine # {}
  <2>1. PICK i \in mine : \A j \in mine : j <= i
    BY <1>1, <1>5, LastExists
  <2>2. ProspectIn(users, file, u) = file[i]
    <3>1. mine \subseteq Int
      BY <1>1
    <3>2. \A k \in mine : (\A j \in mine : j <= k) => k = i
      BY <2>1, <3>1
    <3>3. (CHOOSE k \in mine : \A j \in mine : j <= k) = i
      BY <2>1, <3>2
    <3>4. QED
      BY <1>5, <3>3 DEF ProspectIn
  <2>3. CASE i = 1
    <3>1. \A k \in DOMAIN rest : rest[k].user # u
      <4>1. ASSUME NEW k \in DOMAIN rest, rest[k].user = u PROVE FALSE
        <5>1. k + 1 \in mine /\ k \in Nat \ {0}
          BY <1>1, <4>1
        <5>2. QED
          BY <2>1, <2>3, <5>1
      <4>2. QED
        BY <4>1
    <3>2. ProspectIn(users', rest, u) = users'[u]
      BY <3>1, ProspectAbsent
    <3>3. e.user = u /\ e.role = "admin" /\ e.enabled
      BY <1>1, <1>2, <2>1, <2>2, <2>3 DEF IsEnabledAdmin
    <3>4. IsEnabledAdmin(users'[u])
      BY <1>3, <3>3, RowIsKnown DEF IsEnabledAdmin
    <3>5. QED
      BY <3>2, <3>4 DEF rest
  <2>4. CASE i # 1
    <3> DEFINE late == {k \in DOMAIN rest : rest[k].user = u}
    <3>1. i - 1 \in late /\ late \subseteq Int
      BY <1>1, <2>1, <2>4
    <3>2. ASSUME NEW k \in late PROVE k <= i - 1
      <4>1. k + 1 \in mine /\ k \in Int /\ i \in Int
        BY <1>1, <2>1
      <4>2. QED
        BY <2>1, <4>1
    <3>3. \A k \in late : (\A j \in late : j <= k) => k = i - 1
      BY <3>1, <3>2
    <3>4. (CHOOSE k \in late : \A j \in late : j <= k) = i - 1
      BY <3>1, <3>2, <3>3
    <3>5. ProspectIn(users', rest, u) = rest[i - 1]
      BY <3>1, <3>4 DEF ProspectIn
    <3>6. rest[i - 1] = file[i]
      BY <1>1, <2>1, <2>4
    <3>7. QED
      BY <1>2, <2>2, <3>5, <3>6 DEF rest
  <2>5. QED
    BY <2>3, <2>4
<1>6. QED
  BY <1>4, <1>5

\* The strengthening of AdminRemains: what is being written leaves an administrator.
AdminComes == pending # <<>> => LeavesAdmin(pending)

\* The bootstrap makes its first account the administrator.
LEMMA BootLeavesAdmin == BootUsers # <<>> => LeavesAdmin(BootUsers)
<1> SUFFICES ASSUME BootUsers # <<>> PROVE LeavesAdmin(BootUsers)
  OBVIOUS
<1> DEFINE e == BootUsers[1]
<1>1. BootUsers \in Seq(Entry) /\ 1 \in DOMAIN BootUsers /\ e \in Entry
  BY FilesAssumption
<1>2. e.role = "admin" /\ e.enabled /\ e.user \in Users
  BY <1>1, BootAssumption DEF Entry
<1>3. Prospect(BootUsers, e.user) = e
  <2> DEFINE mine == {j \in DOMAIN BootUsers : BootUsers[j].user = e.user}
  <2>1. mine = {1}
    BY <1>1, BootAssumption
  <2>2. (CHOOSE i \in mine : \A j \in mine : j <= i) = 1
    BY <2>1
  <2>3. QED
    BY <2>1, <2>2 DEF Prospect
<1>4. e # NoUser
  BY <1>2 DEF NoUser
<1>5. QED
  BY <1>2, <1>3, <1>4 DEF LeavesAdmin, IsEnabledAdmin

\* An account that may lose its administrator has another one behind it.
LEMMA AnotherAdmin ==
  ASSUME NEW u \in Users, MayLoseAdmin(u), EnabledAdmins # {}
  PROVE  \E v \in EnabledAdmins : v # u
<1>1. CASE ~IsEnabledAdmin(users[u])
  BY <1>1 DEF EnabledAdmins
<1>2. CASE IsEnabledAdmin(users[u])
  <2>1. Cardinality(EnabledAdmins) > 1
    BY <1>2 DEF MayLoseAdmin
  <2>2. EnabledAdmins # {u}
    BY <2>1, FS_Singleton
  <2>3. QED
    BY <2>2
<1>3. QED
  BY <1>1, <1>2

\* A request takes the last enabled administrator from nobody.
LEMMA RequestLeavesAdmin ==
  ASSUME TypeOK, Request, EnabledAdmins # {}
  PROVE  EnabledAdmins' # {}
<1>0. users \in UserTable
  BY DEF TypeOK, UserTable
<1>1. ASSUME \A v \in Users : IsEnabledAdmin(users[v]) => IsEnabledAdmin(users'[v])
      PROVE  EnabledAdmins' # {}
  BY <1>1 DEF EnabledAdmins
<1>2. ASSUME NEW u \in Users, MayLoseAdmin(u), \A v \in Users : v # u => users'[v] = users[v]
      PROVE  EnabledAdmins' # {}
  <2>1. PICK v \in EnabledAdmins : v # u
    BY <1>2, AnotherAdmin
  <2>2. v \in Users /\ IsEnabledAdmin(users'[v])
    BY <1>2, <2>1 DEF EnabledAdmins
  <2>3. QED
    BY <2>2 DEF EnabledAdmins
<1>3. ASSUME NEW u \in Users, users'[u] \in UserType, users'[u].role = users[u].role,
             users'[u].enabled = users[u].enabled, \A v \in Users : v # u => users'[v] = users[v]
      PROVE  EnabledAdmins' # {}
  <2>1. users'[u] # NoUser
    BY <1>3, RowIsKnown
  <2>2. QED
    BY <1>1, <1>3, <2>1 DEF IsEnabledAdmin
<1>4. ASSUME UNCHANGED users PROVE EnabledAdmins' # {}
  BY <1>1, <1>4
<1>5. ASSUME NEW u \in Users, NEW p \in Passwords,
             CreateInitialAdmin(u, p) \/ LoginDenied(u, p) \/ ResetPassword(u, p)
      PROVE  EnabledAdmins' # {}
  <2>1. ASSUME CreateInitialAdmin(u, p) PROVE EnabledAdmins' # {}
    BY <2>1, InitialWrites DEF EnabledAdmins
  <2>2. QED
    BY <1>3, <1>5, <2>1, DeniedWrites, ResetWrites
<1>6. ASSUME NEW u \in Users, NEW s \in Sids, Login(u, s) PROVE EnabledAdmins' # {}
  BY <1>3, <1>6, LoginWrites
<1>7. ASSUME NEW e \in Entry, CreateUser(e) PROVE EnabledAdmins' # {}
  <2>1. users[e.user] = NoUser /\ \A v \in Users : v # e.user => users'[v] = users[v]
    BY <1>0, <1>7, UpsertedOK DEF CreateUser, Known
  <2>2. QED
    BY <1>1, <2>1 DEF IsEnabledAdmin
<1>8. ASSUME NEW u \in Users, Disable(u) PROVE EnabledAdmins' # {}
  <2>1. Known(u) /\ MayLoseAdmin(u) /\ users' = [users EXCEPT ![u].enabled = FALSE]
    BY <1>8 DEF Disable
  <2>2. \A v \in Users : v # u => users'[v] = users[v]
    BY <1>0, <2>1, EnabledWritten
  <2>3. QED
    BY <1>2, <2>1, <2>2
<1>9. ASSUME NEW u \in Users, Enable(u) PROVE EnabledAdmins' # {}
  <2>1. Known(u) /\ users' = [users EXCEPT ![u].enabled = TRUE]
    BY <1>9 DEF Enable
  <2>2. /\ users'[u] \in UserType /\ users'[u].role = users[u].role /\ users'[u].enabled
        /\ \A v \in Users : v # u => users'[v] = users[v]
    BY <1>0, <2>1, EnabledWritten
  <2>3. users'[u] # NoUser
    BY <2>2, RowIsKnown
  <2>4. QED
    BY <1>1, <2>2, <2>3 DEF IsEnabledAdmin
<1>10. ASSUME NEW u \in Users, NEW role \in Roles, SetRole(u, role) PROVE EnabledAdmins' # {}
  <2>1. Known(u) /\ (role # "admin" => MayLoseAdmin(u))
        /\ users' = [users EXCEPT ![u].role = role]
    BY <1>10 DEF SetRole
  <2>2. /\ users'[u] \in UserType /\ users'[u].role = role
        /\ users'[u].enabled = users[u].enabled
        /\ \A v \in Users : v # u => users'[v] = users[v]
    BY <1>0, <2>1, RoleWritten
  <2>3. CASE role # "admin"
    BY <1>2, <2>1, <2>2, <2>3
  <2>4. CASE role = "admin"
    <3>1. users'[u] # NoUser
      BY <2>2, RowIsKnown
    <3>2. QED
      BY <1>1, <2>2, <2>4, <3>1 DEF IsEnabledAdmin
  <2>5. QED
    BY <2>3, <2>4
<1>11. QED
  BY <1>4, <1>5, <1>6, <1>7, <1>8, <1>9, <1>10
     DEF Request, Bootstrap, LoginRefused, Logout, Import, Tick, vars

\* The next user of an import is written: an administrator is there or still to come,
\* and there when it was the last.
LEMMA WriteNextLeaves ==
  ASSUME TypeOK, AdminComes, pending # <<>>, WriteNext
  PROVE  AdminComes' /\ (Len(pending) = 1 => EnabledAdmins' # {})
<1>1. users \in UserTable /\ pending \in Seq(Entry)
  BY DEF TypeOK, UserTable
<1>2. users' = Upserted(Head(pending)) /\ pending' = Tail(pending) /\ LeavesAdmin(pending)
  BY DEF WriteNext, AdminComes
<1> DEFINE rest == Tail(pending)
<1>3. PICK u \in Users : IsEnabledAdmin(ProspectIn(users', rest, u))
  BY <1>1, <1>2, WrittenLeaves
<1>4. AdminComes'
  BY <1>2, <1>3, LeavesIn DEF AdminComes
<1>5. ASSUME Len(pending) = 1 PROVE EnabledAdmins' # {}
  <2>1. DOMAIN rest = {}
    <3>1. rest \in Seq(Entry) /\ Len(rest) = 0
      BY <1>1, <1>5
    <3> HIDE DEF rest
    <3>2. QED
      BY <3>1
  <2>2. ProspectIn(users', rest, u) = users'[u]
    BY <2>1 DEF ProspectIn
  <2>3. IsEnabledAdmin(users'[u])
    BY <1>3, <2>2
  <2>4. QED
    BY <2>3 DEF EnabledAdmins
<1>6. QED
  BY <1>4, <1>5

\* No request takes the last enabled administrator, and an import or a bootstrap that
\* is written to its end leaves one.
THEOREM AdminStays == Spec => AdminRemains
<1> DEFINE Stays == /\ pending = <<>> /\ EnabledAdmins # {} => EnabledAdmins' # {}
                    /\ Len(pending) = 1 /\ WriteNext => EnabledAdmins' # {}
<1>1. Init => AdminComes
  BY DEF Init, AdminComes
<1>2. TypeOK /\ AdminComes /\ [Next]_vars => AdminComes'
  <2> SUFFICES ASSUME TypeOK, AdminComes, [Next]_vars PROVE AdminComes'
    OBVIOUS
  <2>1. CASE UNCHANGED <<users, pending>>
    BY <2>1, LeavesIn DEF AdminComes
  <2>2. CASE pending # <<>> /\ WriteNext
    BY <2>2, WriteNextLeaves
  <2>3. CASE Abort
    BY <2>3 DEF Abort, AdminComes
  <2>4. CASE pending = <<>> /\ Bootstrap
    BY <2>4, BootLeavesAdmin, LeavesIn DEF Bootstrap, AdminComes
  <2>5. ASSUME pending = <<>>, NEW file \in Imports, Import(file) PROVE AdminComes'
    BY <2>5, LeavesIn DEF Import, AdminComes
  <2>6. CASE pending = <<>> /\ pending' = pending
    BY <2>6 DEF AdminComes
  <2>7. QED
    BY <2>1, <2>2, <2>3, <2>4, <2>5, <2>6
       DEF Next, Request, CreateInitialAdmin, LoginDenied, ResetPassword, Login, Logout,
           CreateUser, LoginRefused, Disable, Enable, SetRole, Tick, vars
<1>3. TypeOK /\ AdminComes /\ [Next]_vars => [Stays]_vars
  <2> SUFFICES ASSUME TypeOK, AdminComes, Next PROVE Stays
    BY DEF Stays
  <2>1. ASSUME pending = <<>>, EnabledAdmins # {} PROVE EnabledAdmins' # {}
    BY <2>1, RequestLeavesAdmin DEF Next
  <2>2. ASSUME Len(pending) = 1, WriteNext PROVE EnabledAdmins' # {}
    BY <2>2, WriteNextLeaves DEF Next
  <2>3. QED
    BY <2>1, <2>2
<1>4. QED
  BY <1>1, <1>2, <1>3, TypeCorrect, PTL DEF Spec, AdminRemains

=============================================================================
