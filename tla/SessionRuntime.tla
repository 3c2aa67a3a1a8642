--------------------------- MODULE SessionRuntime ---------------------------
(***************************************************************************)
(* The process-global Teradata SDK context and those who take turns with it: *)
(* browser sessions, background jobs and the external API, all under the     *)
(* runtime lock (core/runtime_manager.py, web_support.py, integrations/      *)
(* teradata/connection.py); and the connection profiles they are made from,  *)
(* which administrators change without that lock (auth_store.py,             *)
(* routers/system_admin.py).                                                 *)
(*                                                                           *)
(* A step is what the event loop does between two suspensions.  A request    *)
(* suspends between the middleware and the handler (its form is read), and   *)
(* while it works in a thread; the lock is held throughout, but requests that *)
(* do not take it come in between.                                           *)
(*                                                                           *)
(* A host stands for all of a profile's credentials; a profile with missing  *)
(* fields behaves like one whose activation fails.                           *)
(***************************************************************************)
EXTENDS Integers

CONSTANTS
  Sessions,   \* login sessions (AuthStore says when they end)
  Profiles,   \* ids of connection profiles; an id is not used twice
  Hosts,      \* what a profile may point to
  Job, Api,   \* the job runner and the external API client
  None        \* no profile, host or owner

Owners == Sessions \cup {Job, Api}

ASSUME OwnersAssumption == Job \notin Sessions /\ Api \notin Sessions /\ Job # Api
ASSUME IdAssumption == Profiles \subseteq Nat
ASSUME NoneAssumption == None \notin Owners /\ None \notin Hosts /\ None \notin Profiles

VARIABLES
  profile,    \* the system_connection_profiles table
  live,       \* sessions whose cookie is accepted
  scope,      \* app.state.user_sessions: what each session has chosen
  context,    \* the SDK: the host it is connected to, and who connected it
  identity,   \* TeradataRuntimeManager.active_identity
  lock,       \* who holds the runtime lock and how far the work is
  queued      \* profiles of the jobs that wait

vars == <<profile, live, scope, context, identity, lock, queued>>

ProfileType == [state: {"unused", "saved", "deleted"}, host: Hosts \cup {None}, default: BOOLEAN]
ScopeType == [known: BOOLEAN, connected: BOOLEAN, sel: Profiles \cup {None},
              host: Hosts \cup {None}, auth: BOOLEAN]
ContextType == [host: Hosts \cup {None}, owner: Owners \cup {None}]
Stages == {"free", "entered", "plain", "working", "deleting"}
LockType == [by: Owners \cup {None}, stage: Stages, host: Hosts \cup {None}]

Saved == {p \in Profiles : profile[p].state = "saved"}

ProfileOK(row) == row \in ProfileType /\ (row.host = None) = (row.state # "saved")
ScopeOK(sc) ==
  /\ sc \in ScopeType
  /\ (sc.host = None) = (sc.sel = None)
  /\ sc.connected => sc.host # None
LockOK == lock \in LockType /\ (lock.by = None) = (lock.stage = "free")

\* The type invariant: a scope has the parameters of the profile it names, a
\* connected one has some, a job waits for a profile that exists, and the lock
\* is free exactly when nobody holds it.
TypeOK ==
  /\ DOMAIN profile = Profiles /\ \A p \in Profiles : ProfileOK(profile[p])
  /\ live \subseteq Sessions
  /\ DOMAIN scope = Sessions /\ \A s \in Sessions : ScopeOK(scope[s])
  /\ context \in ContextType
  /\ identity \in Owners \cup {None}
  /\ LockOK
  /\ queued \subseteq Saved

NoScope == [known |-> FALSE, connected |-> FALSE, sel |-> None, host |-> None, auth |-> FALSE]
NoContext == [host |-> None, owner |-> None]
Free == [by |-> None, stage |-> "free", host |-> None]

Init ==
  /\ profile = [p \in Profiles |-> [state |-> "unused", host |-> None, default |-> FALSE]]
  /\ live = {}
  /\ scope = [s \in Sessions |-> NoScope]
  /\ context = NoContext
  /\ identity = None
  /\ lock = Free
  /\ queued = {}

-----------------------------------------------------------------------------
(* Reading profiles and scopes.                                             *)

\* get_connection_profile(None): the default one, else the oldest.
DefaultOf(table) ==
  LET saved == {p \in Profiles : table[p].state = "saved"}
      first == {p \in saved : table[p].default}
      best == IF first # {} THEN first ELSE saved
  IN  IF saved = {} THEN None ELSE CHOOSE p \in best : \A q \in best : p <= q

\* apply_saved_connection_config: the scope takes the default profile, if any.
WithDefault(sc) ==
  LET p == DefaultOf(profile)
  IN  IF p = None THEN sc ELSE [sc EXCEPT !.sel = p, !.host = profile[p].host]

ActivatedOnce(s) == \* Mutant: a session that has parameters keeps them.
  IF scope[s].connected \/ scope[s].host # None THEN scope[s]
  ELSE WithDefault([scope[s] EXCEPT !.known = TRUE])

\* _activate_session_state: a session that is not connected falls back to the
\* default profile at each of its requests.
Activated(s) ==
  IF scope[s].connected THEN scope[s]
  ELSE WithDefault([scope[s] EXCEPT !.known = TRUE])

\* An activation that fails leaves nothing behind; but cleanup swallows its
\* errors, so what was there may remain, or the half of what is new.
Made(owner, host) == [owner |-> owner, host |-> host]
FailedContexts(owner, host) == {NoContext, context, Made(owner, host)}

Activates(owner, host) == context' = Made(owner, host) /\ identity' = owner
\* The second case: incomplete parameters are refused before anything is done.
FailsToActivate(owner, host) ==
  \/ context' \in FailedContexts(owner, host) /\ identity' = None
  \/ UNCHANGED <<context, identity>>

-----------------------------------------------------------------------------
(* Requests under the lock.                                                 *)

Take(owner, stage) ==
  /\ lock.stage = "free"
  /\ lock' = [by |-> owner, stage |-> stage, host |-> None]

\* RuntimeIsolationMiddleware: before the handler of a connected session runs,
\* its connection is activated again, from the parameters the session keeps.
EnterIfChanged(s) == \* Mutant: not when the manager names this session already.
  /\ Take(s, "entered")
  /\ IF s \in live /\ scope[s].connected /\ identity # s
     THEN /\ Activates(s, scope[s].host)
          /\ scope' = [scope EXCEPT ![s].auth = TRUE]
     ELSE UNCHANGED <<context, identity, scope>>
  /\ UNCHANGED <<profile, live, queued>>

Enter(s) ==
  /\ Take(s, "entered")
  /\ IF s \in live /\ scope[s].connected
     THEN /\ Activates(s, scope[s].host)
          /\ scope' = [scope EXCEPT ![s].auth = TRUE]
     ELSE UNCHANGED <<context, identity, scope>>
  /\ UNCHANGED <<profile, live, queued>>

\* ... and when that fails the session is disconnected and the request refused.
EnterFails(s) ==
  /\ lock.stage = "free"
  /\ s \in live /\ scope[s].connected
  /\ context' \in FailedContexts(s, scope[s].host)
  /\ identity' = None
  /\ scope' = [scope EXCEPT ![s].connected = FALSE]
  /\ UNCHANGED <<profile, live, lock, queued>>

\* The way to connect, reset and the external API: the lock and nothing more.
EnterPlain(owner) ==
  /\ Take(owner, "plain")
  /\ UNCHANGED <<profile, live, scope, context, identity, queued>>

Entered(s) == lock.by = s /\ lock.stage = "entered"
Plain(owner) == lock.by = owner /\ lock.stage = "plain"
Working(owner, host) == lock' = [by |-> owner, stage |-> "working", host |-> host]
Leave == lock' = Free

\* A handler that uses the SDK, for a session that is connected.
Operate(s) ==
  /\ Entered(s) /\ s \in live /\ scope[s].connected
  /\ Working(s, scope[s].host)
  /\ UNCHANGED <<profile, live, scope, context, identity, queued>>

\* A Collection is deleted without asking whether the session is connected; a
\* session that has no SDK token of its own uses the token of the process.
DeleteCollection(s) ==
  /\ Entered(s) /\ s \in live
  /\ scope' = [scope EXCEPT ![s] = Activated(s)]
  /\ lock' = [lock EXCEPT !.stage = "deleting"]
  /\ UNCHANGED <<profile, live, context, identity, queued>>

\* The handlers that queue a job for the selected profile: a load or a create
\* asks for a connection, parsing and generation do not.  The foreign key
\* refuses a profile that is gone.
QueueUnchecked(s) == \* Mutant: no foreign key.
  /\ Entered(s) /\ s \in live
  /\ scope' = [scope EXCEPT ![s] = Activated(s)]
  /\ queued' = IF Activated(s).sel = None THEN queued ELSE queued \cup {Activated(s).sel}
  /\ Leave
  /\ UNCHANGED <<profile, live, context, identity>>

QueueJob(s) ==
  /\ Entered(s) /\ s \in live
  /\ scope' = [scope EXCEPT ![s] = Activated(s)]
  /\ LET p == Activated(s).sel
     IN  queued' = IF p \in Saved THEN queued \cup {p} ELSE queued
  /\ Leave
  /\ UNCHANGED <<profile, live, context, identity>>

\* Every other handler, and every one whose session has ended meanwhile.
Refuse(s) ==
  /\ Entered(s) \/ Plain(s)
  /\ scope' = IF s \in live THEN [scope EXCEPT ![s] = Activated(s)] ELSE scope
  /\ Leave
  /\ UNCHANGED <<profile, live, context, identity, queued>>

Done ==
  /\ lock.stage \in {"working", "deleting"} /\ lock.by # Job
  /\ Leave
  /\ UNCHANGED <<profile, live, scope, context, identity, queued>>

-----------------------------------------------------------------------------
(* Handlers that activate a connection themselves.                          *)

\* _ensure_connected_runtime_for_session for the scope a handler has before it.
ConnectedFirst(s, sc, ok) == \* Mutant: the session is marked before the SDK answers.
  /\ sc.host # None
  /\ scope' = [scope EXCEPT ![s] = [sc EXCEPT !.connected = TRUE]]
  /\ IF ok THEN Activates(s, sc.host) /\ Working(s, sc.host)
     ELSE FailsToActivate(s, sc.host) /\ Leave

Reactivate(s, sc, ok) ==
  /\ sc.host # None
  /\ IF ok
     THEN /\ scope' = [scope EXCEPT ![s] = [sc EXCEPT !.connected = TRUE, !.auth = TRUE]]
          /\ Activates(s, sc.host) /\ Working(s, sc.host)
     ELSE /\ scope' = [scope EXCEPT ![s] = sc]
          /\ FailsToActivate(s, sc.host) /\ Leave

\* The list of stores is refreshed with the parameters a session has, connected
\* or not; the session is connected from then on.
Refresh(s, ok) ==
  /\ Entered(s) /\ s \in live
  /\ Reactivate(s, Activated(s), ok)
  /\ UNCHANGED <<profile, live, queued>>

\* The API called with a session's cookie wants it connected.
ApiSession(s, ok) ==
  /\ Plain(s) /\ s \in live /\ scope[s].connected
  /\ Reactivate(s, scope[s], ok)
  /\ UNCHANGED <<profile, live, queued>>

\* evs_connect: the profile's present parameters become the session's.
Connect(s, p, ok) ==
  /\ Plain(s) /\ s \in live /\ p \in Saved
  /\ LET h == profile[p].host
     IN  /\ scope' = [scope EXCEPT ![s] =
              [known |-> TRUE, connected |-> ok, sel |-> p, host |-> h, auth |-> ok]]
         /\ IF ok THEN Activates(s, h) ELSE FailsToActivate(s, h)
  /\ Leave
  /\ UNCHANGED <<profile, live, queued>>

\* ... and without that profile it is disconnected from what it had.
ConnectGone(s) ==
  /\ Plain(s) /\ s \in live
  /\ scope' = [scope EXCEPT ![s] = [Activated(s) EXCEPT !.connected = FALSE, !.auth = FALSE]]
  /\ Leave
  /\ UNCHANGED <<profile, live, context, identity, queued>>

\* evs_reset: the session begins anew with its profile, or with the default one.
Reset(s) ==
  /\ Plain(s) /\ s \in live
  /\ LET old == scope[s].sel
         new == [NoScope EXCEPT !.known = TRUE]
     IN  scope' = [scope EXCEPT ![s] = IF old \in Saved
                     THEN [new EXCEPT !.sel = old, !.host = profile[old].host]
                     ELSE WithDefault(new)]
  /\ context' \in {NoContext, context}
  /\ identity' = None
  /\ Leave
  /\ UNCHANGED <<profile, live, queued>>

\* The external API uses the default profile.
ApiOperate(ok) ==
  /\ Plain(Api) /\ Saved # {}
  /\ LET h == profile[DefaultOf(profile)].host
     IN  IF ok THEN Activates(Api, h) /\ Working(Api, h)
         ELSE FailsToActivate(Api, h) /\ Leave
  /\ UNCHANGED <<profile, live, scope, queued>>

ApiRefused ==
  /\ Plain(Api) /\ Saved = {}
  /\ Leave
  /\ UNCHANGED <<profile, live, scope, context, identity, queued>>

-----------------------------------------------------------------------------
(* Jobs: activated_connection does not tell the manager.  A job that parses    *)
(* or generates holds the lock and leaves the SDK alone: it is not shown.     *)

JobBegins(p) ==
  /\ lock.stage = "free" /\ p \in queued
  /\ queued' = queued \ {p}
  /\ lock' = [by |-> Job, stage |-> "working", host |-> profile[p].host]
  /\ context' = Made(Job, profile[p].host)
  /\ UNCHANGED <<profile, live, scope, identity>>

JobFails(p) ==
  /\ lock.stage = "free" /\ p \in queued
  /\ queued' = queued \ {p}
  /\ context' \in FailedContexts(Job, profile[p].host)
  /\ UNCHANGED <<profile, live, scope, identity, lock>>

JobEnds ==
  /\ lock.by = Job
  /\ Leave
  /\ context' \in {NoContext, context}
  /\ UNCHANGED <<profile, live, scope, identity, queued>>

-----------------------------------------------------------------------------
(* Requests that do not take the lock.                                      *)

LogIn(s) ==
  /\ s \notin live /\ ~scope[s].known
  /\ live' = live \cup {s}
  /\ scope' = [scope EXCEPT ![s] = WithDefault([NoScope EXCEPT !.known = TRUE])]
  /\ UNCHANGED <<profile, context, identity, lock, queued>>

\* A logout drops the scope; a session that is revoked or expires keeps it.
SessionEnds(s, logout) ==
  /\ s \in live
  /\ live' = live \ {s}
  /\ scope' = IF logout THEN [scope EXCEPT ![s] = NoScope] ELSE scope
  /\ UNCHANGED <<profile, context, identity, lock, queued>>

Home(s) ==
  /\ s \in live
  /\ scope' = [scope EXCEPT ![s] = Activated(s)]
  /\ UNCHANGED <<profile, live, context, identity, lock, queued>>

\* save_connection_profile, for a new id or over an old one: the first profile
\* is the default, a new default replaces the old, none is given up.
TableWith(p, h, wish) ==
  LET makes == wish \/ Saved = {}
  IN  [q \in Profiles |->
         IF q = p THEN [state |-> "saved", host |-> h,
                        default |-> makes \/ (p \in Saved /\ profile[p].default)]
         ELSE IF makes THEN [profile[q] EXCEPT !.default = FALSE] ELSE profile[q]]

SaveProfile(p, h, wish) ==
  /\ profile[p].state # "deleted"
  /\ \A q \in Profiles : q < p => profile[q].state # "unused"
  /\ LET table == TableWith(p, h, wish)
         follows(s) == /\ scope[s].known /\ ~scope[s].connected
                       /\ scope[s].sel = p \/ (table[p].default /\ scope[s].sel = None)
     IN  /\ profile' = table
         /\ scope' = [s \in Sessions |-> IF follows(s)
                        THEN [scope[s] EXCEPT !.sel = p, !.host = h] ELSE scope[s]]
  /\ UNCHANGED <<live, context, identity, lock, queued>>

\* delete_connection_profile: the oldest of the rest becomes the default.
Without(p) == [profile EXCEPT ![p] = [state |-> "deleted", host |-> None, default |-> FALSE]]
WithoutPromotion(p) == Without(p) \* Mutant: nobody becomes the default.
Promoted(p) ==
  LET rest == Without(p)
  IN  IF profile[p].default /\ Saved # {p}
      THEN [rest EXCEPT ![DefaultOf(rest)].default = TRUE] ELSE rest

DeleteProfile(p) ==
  /\ p \in Saved
  /\ profile' = Promoted(p)
  /\ LET d == DefaultOf(profile')
     IN  scope' = [s \in Sessions |->
           IF scope[s].known /\ ~scope[s].connected /\ scope[s].sel = p
           THEN [scope[s] EXCEPT !.sel = d, !.host = IF d = None THEN None ELSE profile'[d].host]
           ELSE scope[s]]
  /\ queued' = queued \ {p}
  /\ UNCHANGED <<live, context, identity, lock>>

\* The process is restarted: cookies stay valid, everything else is gone.
Restart ==
  /\ scope' = [s \in Sessions |-> NoScope]
  /\ context' = NoContext /\ identity' = None /\ lock' = Free
  /\ UNCHANGED <<profile, live, queued>>

-----------------------------------------------------------------------------
Locked(s) ==
  \/ Enter(s) \/ EnterFails(s) \/ EnterPlain(s)
  \/ Operate(s) \/ DeleteCollection(s) \/ QueueJob(s) \/ Refuse(s) \/ Reset(s)
  \/ ConnectGone(s)
  \/ \E ok \in BOOLEAN : Refresh(s, ok) \/ ApiSession(s, ok)
  \/ \E p \in Profiles, ok \in BOOLEAN : Connect(s, p, ok)

Unlocked(s) ==
  LogIn(s) \/ Home(s) \/ \E logout \in BOOLEAN : SessionEnds(s, logout)

Next ==
  \/ \E s \in Sessions : Locked(s) \/ Unlocked(s)
  \/ Done
  \/ EnterPlain(Api) \/ ApiRefused \/ \E ok \in BOOLEAN : ApiOperate(ok)
  \/ \E p \in Profiles : JobBegins(p) \/ JobFails(p) \/ DeleteProfile(p)
  \/ JobEnds
  \/ \E p \in Profiles, h \in Hosts, wish \in BOOLEAN : SaveProfile(p, h, wish)
  \/ Restart

Spec == Init /\ [][Next]_vars

-----------------------------------------------------------------------------
(* Properties.                                                              *)

\* Whoever works with the SDK finds it connected by himself and to his host,
\* whatever others did before him: the middleware, the handlers and the jobs
\* each activate their own connection, and keep the lock until they are done.
OperatesOnOwnContext ==
  lock.stage = "working" => context = Made(lock.by, lock.host)

\* Between the middleware and the handler, while a form is read, nothing that
\* needs no lock (a profile saved or deleted, another page of the same session)
\* takes the activated connection away from a session that stays connected.
EnteredOnOwnContext ==
  \A s \in live : Entered(s) /\ scope[s].connected => context = Made(s, scope[s].host)

\* A session is connected by an operation of its own under the lock, and only
\* when the SDK has accepted its connection.
ConnectedByOwnOperation ==
  [][\A s \in Sessions : ~scope[s].connected /\ scope'[s].connected =>
        lock.by = s /\ context'.owner = s]_vars

\* A new connection is made with what a saved profile holds at that moment, not
\* with parameters that an administrator has changed or removed meanwhile.
ConnectsToStoredProfile ==
  [][\A s \in Sessions : Saved # {} /\ ~scope[s].connected /\ scope'[s].connected =>
        /\ scope'[s].sel \in Saved
        /\ scope'[s].host = profile[scope'[s].sel].host]_vars

\* Where profiles exist, exactly one of them is the default, through every
\* sequence of saving and deleting: the external API and new sessions rely on it.
SingleDefault ==
  Saved # {} => \E p \in Saved : \A q \in Profiles : profile[q].default = (q = p)

\* What RuntimeIsolationMiddleware is for: a Collection is deleted with the
\* session's own token or connection.  The code does not keep this.
CollectionsGoOnOwnContext ==
  lock.stage = "deleting" =>
    scope[lock.by].auth \/ context.owner \in {lock.by, None}
=============================================================================
