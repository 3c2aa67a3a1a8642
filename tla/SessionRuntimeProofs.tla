------------------------ MODULE SessionRuntimeProofs ------------------------
(***************************************************************************)
(* Proofs about SessionRuntime, for every number of sessions, profiles and   *)
(* hosts: the types, and that whoever works with the SDK finds it connected   *)
(* by himself.                                                               *)
(***************************************************************************)
EXTENDS SessionRuntime, WellFoundedInduction, TLAPS

-----------------------------------------------------------------------------
(* The default profile.                                                      *)

\* A nonempty set of profile ids has a least one: the oldest profile.
LEMMA LeastExists ==
  ASSUME NEW S, S \subseteq Nat, S # {}
  PROVE  \E p \in S : \A q \in S : p <= q
<1> DEFINE R == {ss \in Nat \X Nat : ss[1] < ss[2]}
<1>1. IsWellFoundedOn(R, Nat)
  BY NatLessThanWellFounded DEF OpToRel
<1>2. PICK p \in S : \A q \in S : ~ (<<q, p>> \in R)
  BY <1>1, WFMin
<1>3. ASSUME NEW q \in S PROVE p <= q
  <2>1. q \in Nat /\ p \in Nat
    OBVIOUS
  <2>2. <<q, p>> \in R <=> q < p
    BY <2>1
  <2>3. QED
    BY <1>2, <2>1, <2>2
<1>4. QED
  BY <1>3

\* Where profiles are saved, the default is one of them.
LEMMA DefaultIsSaved ==
  ASSUME NEW table, NEW p0 \in Profiles, table[p0].state = "saved"
  PROVE  DefaultOf(table) \in Profiles /\ table[DefaultOf(table)].state = "saved"
<1> DEFINE saved == {p \in Profiles : table[p].state = "saved"}
           first == {p \in saved : table[p].default}
           best == IF first # {} THEN first ELSE saved
<1>1. saved # {} /\ best # {} /\ best \subseteq saved /\ best \subseteq Nat
  BY IdAssumption
<1>2. \E p \in best : \A q \in best : p <= q
  BY <1>1, LeastExists
<1>3. DefaultOf(table) = CHOOSE p \in best : \A q \in best : p <= q
  BY <1>1 DEF DefaultOf
<1>4. DefaultOf(table) \in best
  BY <1>2, <1>3
<1>5. QED
  BY <1>1, <1>4

\* Without saved profiles there is no default one.
LEMMA NoDefault ==
  ASSUME NEW table, \A p \in Profiles : table[p].state # "saved"
  PROVE  DefaultOf(table) = None
BY DEF DefaultOf

-----------------------------------------------------------------------------
(* Scopes.  Each lemma says that one way of changing a scope keeps it typed.   *)

\* The scope of a session nobody has seen is in order.
LEMMA NoScopeOK == ScopeOK(NoScope) /\ ~NoScope.connected
  BY DEF ScopeOK, ScopeType, NoScope

\* Registering a session in app.state.user_sessions keeps its scope in order.
LEMMA KnownOK ==
  ASSUME NEW sc, ScopeOK(sc)
  PROVE  /\ ScopeOK([sc EXCEPT !.known = TRUE])
         /\ [sc EXCEPT !.known = TRUE].connected = sc.connected
BY DEF ScopeOK, ScopeType

\* Copying a saved profile into a scope keeps it in order.
LEMMA SelectedOK ==
  ASSUME NEW sc, ScopeOK(sc), NEW p \in Profiles, NEW h \in Hosts
  PROVE  /\ ScopeOK([sc EXCEPT !.sel = p, !.host = h])
         /\ [sc EXCEPT !.sel = p, !.host = h].connected = sc.connected
<1>1. p # None /\ h # None
  BY NoneAssumption
<1>2. QED
  BY <1>1 DEF ScopeOK, ScopeType

\* A disconnected scope may lose its profile.
LEMMA UnselectedOK ==
  ASSUME NEW sc, ScopeOK(sc), ~sc.connected
  PROVE  /\ ScopeOK([sc EXCEPT !.sel = None, !.host = None])
         /\ ~[sc EXCEPT !.sel = None, !.host = None].connected
BY DEF ScopeOK, ScopeType

\* Storing or dropping SDK authentication keeps a scope in order.
LEMMA AuthOK ==
  ASSUME NEW sc, ScopeOK(sc), NEW b \in BOOLEAN
  PROVE  ScopeOK([sc EXCEPT !.auth = b])
BY DEF ScopeOK, ScopeType

\* A scope may be disconnected, with its authentication or without.
LEMMA DisconnectedOK ==
  ASSUME NEW sc, ScopeOK(sc)
  PROVE  /\ ScopeOK([sc EXCEPT !.connected = FALSE])
         /\ ScopeOK([sc EXCEPT !.connected = FALSE, !.auth = FALSE])
BY DEF ScopeOK, ScopeType

\* A scope that has parameters may be connected.
LEMMA ConnectedOK ==
  ASSUME NEW sc, ScopeOK(sc), sc.host # None
  PROVE  ScopeOK([sc EXCEPT !.connected = TRUE, !.auth = TRUE])
BY DEF ScopeOK, ScopeType

\* apply_saved_connection_config keeps a scope in order and connects nobody.
LEMMA WithDefaultOK ==
  ASSUME NEW sc, ScopeOK(sc), \A p \in Profiles : ProfileOK(profile[p])
  PROVE  ScopeOK(WithDefault(sc)) /\ WithDefault(sc).connected = sc.connected
<1> DEFINE p == DefaultOf(profile)
<1>1. CASE p = None
  BY <1>1 DEF WithDefault
<1>2. CASE p # None
  <2>1. p \in Profiles /\ profile[p].state = "saved"
    BY <1>2, DefaultIsSaved, NoDefault
  <2>2. profile[p].host \in Hosts
    BY <2>1 DEF ProfileOK, ProfileType
  <2>3. WithDefault(sc) = [sc EXCEPT !.sel = p, !.host = profile[p].host]
    BY <1>2 DEF WithDefault
  <2> DEFINE chosen == [sc EXCEPT !.sel = p, !.host = profile[p].host]
  <2>4. ScopeOK(chosen) /\ chosen.connected = sc.connected
    BY <2>1, <2>2, SelectedOK
  <2> HIDE DEF chosen
  <2>5. WithDefault(sc) = chosen
    BY <2>3 DEF chosen
  <2>6. QED
    BY <2>4, <2>5
<1>3. QED
  BY <1>1, <1>2

\* _activate_session_state keeps a scope in order and leaves a connected one alone.
LEMMA ActivatedOK ==
  ASSUME TypeOK, NEW s \in Sessions
  PROVE  /\ ScopeOK(Activated(s)) /\ Activated(s).connected = scope[s].connected
         /\ scope[s].connected => Activated(s) = scope[s]
<1> DEFINE known == [scope[s] EXCEPT !.known = TRUE]
<1>1. ScopeOK(scope[s]) /\ \A p \in Profiles : ProfileOK(profile[p])
  BY DEF TypeOK
<1>2. ScopeOK(known) /\ known.connected = scope[s].connected
  BY <1>1, KnownOK
<1> HIDE DEF known
<1>3. Activated(s) = IF scope[s].connected THEN scope[s] ELSE WithDefault(known)
  BY DEF Activated, known
<1>4. QED
  BY <1>1, <1>2, <1>3, WithDefaultOK

-----------------------------------------------------------------------------
(* The parts of a step, each keeping its part of the type invariant.         *)

ProfilesOK == DOMAIN profile = Profiles /\ \A p \in Profiles : ProfileOK(profile[p])
ScopesOK == DOMAIN scope = Sessions /\ \A s \in Sessions : ScopeOK(scope[s])
ContextOK == context \in ContextType /\ identity \in Owners \cup {None}

\* The type invariant, by variable.
LEMMA TypeParts ==
  TypeOK <=> /\ ProfilesOK /\ ScopesOK /\ ContextOK /\ LockOK
             /\ live \subseteq Sessions /\ queued \subseteq Saved
BY DEF TypeOK, ProfilesOK, ScopesOK, ContextOK

\* A change of one scope to one in order keeps all in order.
LEMMA ScopeChange ==
  ASSUME ScopesOK, NEW s \in Sessions, NEW sc, ScopeOK(sc), scope' = [scope EXCEPT ![s] = sc]
  PROVE  ScopesOK'
BY DEF ScopesOK

\* An activation leaves a well-typed context.
LEMMA ActivatesOK ==
  ASSUME NEW o \in Owners, NEW h \in Hosts \cup {None}, Activates(o, h)
  PROVE  ContextOK'
BY DEF ContextOK, ContextType, Activates, Made

\* What a failed activation leaves is a well-typed context.
LEMMA FailedContextOK ==
  ASSUME ContextOK, NEW o \in Owners, NEW h \in Hosts \cup {None}, context' \in FailedContexts(o, h)
  PROVE  context' \in ContextType
BY DEF ContextOK, ContextType, FailedContexts, NoContext, Made

\* A failed or refused activation keeps context and identity well typed.
LEMMA FailsToActivateOK ==
  ASSUME ContextOK, NEW o \in Owners, NEW h \in Hosts \cup {None}, FailsToActivate(o, h)
  PROVE  ContextOK'
BY FailedContextOK DEF ContextOK, FailsToActivate

\* Taking, using and leaving the runtime lock keep it well typed.
LEMMA LockSteps ==
  /\ \A o \in Owners, stage \in {"entered", "plain"} : Take(o, stage) => LockOK'
  /\ \A o \in Owners, h \in Hosts \cup {None} : Working(o, h) => LockOK'
  /\ Leave => LockOK'
BY NoneAssumption DEF LockOK, LockType, Stages, Take, Working, Leave, Free

\* _ensure_connected_runtime_for_session keeps scopes, context and lock in order.
LEMMA ReactivateOK ==
  ASSUME TypeOK, NEW s \in Sessions, NEW sc, ScopeOK(sc), NEW ok \in BOOLEAN, Reactivate(s, sc, ok)
  PROVE  ScopesOK' /\ ContextOK' /\ LockOK'
<1>1. s \in Owners /\ sc.host \in Hosts \cup {None} /\ sc.host # None /\ ScopesOK /\ ContextOK
  BY TypeParts DEF Owners, Reactivate, ScopeOK, ScopeType
<1>2. CASE ok
  <2> DEFINE new == [sc EXCEPT !.connected = TRUE, !.auth = TRUE]
  <2>1. ScopeOK(new)
    BY <1>1, ConnectedOK
  <2>2. scope' = [scope EXCEPT ![s] = new] /\ Activates(s, sc.host) /\ Working(s, sc.host)
    BY <1>2 DEF Reactivate
  <2> HIDE DEF new
  <2>3. QED
    BY <1>1, <2>1, <2>2, ScopeChange, ActivatesOK, LockSteps
<1>3. CASE ~ok
  <2>1. scope' = [scope EXCEPT ![s] = sc] /\ FailsToActivate(s, sc.host) /\ Leave
    BY <1>3 DEF Reactivate
  <2>2. QED
    BY <1>1, <2>1, ScopeChange, FailsToActivateOK, LockSteps
<1>4. QED
  BY <1>2, <1>3

-----------------------------------------------------------------------------
(* Type correctness, one lemma for each kind of step.                        *)

\* The first state of the process is well typed.
LEMMA InitTyped == Init => TypeOK
<1> SUFFICES ASSUME Init PROVE TypeOK
  OBVIOUS
<1>1. ProfilesOK
  BY NoneAssumption DEF Init, ProfilesOK, ProfileOK, ProfileType
<1>2. ScopesOK
  BY NoScopeOK DEF Init, ScopesOK
<1>3. ContextOK /\ LockOK
  BY DEF Init, ContextOK, ContextType, NoContext, LockOK, LockType, Stages, Free
<1>4. QED
  BY <1>1, <1>2, <1>3, TypeParts DEF Init

\* Steps that leave the profiles and the sessions alone.
TableKept == UNCHANGED <<profile, live>> /\ queued' \subseteq Saved

\* A step that leaves the tables alone is typed when the scopes, the context and the lock are.
LEMMA KeptTyped ==
  ASSUME TypeOK, TableKept, ScopesOK', ContextOK', LockOK'
  PROVE  TypeOK'
BY DEF TypeOK, TableKept, ScopesOK, ContextOK, Saved

\* Requests of a session under the lock keep the types.
LEMMA LockedTyped ==
  ASSUME TypeOK, NEW s \in Sessions, Locked(s)
  PROVE  TypeOK'
<1> s \in Owners /\ ScopeOK(scope[s]) /\ scope[s].host \in Hosts \cup {None}
  BY DEF TypeOK, Owners, ScopeOK, ScopeType
<1> ScopesOK /\ ContextOK /\ LockOK /\ queued \subseteq Saved
  BY TypeParts
<1> USE DEF TableKept
<1>1. CASE Enter(s)
  <2>1. TableKept /\ LockOK'
    BY <1>1, LockSteps DEF Enter
  <2>2. CASE s \in live /\ scope[s].connected
    <3> DEFINE new == [scope[s] EXCEPT !.auth = TRUE]
    <3>1. ScopeOK(new)
      BY AuthOK
    <3>2. scope' = [scope EXCEPT ![s] = new] /\ Activates(s, scope[s].host)
      BY <1>1, <2>2 DEF Enter
    <3> HIDE DEF new
    <3>3. QED
      BY <2>1, <3>1, <3>2, ScopeChange, ActivatesOK, KeptTyped
  <2>3. CASE ~(s \in live /\ scope[s].connected)
    <3>1. UNCHANGED <<context, identity, scope>>
      BY <1>1, <2>3 DEF Enter
    <3>2. QED
      BY <2>1, <3>1, KeptTyped DEF ScopesOK, ContextOK
  <2>4. QED
    BY <2>2, <2>3
<1>2. CASE EnterFails(s)
  <2> DEFINE new == [scope[s] EXCEPT !.connected = FALSE]
  <2>1. ScopeOK(new)
    BY DisconnectedOK
  <2>2. scope' = [scope EXCEPT ![s] = new] /\ context' \in FailedContexts(s, scope[s].host)
        /\ identity' = None /\ TableKept /\ lock' = lock
    BY <1>2 DEF EnterFails
  <2> HIDE DEF new
  <2>3. ContextOK' /\ LockOK'
    BY <2>2, FailedContextOK DEF ContextOK, LockOK
  <2>4. QED
    BY <2>1, <2>2, <2>3, ScopeChange, KeptTyped
<1>3. CASE EnterPlain(s)
  BY <1>3, LockSteps, KeptTyped DEF EnterPlain, ScopesOK, ContextOK
<1>4. CASE Operate(s)
  BY <1>4, LockSteps, KeptTyped DEF Operate, ScopesOK, ContextOK
<1>5. CASE DeleteCollection(s)
  <2>1. ScopesOK'
    BY <1>5, ActivatedOK, ScopeChange DEF DeleteCollection
  <2>2. LockOK'
    BY <1>5, NoneAssumption DEF DeleteCollection, Entered, LockOK, LockType, Stages
  <2>3. QED
    BY <1>5, <2>1, <2>2, KeptTyped DEF DeleteCollection, ContextOK
<1>6. CASE QueueJob(s)
  <2>1. ScopesOK' /\ LockOK'
    BY <1>6, ActivatedOK, ScopeChange, LockSteps DEF QueueJob
  <2>2. QED
    BY <1>6, <2>1, KeptTyped DEF QueueJob, ContextOK
<1>7. CASE Refuse(s)
  <2>1. ScopesOK'
    <3>1. CASE s \in live
      BY <1>7, <3>1, ActivatedOK, ScopeChange DEF Refuse
    <3>2. CASE s \notin live
      BY <1>7, <3>2 DEF Refuse, ScopesOK
    <3>3. QED
      BY <3>1, <3>2
  <2>2. QED
    BY <1>7, <2>1, LockSteps, KeptTyped DEF Refuse, ContextOK
<1>8. CASE Reset(s)
  <2> DEFINE new == [NoScope EXCEPT !.known = TRUE]
  <2>1. ScopeOK(new)
    BY NoScopeOK, KnownOK
  <2>2. PICK sc : scope' = [scope EXCEPT ![s] = sc] /\ ScopeOK(sc)
    <3>1. CASE scope[s].sel \in Saved
      <4> DEFINE p == scope[s].sel
      <4>1. p \in Profiles /\ profile[p].host \in Hosts
        BY <3>1 DEF TypeOK, Saved, ProfileOK, ProfileType
      <4>2. scope' = [scope EXCEPT ![s] = [new EXCEPT !.sel = p, !.host = profile[p].host]]
        BY <1>8, <3>1 DEF Reset
      <4> HIDE DEF new, p
      <4>3. QED
        BY <2>1, <4>1, <4>2, SelectedOK
    <3>2. CASE scope[s].sel \notin Saved
      <4>1. scope' = [scope EXCEPT ![s] = WithDefault(new)]
        BY <1>8, <3>2 DEF Reset
      <4> HIDE DEF new
      <4>2. QED
        BY <2>1, <4>1, WithDefaultOK DEF TypeOK
    <3>3. QED
      BY <3>1, <3>2
  <2>3. ContextOK' /\ LockOK'
    BY <1>8, LockSteps DEF Reset, ContextOK, ContextType, NoContext
  <2>4. QED
    BY <1>8, <2>2, <2>3, ScopeChange, KeptTyped DEF Reset
<1>9. CASE ConnectGone(s)
  <2> DEFINE old == Activated(s)
             new == [old EXCEPT !.connected = FALSE, !.auth = FALSE]
  <2>1. ScopeOK(old)
    BY ActivatedOK
  <2>2. scope' = [scope EXCEPT ![s] = new]
    BY <1>9 DEF ConnectGone
  <2> HIDE DEF old
  <2>3. ScopeOK(new)
    BY <2>1, DisconnectedOK
  <2> HIDE DEF new
  <2>4. QED
    BY <1>9, <2>2, <2>3, LockSteps, ScopeChange, KeptTyped DEF ConnectGone, ContextOK
<1>10. ASSUME NEW ok \in BOOLEAN, Refresh(s, ok) PROVE TypeOK'
  <2>1. ScopesOK' /\ ContextOK' /\ LockOK'
    BY <1>10, ActivatedOK, ReactivateOK DEF Refresh
  <2>2. QED
    BY <1>10, <2>1, KeptTyped DEF Refresh
<1>11. ASSUME NEW ok \in BOOLEAN, ApiSession(s, ok) PROVE TypeOK'
  <2>1. ScopesOK' /\ ContextOK' /\ LockOK'
    BY <1>11, ReactivateOK DEF ApiSession
  <2>2. QED
    BY <1>11, <2>1, KeptTyped DEF ApiSession
<1>12. ASSUME NEW p \in Profiles, NEW ok \in BOOLEAN, Connect(s, p, ok) PROVE TypeOK'
  <2> DEFINE h == profile[p].host
             new == [known |-> TRUE, connected |-> ok, sel |-> p, host |-> h, auth |-> ok]
  <2>1. h \in Hosts /\ p # None /\ h # None
    BY <1>12, NoneAssumption DEF TypeOK, Connect, Saved, ProfileOK, ProfileType
  <2>2. ScopeOK(new)
    BY <2>1 DEF ScopeOK, ScopeType
  <2>3. /\ scope' = [scope EXCEPT ![s] = new] /\ Leave /\ TableKept
        /\ Activates(s, h) \/ FailsToActivate(s, h)
    BY <1>12 DEF Connect
  <2> HIDE DEF new, h
  <2>4. ContextOK'
    BY <2>1, <2>3, ActivatesOK, FailsToActivateOK
  <2>5. QED
    BY <2>2, <2>3, <2>4, ScopeChange, LockSteps, KeptTyped
<1>13. QED
  BY <1>1, <1>2, <1>3, <1>4, <1>5, <1>6, <1>7, <1>8, <1>9, <1>10, <1>11, <1>12 DEF Locked

\* Steps of the API client and of jobs, and the release of the lock.
LEMMA OthersTyped ==
  ASSUME TypeOK,
         \/ Done \/ EnterPlain(Api) \/ ApiRefused \/ JobEnds \/ Restart
         \/ \E ok \in BOOLEAN : ApiOperate(ok)
         \/ \E p \in Profiles : JobBegins(p) \/ JobFails(p)
  PROVE  TypeOK'
<1> Job \in Owners /\ Api \in Owners
  BY DEF Owners
<1> ScopesOK /\ ContextOK /\ LockOK /\ queued \subseteq Saved
  BY TypeParts
<1> USE DEF TableKept
<1>1. CASE Done
  BY <1>1, LockSteps, KeptTyped DEF Done, ScopesOK, ContextOK
<1>2. CASE EnterPlain(Api)
  BY <1>2, LockSteps, KeptTyped DEF EnterPlain, ScopesOK, ContextOK
<1>3. CASE ApiRefused
  BY <1>3, LockSteps, KeptTyped DEF ApiRefused, ScopesOK, ContextOK
<1>4. CASE JobEnds
  BY <1>4, LockSteps, KeptTyped DEF JobEnds, ScopesOK, ContextOK, ContextType, NoContext
<1>5. CASE Restart
  <2>1. ScopesOK'
    BY <1>5, NoScopeOK DEF Restart, ScopesOK
  <2>2. ContextOK' /\ LockOK'
    BY <1>5 DEF Restart, ContextOK, ContextType, NoContext, LockOK, LockType, Stages, Free
  <2>3. QED
    BY <1>5, <2>1, <2>2, KeptTyped DEF Restart
<1>6. ASSUME NEW ok \in BOOLEAN, ApiOperate(ok) PROVE TypeOK'
  <2> DEFINE h == profile[DefaultOf(profile)].host
  <2>1. DefaultOf(profile) \in Saved
    BY <1>6, DefaultIsSaved DEF ApiOperate, Saved
  <2>2. h \in Hosts \cup {None}
    BY <2>1 DEF TypeOK, Saved, ProfileOK, ProfileType
  <2>3. /\ (Activates(Api, h) /\ Working(Api, h)) \/ (FailsToActivate(Api, h) /\ Leave)
        /\ TableKept /\ scope' = scope
    BY <1>6 DEF ApiOperate
  <2> HIDE DEF h
  <2>4. ContextOK' /\ LockOK'
    BY <2>2, <2>3, ActivatesOK, FailsToActivateOK, LockSteps
  <2>5. QED
    BY <2>3, <2>4, KeptTyped DEF ScopesOK
<1>7. ASSUME NEW p \in Profiles, JobBegins(p) PROVE TypeOK'
  <2>1. profile[p].host \in Hosts \cup {None}
    BY DEF TypeOK, ProfileOK, ProfileType
  <2>2. ContextOK'
    BY <1>7, <2>1 DEF JobBegins, ContextOK, ContextType, Made
  <2>3. LockOK'
    BY <1>7, <2>1, NoneAssumption DEF JobBegins, LockOK, LockType, Stages
  <2>4. QED
    BY <1>7, <2>2, <2>3, KeptTyped DEF JobBegins, ScopesOK
<1>8. ASSUME NEW p \in Profiles, JobFails(p) PROVE TypeOK'
  <2>1. profile[p].host \in Hosts \cup {None}
    BY DEF TypeOK, ProfileOK, ProfileType
  <2>2. ContextOK'
    BY <1>8, <2>1, FailedContextOK DEF JobFails, ContextOK
  <2>3. QED
    BY <1>8, <2>2, KeptTyped DEF JobFails, ScopesOK, LockOK
<1>9. QED
  BY <1>1, <1>2, <1>3, <1>4, <1>5, <1>6, <1>7, <1>8

\* Requests of a session that take no lock.
LEMMA UnlockedTyped ==
  ASSUME TypeOK, NEW s \in Sessions, Unlocked(s)
  PROVE  TypeOK'
<1> ScopesOK /\ ContextOK /\ LockOK /\ queued \subseteq Saved /\ ProfilesOK /\ live \subseteq Sessions
  BY TypeParts
<1> SUFFICES ASSUME TRUE
             PROVE  /\ ScopesOK' /\ live' \subseteq Sessions
                    /\ UNCHANGED <<profile, context, identity, lock, queued>>
  BY DEF TypeOK, ScopesOK, ContextOK, LockOK, Saved, ProfilesOK
<1>1. CASE LogIn(s)
  <2> DEFINE new == [NoScope EXCEPT !.known = TRUE]
  <2>1. ScopeOK(new)
    BY NoScopeOK, KnownOK
  <2>2. scope' = [scope EXCEPT ![s] = WithDefault(new)]
    BY <1>1 DEF LogIn
  <2> HIDE DEF new
  <2>3. ScopesOK'
    BY <2>1, <2>2, WithDefaultOK, ScopeChange DEF ProfilesOK
  <2>4. QED
    BY <1>1, <2>3 DEF LogIn
<1>2. CASE Home(s)
  BY <1>2, ActivatedOK, ScopeChange DEF Home
<1>3. ASSUME NEW logout \in BOOLEAN, SessionEnds(s, logout)
      PROVE  ScopesOK' /\ live' \subseteq Sessions /\ UNCHANGED <<profile, context, identity, lock, queued>>
  <2>1. CASE logout
    BY <1>3, <2>1, NoScopeOK, ScopeChange DEF SessionEnds
  <2>2. CASE ~logout
    BY <1>3, <2>2 DEF SessionEnds, ScopesOK
  <2>3. QED
    BY <2>1, <2>2
<1>4. QED
  BY <1>1, <1>2, <1>3 DEF Unlocked

\* What an administrator does to the profiles.
LEMMA SaveTyped ==
  ASSUME TypeOK, NEW p \in Profiles, NEW h \in Hosts, NEW wish \in BOOLEAN, SaveProfile(p, h, wish)
  PROVE  TypeOK'
<1>1. ProfilesOK'
  <2>1. profile' = TableWith(p, h, wish)
    BY DEF SaveProfile
  <2>2. ASSUME NEW q \in Profiles PROVE ProfileOK(profile'[q])
    <3>1. ProfileOK(profile[q]) /\ profile[p].default \in BOOLEAN
      BY DEF TypeOK, ProfileOK, ProfileType
    <3>2. CASE q = p
      BY <2>1, <3>1, <3>2, NoneAssumption DEF TableWith, ProfileOK, ProfileType
    <3>3. CASE q # p
      BY <2>1, <3>1, <3>3 DEF TableWith, ProfileOK, ProfileType
    <3>4. QED
      BY <3>2, <3>3
  <2>3. QED
    BY <2>1, <2>2 DEF ProfilesOK, TableWith
<1>2. ScopesOK'
  <2>1. \A s \in Sessions : \/ scope'[s] = scope[s]
                             \/ scope'[s] = [scope[s] EXCEPT !.sel = p, !.host = h]
    BY DEF SaveProfile
  <2>2. DOMAIN scope' = Sessions
    BY DEF SaveProfile
  <2>3. ASSUME NEW s \in Sessions PROVE ScopeOK(scope'[s])
    <3> DEFINE new == [scope[s] EXCEPT !.sel = p, !.host = h]
    <3>1. ScopeOK(scope[s])
      BY DEF TypeOK
    <3>2. ScopeOK(new)
      BY <3>1, SelectedOK
    <3>3. scope'[s] = scope[s] \/ scope'[s] = new
      BY <2>1
    <3> HIDE DEF new
    <3>4. QED
      BY <3>1, <3>2, <3>3
  <2>4. QED
    BY <2>2, <2>3 DEF ScopesOK
<1>3. queued' \subseteq Saved'
  <2>1. ASSUME NEW q \in Profiles, profile[q].state = "saved" PROVE profile'[q].state = "saved"
    <3>1. profile' = TableWith(p, h, wish) /\ profile[q] \in ProfileType
      BY DEF SaveProfile, TypeOK, ProfileOK
    <3>2. QED
      BY <2>1, <3>1 DEF TableWith, ProfileType
  <2>2. QED
    BY <2>1 DEF TypeOK, SaveProfile, Saved
<1>4. QED
  BY <1>1, <1>2, <1>3, TypeParts DEF TypeOK, SaveProfile, ProfilesOK, ScopesOK, LockOK

\* Deleting a profile, with the promotion of another, leaves a table in order.
LEMMA PromotedTable ==
  ASSUME TypeOK, NEW p \in Saved, NEW table, table = Promoted(p)
  PROVE  /\ DOMAIN table = Profiles
         /\ \A q \in Profiles : ProfileOK(table[q])
         /\ \A q \in Profiles \ {p} : table[q].state = profile[q].state
<1> DEFINE rest == Without(p)
           d == DefaultOf(rest)
<1>1. p \in Profiles /\ DOMAIN profile = Profiles /\ \A q \in Profiles : ProfileOK(profile[q])
  BY DEF Saved, TypeOK
<1>2. /\ DOMAIN rest = Profiles
      /\ \A q \in Profiles : ProfileOK(rest[q]) /\ (q # p => rest[q] = profile[q])
      /\ rest[p].state = "deleted"
  BY <1>1 DEF Without, ProfileOK, ProfileType
<1>3. CASE ~(profile[p].default /\ Saved # {p})
  BY <1>1, <1>2, <1>3 DEF Promoted
<1>4. CASE profile[p].default /\ Saved # {p}
  <2>1. PICK q \in Saved : q # p
    BY <1>4
  <2>2. q \in Profiles /\ rest[q].state = "saved"
    BY <1>2, <2>1 DEF Saved
  <2>3. d \in Profiles /\ rest[d].state = "saved"
    BY <2>2, DefaultIsSaved
  <2>4. Promoted(p) = [rest EXCEPT ![d].default = TRUE]
    BY <1>4 DEF Promoted
  <2>5. d # p
    BY <1>2, <2>3
  <2> HIDE DEF rest, d
  <2>6. ProfileOK([rest[d] EXCEPT !.default = TRUE]) /\ [rest[d] EXCEPT !.default = TRUE].state = rest[d].state
    BY <1>2, <2>3 DEF ProfileOK, ProfileType
  <2>7. QED
    BY <1>1, <1>2, <2>3, <2>4, <2>5, <2>6
<1>5. QED
  BY <1>3, <1>4

\* Deleting a profile keeps the types: nothing refers to it any more.
LEMMA DeleteTyped ==
  ASSUME TypeOK, NEW p \in Profiles, DeleteProfile(p)
  PROVE  TypeOK'
<1>1. p \in Saved /\ profile' = Promoted(p)
  BY DEF DeleteProfile
<1>2. ProfilesOK' /\ \A q \in Profiles \ {p} : profile'[q].state = profile[q].state
  BY <1>1, PromotedTable DEF ProfilesOK
<1>3. ScopesOK'
  <2> DEFINE d == DefaultOf(profile')
             dh == IF d = None THEN None ELSE profile'[d].host
  <2>1. DOMAIN scope' = Sessions
    BY DEF DeleteProfile
  <2>2. ASSUME NEW s \in Sessions PROVE ScopeOK(scope'[s])
    <3>1. ScopeOK(scope[s])
      BY DEF TypeOK
    <3>2. CASE ~(scope[s].known /\ ~scope[s].connected /\ scope[s].sel = p)
      BY <3>1, <3>2 DEF DeleteProfile
    <3>3. CASE scope[s].known /\ ~scope[s].connected /\ scope[s].sel = p
      <4>1. scope'[s] = [scope[s] EXCEPT !.sel = d, !.host = dh]
        BY <3>3 DEF DeleteProfile
      <4>2. CASE d = None
        <5> DEFINE sc == [scope[s] EXCEPT !.sel = None, !.host = None]
        <5>1. ScopeOK(sc)
          BY <3>1, <3>3, UnselectedOK
        <5>2. scope'[s] = sc
          BY <4>1, <4>2
        <5> HIDE DEF sc
        <5>3. QED
          BY <5>1, <5>2
      <4>3. CASE d # None
        <5>1. d \in Profiles /\ profile'[d].state = "saved"
          BY <4>3, DefaultIsSaved, NoDefault
        <5>2. dh \in Hosts
          BY <1>2, <4>3, <5>1 DEF ProfilesOK, ProfileOK, ProfileType
        <5> HIDE DEF d, dh
        <5> DEFINE sc == [scope[s] EXCEPT !.sel = d, !.host = dh]
        <5>3. ScopeOK(sc)
          BY <3>1, <5>1, <5>2, SelectedOK
        <5>4. scope'[s] = sc
          BY <4>1
        <5> HIDE DEF sc
        <5>5. QED
          BY <5>3, <5>4
      <4>4. QED
        BY <4>2, <4>3
    <3>4. QED
      BY <3>2, <3>3
  <2>3. QED
    BY <2>1, <2>2 DEF ScopesOK
<1>4. queued' \subseteq Saved'
  BY <1>1, <1>2 DEF TypeOK, DeleteProfile, Saved
<1>5. QED
  BY <1>2, <1>3, <1>4 DEF TypeOK, DeleteProfile, ProfilesOK, ScopesOK, LockOK

\* Every state of the runtime is well typed: in particular a connected session has
\* the parameters of a connection, and a job that waits has a profile.
THEOREM TypeCorrect == Spec => []TypeOK
<1>1. TypeOK /\ [Next]_vars => TypeOK'
  <2> SUFFICES ASSUME TypeOK, [Next]_vars PROVE TypeOK'
    OBVIOUS
  <2>1. CASE UNCHANGED vars
    BY <2>1 DEF TypeOK, vars, LockOK, Saved
  <2>2. CASE Next
    BY <2>2, LockedTyped, UnlockedTyped, OthersTyped, SaveTyped, DeleteTyped DEF Next
  <2>3. QED
    BY <2>1, <2>2
<1>2. QED
  BY InitTyped, <1>1, PTL DEF Spec

-----------------------------------------------------------------------------
(* Turns.  That one works on one's own context is not inductive: it has to be  *)
(* followed back to the moment the middleware let the session in, and while a  *)
(* session is in, steps that take no lock must leave its connection alone.    *)

TurnInv == OperatesOnOwnContext /\ EnteredOnOwnContext

\* Nobody but the holder of the lock changes a scope that is connected, unless
\* the session ends or the process stops.
Quiet ==
  /\ UNCHANGED <<context, lock>>
  /\ \A r \in Sessions : scope'[r].connected => scope[r].connected /\ scope'[r] = scope[r]
  /\ \A r \in live' : r \in live \/ ~scope'[r].connected

\* Requests without the lock leave the SDK, the lock and connected sessions alone.
LEMMA UnlockedSteps ==
  ASSUME TypeOK,
         \/ \E s \in Sessions : Unlocked(s)
         \/ \E p \in Profiles : DeleteProfile(p)
         \/ \E p \in Profiles, h \in Hosts, wish \in BOOLEAN : SaveProfile(p, h, wish)
  PROVE  Quiet
<1> /\ DOMAIN scope = Sessions /\ live \subseteq Sessions
    /\ \A r \in Sessions : ScopeOK(scope[r])
    /\ \A p \in Profiles : ProfileOK(profile[p])
  BY DEF TypeOK
<1>1. ASSUME NEW s \in Sessions, LogIn(s) PROVE Quiet
  <2> DEFINE new == [NoScope EXCEPT !.known = TRUE]
  <2>1. ScopeOK(new) /\ ~new.connected
    BY NoScopeOK, KnownOK
  <2>2. scope' = [scope EXCEPT ![s] = WithDefault(new)] /\ live' = live \cup {s}
        /\ UNCHANGED <<context, lock>>
    BY <1>1 DEF LogIn
  <2> HIDE DEF new
  <2>3. ~WithDefault(new).connected
    BY <2>1, WithDefaultOK
  <2>4. QED
    BY <2>2, <2>3 DEF Quiet
<1>2. ASSUME NEW s \in Sessions, Home(s) PROVE Quiet
  BY <1>2, ActivatedOK DEF Home, Quiet
<1>3. ASSUME NEW s \in Sessions, NEW logout \in BOOLEAN, SessionEnds(s, logout)
      PROVE  /\ UNCHANGED <<context, lock>> /\ live' \subseteq live
             /\ \A r \in Sessions : scope'[r].connected => scope[r].connected /\ scope'[r] = scope[r]
  BY <1>3, NoScopeOK DEF SessionEnds
<1>4. ASSUME NEW p \in Profiles, DeleteProfile(p)
      PROVE  /\ UNCHANGED <<context, lock, live>>
             /\ \A r \in Sessions : scope'[r].connected => scope[r].connected /\ scope'[r] = scope[r]
  <2> SUFFICES ASSUME NEW r \in Sessions, scope'[r].connected
               PROVE  scope[r].connected /\ scope'[r] = scope[r]
    BY <1>4 DEF DeleteProfile
  <2>1. CASE scope[r].connected
    BY <1>4, <2>1 DEF DeleteProfile
  <2>2. CASE ~scope[r].connected
    <3>1. scope'[r] = scope[r] \/ \E a, b : scope'[r] = [scope[r] EXCEPT !.sel = a, !.host = b]
      BY <1>4 DEF DeleteProfile
    <3>2. ~scope'[r].connected
      BY <2>2, <3>1 DEF ScopeOK, ScopeType
    <3>3. QED
      BY <3>2
  <2>3. QED
    BY <2>1, <2>2
<1>5. ASSUME NEW p \in Profiles, NEW h \in Hosts, NEW wish \in BOOLEAN, SaveProfile(p, h, wish)
      PROVE  /\ UNCHANGED <<context, lock, live>>
             /\ \A r \in Sessions : scope'[r].connected => scope[r].connected /\ scope'[r] = scope[r]
  <2> SUFFICES ASSUME NEW r \in Sessions, scope'[r].connected
               PROVE  scope[r].connected /\ scope'[r] = scope[r]
    BY <1>5 DEF SaveProfile
  <2>1. CASE scope[r].connected
    BY <1>5, <2>1 DEF SaveProfile
  <2>2. CASE ~scope[r].connected
    <3>1. scope'[r] = scope[r] \/ scope'[r] = [scope[r] EXCEPT !.sel = p, !.host = h]
      BY <1>5 DEF SaveProfile
    <3>2. ~scope'[r].connected
      BY <2>2, <3>1 DEF ScopeOK, ScopeType
    <3>3. QED
      BY <3>2
  <2>3. QED
    BY <2>1, <2>2
<1>6. QED
  BY <1>1, <1>2, <1>3, <1>4, <1>5 DEF Unlocked, Quiet

\* Whoever holds the lock without working owes nothing.
LEMMA NoTurn ==
  ASSUME lock'.stage \notin {"entered", "working"}
  PROVE  TurnInv'
BY DEF TurnInv, OperatesOnOwnContext, EnteredOnOwnContext, Entered

\* Work begun with an activation of one's own finds its context.
LEMMA WorkingTurn ==
  ASSUME NEW o, NEW h, Working(o, h), context' = Made(o, h)
  PROVE  TurnInv'
BY DEF TurnInv, OperatesOnOwnContext, EnteredOnOwnContext, Entered, Working, Made

\* A handler that activates its session works on that session's context.
LEMMA ReactivateTurn ==
  ASSUME NEW s, NEW sc, NEW ok \in BOOLEAN, Reactivate(s, sc, ok)
  PROVE  TurnInv'
<1>1. CASE ok
  BY <1>1, WorkingTurn DEF Reactivate, Activates
<1>2. CASE ~ok
  BY <1>2, NoTurn DEF Reactivate, Leave, Free
<1>3. QED
  BY <1>1, <1>2

\* Requests of a session under the lock keep the turns.
LEMMA LockedTurns ==
  ASSUME TypeOK, TurnInv, NEW s \in Sessions, Locked(s)
  PROVE  TurnInv'
<1> DOMAIN scope = Sessions /\ ScopeOK(scope[s])
  BY DEF TypeOK
<1>1. CASE Enter(s)
  <2>1. lock' = [by |-> s, stage |-> "entered", host |-> None] /\ live' = live
    BY <1>1 DEF Enter, Take
  <2>2. CASE s \in live /\ scope[s].connected
    <3>1. scope'[s].host = scope[s].host /\ context' = Made(s, scope[s].host)
      BY <1>1, <2>2 DEF Enter, Activates, ScopeOK, ScopeType
    <3>2. QED
      BY <2>1, <3>1 DEF TurnInv, OperatesOnOwnContext, EnteredOnOwnContext, Entered, Made
  <2>3. CASE ~(s \in live /\ scope[s].connected)
    <3>1. scope' = scope
      BY <1>1, <2>3 DEF Enter
    <3>2. QED
      BY <2>1, <2>3, <3>1 DEF TurnInv, OperatesOnOwnContext, EnteredOnOwnContext, Entered
  <2>4. QED
    BY <2>2, <2>3
<1>2. CASE EnterFails(s) \/ EnterPlain(s) \/ DeleteCollection(s)
  BY <1>2, NoTurn DEF EnterFails, EnterPlain, Take, DeleteCollection, LockOK, LockType, TypeOK
<1>3. CASE QueueJob(s) \/ Refuse(s) \/ Reset(s) \/ ConnectGone(s)
  BY <1>3, NoTurn DEF QueueJob, Refuse, Reset, ConnectGone, Leave, Free
<1>4. CASE Operate(s)
  BY <1>4, WorkingTurn DEF Operate, TurnInv, EnteredOnOwnContext
<1>5. ASSUME NEW ok \in BOOLEAN, Refresh(s, ok) \/ ApiSession(s, ok) PROVE TurnInv'
  BY <1>5, ReactivateTurn DEF Refresh, ApiSession
<1>6. ASSUME NEW p \in Profiles, NEW ok \in BOOLEAN, Connect(s, p, ok) PROVE TurnInv'
  BY <1>6, NoTurn DEF Connect, Leave, Free
<1>7. QED
  BY <1>1, <1>2, <1>3, <1>4, <1>5, <1>6 DEF Locked

\* The API, the jobs, the release of the lock and a restart keep the turns.
LEMMA OtherTurns ==
  ASSUME TypeOK, TurnInv,
         \/ Done \/ EnterPlain(Api) \/ ApiRefused \/ JobEnds \/ Restart
         \/ \E ok \in BOOLEAN : ApiOperate(ok)
         \/ \E p \in Profiles : JobBegins(p) \/ JobFails(p)
  PROVE  TurnInv'
<1>1. CASE Done \/ EnterPlain(Api) \/ ApiRefused \/ JobEnds \/ Restart
  BY <1>1, NoTurn DEF Done, EnterPlain, Take, ApiRefused, JobEnds, Restart, Leave, Free
<1>2. ASSUME NEW ok \in BOOLEAN, ApiOperate(ok) PROVE TurnInv'
  <2>1. CASE ok
    BY <1>2, <2>1, WorkingTurn DEF ApiOperate, Activates
  <2>2. CASE ~ok
    BY <1>2, <2>2, NoTurn DEF ApiOperate, Leave, Free
  <2>3. QED
    BY <2>1, <2>2
<1>3. ASSUME NEW p \in Profiles, JobBegins(p) PROVE TurnInv'
  BY <1>3, WorkingTurn DEF JobBegins, Working
<1>4. ASSUME NEW p \in Profiles, JobFails(p) PROVE TurnInv'
  BY <1>4, NoTurn DEF JobFails
<1>5. QED
  BY <1>1, <1>2, <1>3, <1>4

\* Requests without the lock keep the turns of others.
LEMMA UnlockedTurns ==
  ASSUME TypeOK, TurnInv,
         \/ \E s \in Sessions : Unlocked(s)
         \/ \E p \in Profiles : DeleteProfile(p)
         \/ \E p \in Profiles, h \in Hosts, wish \in BOOLEAN : SaveProfile(p, h, wish)
  PROVE  TurnInv'
<1>1. Quiet
  BY UnlockedSteps
<1>2. ASSUME NEW r \in live, Entered(r), scope[r].connected PROVE context = Made(r, scope[r].host)
  BY <1>2 DEF TurnInv, EnteredOnOwnContext
<1>3. live \subseteq Sessions
  BY DEF TypeOK
<1>4. ASSUME NEW r \in live', Entered(r)', scope'[r].connected PROVE context' = Made(r, scope'[r].host)
  BY <1>1, <1>2, <1>3, <1>4 DEF Entered, Quiet
<1>5. QED
  BY <1>1, <1>4 DEF Quiet, TurnInv, OperatesOnOwnContext, EnteredOnOwnContext, Made

\* Whoever works with the SDK finds it connected by himself and to his own host,
\* and a session that was let in keeps its connection until its handler runs: the
\* promise of RuntimeIsolationMiddleware and of the jobs, which share one SDK.
THEOREM OwnContext == Spec => [](OperatesOnOwnContext /\ EnteredOnOwnContext)
<1>1. Init => TurnInv
  BY DEF Init, TurnInv, OperatesOnOwnContext, EnteredOnOwnContext, Entered, Free
<1>2. TypeOK /\ TurnInv /\ [Next]_vars => TurnInv'
  <2> SUFFICES ASSUME TypeOK, TurnInv, [Next]_vars PROVE TurnInv'
    OBVIOUS
  <2>1. CASE UNCHANGED vars
    BY <2>1 DEF TurnInv, OperatesOnOwnContext, EnteredOnOwnContext, Entered, Made, vars
  <2>2. ASSUME NEW s \in Sessions, Locked(s) \/ Unlocked(s) PROVE TurnInv'
    BY <2>2, LockedTurns, UnlockedTurns
  <2>3. CASE \/ Done \/ EnterPlain(Api) \/ ApiRefused \/ JobEnds \/ Restart
             \/ \E ok \in BOOLEAN : ApiOperate(ok)
             \/ \E p \in Profiles : JobBegins(p) \/ JobFails(p)
    BY <2>3, OtherTurns
  <2>4. CASE \/ \E p \in Profiles : DeleteProfile(p)
             \/ \E p \in Profiles, h \in Hosts, wish \in BOOLEAN : SaveProfile(p, h, wish)
    BY <2>4, UnlockedTurns
  <2>5. QED
    BY <2>1, <2>2, <2>3, <2>4 DEF Next
<1>3. QED
  BY <1>1, <1>2, TypeCorrect, PTL DEF Spec, TurnInv

-----------------------------------------------------------------------------
(* How a session becomes connected.                                          *)

\* The scope a disconnected session works with names the default profile.
LEMMA ActivatedAnew ==
  ASSUME TypeOK, NEW s \in Sessions, ~scope[s].connected, Saved # {}
  PROVE  Activated(s).sel \in Saved /\ Activated(s).host = profile[Activated(s).sel].host
<1> DEFINE p == DefaultOf(profile)
           known == [scope[s] EXCEPT !.known = TRUE]
<1>1. p \in Saved /\ p # None
  BY DefaultIsSaved, NoneAssumption DEF Saved
<1>2. ScopeOK(known)
  BY KnownOK DEF TypeOK
<1> HIDE DEF known
<1>3. Activated(s) = [known EXCEPT !.sel = p, !.host = profile[p].host]
  BY <1>1 DEF Activated, WithDefault, known
<1>4. QED
  BY <1>1, <1>2, <1>3 DEF ScopeOK, ScopeType

FromStore(s) ==
  Saved # {} => scope'[s].sel \in Saved /\ scope'[s].host = profile[scope'[s].sel].host

\* The steps of other sessions, and those that do not connect.
LEMMA NotConnecting ==
  ASSUME TypeOK, NEW s \in Sessions, ~scope[s].connected, NEW a \in Sessions,
         \/ Enter(a) \/ EnterFails(a) \/ EnterPlain(a)
         \/ Operate(a) \/ DeleteCollection(a) \/ QueueJob(a) \/ Refuse(a) \/ Reset(a) \/ ConnectGone(a)
  PROVE  ~scope'[s].connected
<1> /\ DOMAIN scope = Sessions
    /\ \A r \in Sessions : ScopeOK(scope[r])
    /\ \A p \in Profiles : ProfileOK(profile[p])
    /\ ScopeOK(Activated(a)) /\ Activated(a).connected = scope[a].connected
  BY ActivatedOK DEF TypeOK
<1>1. CASE Enter(a)
  BY <1>1 DEF Enter, ScopeOK, ScopeType
<1>2. CASE EnterFails(a)
  BY <1>2 DEF EnterFails, ScopeOK, ScopeType
<1>3. CASE EnterPlain(a) \/ Operate(a)
  BY <1>3 DEF EnterPlain, Operate
<1>4. CASE DeleteCollection(a) \/ QueueJob(a) \/ Refuse(a)
  BY <1>4 DEF DeleteCollection, QueueJob, Refuse
<1>5. CASE Reset(a)
  <2> DEFINE new == [NoScope EXCEPT !.known = TRUE]
  <2>1. ScopeOK(new) /\ ~new.connected
    BY NoScopeOK, KnownOK
  <2>2. \/ \E p, h : scope' = [scope EXCEPT ![a] = [new EXCEPT !.sel = p, !.host = h]]
        \/ scope' = [scope EXCEPT ![a] = WithDefault(new)]
    BY <1>5 DEF Reset
  <2> HIDE DEF new
  <2>3. ~WithDefault(new).connected
    BY <2>1, WithDefaultOK
  <2>4. \A p, h : ~[new EXCEPT !.sel = p, !.host = h].connected
    BY <2>1 DEF ScopeOK, ScopeType
  <2>5. QED
    BY <2>2, <2>3, <2>4
<1>6. CASE ConnectGone(a)
  BY <1>6 DEF ConnectGone, ScopeOK, ScopeType
<1>7. QED
  BY <1>1, <1>2, <1>3, <1>4, <1>5, <1>6

\* Whichever step connects a session is its own, and takes a saved profile.
LEMMA NewConnection ==
  ASSUME TypeOK, Next, NEW s \in Sessions, ~scope[s].connected, scope'[s].connected
  PROVE  lock.by = s /\ context'.owner = s /\ FromStore(s)
<1> DOMAIN scope = Sessions /\ ScopeOK(scope[s]) /\ ScopeOK(Activated(s))
  BY ActivatedOK DEF TypeOK
<1>1. PICK a \in Sessions : Locked(a)
  <2>1. ~ \E a \in Sessions : Unlocked(a)
    BY UnlockedSteps DEF Quiet
  <2>2. ~ \E p \in Profiles : DeleteProfile(p)
    BY UnlockedSteps DEF Quiet
  <2>3. ~ \E p \in Profiles, h \in Hosts, wish \in BOOLEAN : SaveProfile(p, h, wish)
    BY UnlockedSteps DEF Quiet
  <2>4. ~(Done \/ EnterPlain(Api) \/ ApiRefused \/ JobEnds \/ Restart)
    BY NoScopeOK DEF Done, EnterPlain, ApiRefused, JobEnds, Restart
  <2>5. ~(\E ok \in BOOLEAN : ApiOperate(ok)) /\ ~(\E p \in Profiles : JobBegins(p) \/ JobFails(p))
    BY DEF ApiOperate, JobBegins, JobFails
  <2>6. QED
    BY <2>1, <2>2, <2>3, <2>4, <2>5 DEF Next
<1>2. ASSUME NEW ok \in BOOLEAN, Refresh(a, ok)
      PROVE  lock.by = s /\ context'.owner = s /\ FromStore(s)
  <2> DEFINE sc == Activated(a)
  <2>1. Activated(a).connected = scope[a].connected /\ ScopeOK(sc)
    BY ActivatedOK
  <2>2. ok
    BY <1>2, <2>1 DEF Refresh, Reactivate
  <2>3. /\ scope' = [scope EXCEPT ![a] = [sc EXCEPT !.connected = TRUE, !.auth = TRUE]]
        /\ context' = Made(a, sc.host) /\ lock.by = a
    BY <1>2, <2>2 DEF Refresh, Reactivate, Activates, Entered
  <2>4. s = a
    BY <2>3
  <2>5. scope'[s].sel = sc.sel /\ scope'[s].host = sc.host
    BY <2>1, <2>3, <2>4 DEF ScopeOK, ScopeType
  <2>6. QED
    BY <2>3, <2>4, <2>5, ActivatedAnew DEF FromStore, Made
<1>3. ASSUME NEW ok \in BOOLEAN, ApiSession(a, ok) PROVE FALSE
  BY <1>3 DEF ApiSession, Reactivate
<1>4. ASSUME NEW p \in Profiles, NEW ok \in BOOLEAN, Connect(a, p, ok)
      PROVE  lock.by = s /\ context'.owner = s /\ FromStore(s)
  <2>1. s = a /\ ok
    BY <1>4 DEF Connect
  <2>2. QED
    BY <1>4, <2>1 DEF Connect, Plain, Activates, Made, FromStore
<1>5. QED
  BY <1>1, <1>2, <1>3, <1>4, NotConnecting DEF Locked

\* A session becomes connected only by a step it takes itself under the lock, with
\* the SDK connected for it: no job, API call or administrator connects it.
THEOREM ConnectsItself == Spec => ConnectedByOwnOperation
<1>1. TypeOK /\ [Next]_vars => [\A s \in Sessions : ~scope[s].connected /\ scope'[s].connected =>
                                 lock.by = s /\ context'.owner = s]_vars
  BY NewConnection
<1>2. QED
  BY <1>1, TypeCorrect, PTL DEF Spec, ConnectedByOwnOperation

\* ... and with what a saved profile holds at that moment.
THEOREM ConnectsFromStore == Spec => ConnectsToStoredProfile
<1>1. TypeOK /\ [Next]_vars =>
        [\A s \in Sessions : Saved # {} /\ ~scope[s].connected /\ scope'[s].connected =>
            /\ scope'[s].sel \in Saved
            /\ scope'[s].host = profile[scope'[s].sel].host]_vars
  BY NewConnection DEF FromStore
<1>2. QED
  BY <1>1, TypeCorrect, PTL DEF Spec, ConnectsToStoredProfile

-----------------------------------------------------------------------------
(* The default profile is one.                                               *)

\* Saving a profile leaves exactly one default.
LEMMA SaveKeepsSingle ==
  ASSUME TypeOK, SingleDefault, NEW p \in Profiles, NEW h \in Hosts, NEW wish \in BOOLEAN,
         SaveProfile(p, h, wish)
  PROVE  SingleDefault'
<1>1. profile' = TableWith(p, h, wish) /\ \A q \in Profiles : profile[q] \in ProfileType
  BY DEF SaveProfile, TypeOK, ProfileOK
<1>2. profile'[p].state = "saved"
  BY <1>1 DEF TableWith
<1>3. CASE wish \/ Saved = {}
  <2>1. \A q \in Profiles : profile'[q].default = (q = p)
    BY <1>1, <1>3 DEF TableWith, ProfileType
  <2>2. QED
    BY <1>2, <2>1 DEF SingleDefault, Saved
<1>4. CASE ~(wish \/ Saved = {})
  <2>1. PICK d \in Saved : \A q \in Profiles : profile[q].default = (q = d)
    BY <1>4 DEF SingleDefault
  <2>2. profile'[d].state = "saved" /\ d \in Profiles
    BY <1>1, <1>4, <2>1 DEF TableWith, Saved
  <2>3. ASSUME NEW q \in Profiles PROVE profile'[q].default = (q = d)
    <3>1. CASE q = p
      BY <1>1, <1>4, <2>1, <3>1 DEF TableWith
    <3>2. CASE q # p
      BY <1>1, <1>4, <2>1, <3>2 DEF TableWith
    <3>3. QED
      BY <3>1, <3>2
  <2>4. QED
    BY <2>2, <2>3 DEF SingleDefault, Saved
<1>5. QED
  BY <1>3, <1>4

\* Deleting a profile leaves exactly one default while any is left.
LEMMA DeleteKeepsSingle ==
  ASSUME TypeOK, SingleDefault, NEW p \in Profiles, DeleteProfile(p)
  PROVE  SingleDefault'
<1> DEFINE rest == Without(p)
           d == DefaultOf(rest)
<1>1. p \in Saved /\ profile' = Promoted(p)
  BY DEF DeleteProfile
<1>2. PICK e \in Saved : \A q \in Profiles : profile[q].default = (q = e)
  BY <1>1 DEF SingleDefault
<1>3. /\ DOMAIN rest = Profiles /\ ~rest[p].default /\ rest[p].state = "deleted"
      /\ \A q \in Profiles \ {p} : rest[q] = profile[q]
      /\ \A q \in Profiles : rest[q] \in ProfileType
  BY <1>1 DEF TypeOK, ProfileOK, ProfileType, Without, Saved
<1>4. CASE ~profile[p].default
  <2>1. profile' = rest /\ e # p /\ e \in Profiles /\ profile[e].state = "saved"
    BY <1>1, <1>2, <1>4 DEF Promoted, Saved
  <2> HIDE DEF rest, d
  <2>2. profile'[e].state = "saved" /\ \A q \in Profiles : profile'[q].default = (q = e)
    <3>1. ASSUME NEW q \in Profiles PROVE rest[q].default = (q = e)
      <4>1. CASE q = p
        BY <1>3, <2>1, <4>1 DEF ProfileType
      <4>2. CASE q # p
        BY <1>2, <1>3, <4>2
      <4>3. QED
        BY <4>1, <4>2
    <3>2. QED
      BY <1>3, <2>1, <3>1
  <2>3. QED
    BY <2>1, <2>2 DEF SingleDefault, Saved
<1>5. CASE profile[p].default /\ Saved = {p}
  <2>1. profile' = rest
    BY <1>1, <1>5 DEF Promoted
  <2> HIDE DEF rest, d
  <2>2. Saved' = {}
    BY <1>3, <1>5, <2>1 DEF Saved
  <2>3. QED
    BY <2>2 DEF SingleDefault
<1>6. CASE profile[p].default /\ Saved # {p}
  <2>1. PICK q \in Saved : q # p
    BY <1>1, <1>6
  <2>2. q \in Profiles /\ rest[q].state = "saved"
    BY <1>3, <2>1 DEF Saved
  <2>3. d \in Profiles /\ rest[d].state = "saved"
    BY <2>2, DefaultIsSaved
  <2>4. profile' = [rest EXCEPT ![d].default = TRUE]
    BY <1>1, <1>6 DEF Promoted
  <2> HIDE DEF rest, d
  <2>5. e = p
    BY <1>1, <1>2, <1>6 DEF Saved
  <2>6. \A r \in Profiles : rest[r].default = FALSE
    <3>1. ASSUME NEW r \in Profiles \ {p} PROVE rest[r].default = FALSE
      BY <1>2, <1>3, <2>5, <3>1 DEF ProfileType
    <3>2. rest[p].default = FALSE
      BY <1>1, <1>3 DEF ProfileType, Saved
    <3>3. QED
      BY <3>1, <3>2
  <2>7. \A r \in Profiles : profile'[r].default = (r = d)
    BY <1>3, <2>3, <2>4, <2>6 DEF ProfileType
  <2>8. profile'[d].state = "saved"
    BY <1>3, <2>3, <2>4 DEF ProfileType
  <2>9. QED
    BY <2>3, <2>7, <2>8 DEF SingleDefault, Saved
<1>7. QED
  BY <1>4, <1>5, <1>6

\* Where profiles exist exactly one is the default, after any sequence of saving
\* and deleting them.
THEOREM OneDefault == Spec => []SingleDefault
<1>1. Init => SingleDefault
  BY DEF Init, SingleDefault, Saved
<1>2. TypeOK /\ SingleDefault /\ [Next]_vars => SingleDefault'
  <2> SUFFICES ASSUME TypeOK, SingleDefault, [Next]_vars PROVE SingleDefault'
    OBVIOUS
  <2>1. CASE profile' = profile
    BY <2>1 DEF SingleDefault, Saved
  <2>2. ASSUME NEW p \in Profiles, DeleteProfile(p) PROVE SingleDefault'
    BY <2>2, DeleteKeepsSingle
  <2>3. ASSUME NEW p \in Profiles, NEW h \in Hosts, NEW wish \in BOOLEAN, SaveProfile(p, h, wish)
        PROVE  SingleDefault'
    BY <2>3, SaveKeepsSingle
  <2>4. ASSUME NEW s \in Sessions, Locked(s) \/ Unlocked(s) PROVE profile' = profile
    BY <2>4 DEF Locked, Unlocked, Enter, EnterFails, EnterPlain, Operate, DeleteCollection,
                QueueJob, Refuse, Reset, ConnectGone, Refresh, ApiSession, Connect, LogIn, Home,
                SessionEnds
  <2>5. QED
    BY <2>1, <2>2, <2>3, <2>4
       DEF Next, vars, Done, EnterPlain, ApiRefused, ApiOperate, JobBegins, JobFails, JobEnds, Restart
<1>3. QED
  BY <1>1, <1>2, TypeCorrect, PTL DEF Spec
=============================================================================
