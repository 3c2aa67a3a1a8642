--------------------------- MODULE JobQueueProofs ---------------------------
(***************************************************************************)
(* Proofs about JobQueue, for every set of jobs and processes, every lease  *)
(* and every bound.                                                         *)
(***************************************************************************)
EXTENDS JobQueue, TLAPS

-----------------------------------------------------------------------------
(* Rows.                                                                    *)

\* A reported progress is stored within 0..99.
LEMMA ClampType == \A v \in Int : Clamp(v) \in 0..99
BY DEF Clamp

\* What the statements of the repository make of a row is a row.
LEMMA ClaimedType == ASSUME NEW r \in RowType PROVE Claimed(r) \in RowType
<1> DEFINE a == [r EXCEPT !.status = "running"]
           b == [a EXCEPT !.attempt = r.attempt + 1]
           c == [b EXCEPT !.silent = 0]
<1>1. Claimed(r) = c BY DEF Claimed, RowType
<1>2. a \in RowType BY DEF RowType, Statuses
<1> HIDE DEF a
<1>3. b \in RowType BY <1>2 DEF RowType
<1> HIDE DEF b
<1> QED BY <1>1, <1>3, BoundsAssumption DEF RowType

\* A claim that cannot read its payload leaves a row.
LEMMA RejectedType == ASSUME NEW r \in RowType PROVE Rejected(r) \in RowType
<1> DEFINE a == [r EXCEPT !.status = "failed"]
           b == [a EXCEPT !.attempt = r.attempt + 1]
           c == [b EXCEPT !.silent = 0]
           d == [c EXCEPT !.secret = FALSE]
           e == [d EXCEPT !.writer = r.attempt + 1]
<1>1. Rejected(r) = e BY DEF Rejected, RowType
<1>2. a \in RowType BY DEF RowType, Statuses, Terminal
<1> HIDE DEF a
<1>3. b \in RowType BY <1>2 DEF RowType
<1> HIDE DEF b
<1>4. c \in RowType BY <1>3, BoundsAssumption DEF RowType
<1> HIDE DEF c
<1>5. d \in RowType BY <1>4 DEF RowType
<1> HIDE DEF d
<1> QED BY <1>1, <1>5 DEF RowType

\* A heartbeat leaves a row.
LEMMA BeatenType ==
  ASSUME NEW r \in RowType, NEW v \in Int PROVE Beaten(r, v) \in RowType
<1> DEFINE a == [r EXCEPT !.silent = 0]
           b == [a EXCEPT !.progress = Clamp(v)]
<1>1. Beaten(r, v) = b BY DEF Beaten, RowType
<1>2. a \in RowType BY BoundsAssumption DEF RowType
<1> HIDE DEF a
<1>3. Clamp(v) \in 0..100 BY ClampType
<1> QED BY <1>1, <1>2, <1>3 DEF RowType

\* succeed leaves a row.
LEMMA SucceededType ==
  ASSUME NEW r \in RowType, NEW n \in Nat PROVE Succeeded(r, n) \in RowType
<1> DEFINE a == [r EXCEPT !.status = "succeeded"]
           b == [a EXCEPT !.progress = 100]
           c == [b EXCEPT !.secret = FALSE]
           d == [c EXCEPT !.silent = 0]
           e == [d EXCEPT !.writer = n]
<1>1. Succeeded(r, n) = e BY DEF Succeeded, RowType
<1>2. a \in RowType BY DEF RowType, Statuses, Terminal
<1> HIDE DEF a
<1>3. b \in RowType BY <1>2 DEF RowType
<1> HIDE DEF b
<1>4. c \in RowType BY <1>3 DEF RowType
<1> HIDE DEF c
<1>5. d \in RowType BY <1>4, BoundsAssumption DEF RowType
<1> HIDE DEF d
<1> QED BY <1>1, <1>5 DEF RowType

\* fail leaves a row.
LEMMA FailedType ==
  ASSUME NEW r \in RowType, NEW n \in Nat PROVE Failed(r, n) \in RowType
<1> DEFINE a == [r EXCEPT !.status = "failed"]
           b == [a EXCEPT !.secret = FALSE]
           c == [b EXCEPT !.silent = 0]
           d == [c EXCEPT !.writer = n]
<1>1. Failed(r, n) = d BY DEF Failed, RowType
<1>2. a \in RowType BY DEF RowType, Statuses, Terminal
<1> HIDE DEF a
<1>3. b \in RowType BY <1>2 DEF RowType
<1> HIDE DEF b
<1>4. c \in RowType BY <1>3, BoundsAssumption DEF RowType
<1> HIDE DEF c
<1> QED BY <1>1, <1>4 DEF RowType

\* cancel leaves a row.
LEMMA CancelledType == ASSUME NEW r \in RowType PROVE Cancelled(r) \in RowType
<1> DEFINE a == [r EXCEPT !.status = "cancelled"]
           b == [a EXCEPT !.secret = FALSE]
<1>1. Cancelled(r) = b BY DEF Cancelled, RowType
<1>2. a \in RowType BY DEF RowType, Statuses, Terminal
<1> HIDE DEF a
<1> QED BY <1>1, <1>2 DEF RowType

\* recover_stale leaves a row.
LEMMA RecoveredType == ASSUME NEW r \in RowType PROVE Recovered(r) \in RowType
<1> DEFINE a == [r EXCEPT !.status = "queued"]
           b == [a EXCEPT !.silent = 0]
           c == [b EXCEPT !.progress = 0]
<1>1. Stale(r) => Recovered(r) = c BY DEF Recovered, RowType
<1>2. a \in RowType BY DEF RowType, Statuses
<1> HIDE DEF a
<1>3. b \in RowType BY <1>2, BoundsAssumption DEF RowType
<1> HIDE DEF b
<1>4. c \in RowType BY <1>3 DEF RowType
<1> HIDE DEF c
<1> QED BY <1>1, <1>4 DEF Recovered

-----------------------------------------------------------------------------
(* What a step may do to a row.                                             *)

\* A new row, as Create writes it.
Fresh(s) ==
  \E k \in Kinds, b \in BOOLEAN, c \in 0..LastSecond :
    s = NewRow(k, b, c)

\* The row r becomes s by one of the statements of the repository, by the
\* passing of time or by the loss of the key.
RowChange(r, s) ==
  \/ s = r
  \/ r.status = "none" /\ Fresh(s)
  \/ r.status = "queued" /\ s \in {Claimed(r), Rejected(r), Cancelled(r)}
  \/ r.status = "running" /\ s \in {Succeeded(r, r.attempt), Failed(r, r.attempt), Recovered(r)}
  \/ r.status = "running" /\ \E v \in Int : s = Beaten(r, v)
  \/ /\ r.status = "running" /\ r.silent <= Lease
     /\ s = [r EXCEPT !.silent = @ + 1]
  \/ \E b \in BOOLEAN : s = [r EXCEPT !.readable = b]

\* A created job is a row.
LEMMA FreshType == \A s : Fresh(s) => s \in RowType
BY BoundsAssumption DEF Fresh, NewRow, RowType, Statuses

\* Whatever a step does to a row leaves a row.
LEMMA RowChangeType ==
  ASSUME NEW r \in RowType, NEW s, RowChange(r, s) PROVE s \in RowType
<1>1. CASE r.status = "running" /\ r.silent <= Lease /\ s = [r EXCEPT !.silent = @ + 1]
  <2>1. r.silent + 1 \in 0..(Lease + 1) BY <1>1, BoundsAssumption DEF RowType
  <2> QED BY <1>1, <2>1 DEF RowType
<1>2. CASE \E b \in BOOLEAN : s = [r EXCEPT !.readable = b]
  BY <1>2 DEF RowType
<1>3. CASE \E v \in Int : s = Beaten(r, v) BY <1>3, BeatenType
<1>4. r.attempt \in Nat BY DEF RowType
<1> QED
  BY <1>1, <1>2, <1>3, <1>4, FreshType, ClaimedType, RejectedType, CancelledType,
     SucceededType, FailedType, RecoveredType DEF RowChange

\* The rows after a step, in terms of the rows before it.
RowsStep == /\ rows' = [j \in Jobs |-> rows'[j]]
            /\ \A j \in Jobs : RowChange(rows[j], rows'[j])

\* A claim changes rows as RowChange says.
LEMMA ClaimRows ==
  ASSUME TypeOK, NEW p \in Procs, NEW j \in Jobs, Claim(p, j)
  PROVE  RowsStep
<1>1. rows[j].status = "queued" BY DEF Claim, Oldest, Claimable
<1>2. CASE rows' = [rows EXCEPT ![j] = Claimed(@)]
  BY <1>1, <1>2 DEF TypeOK, RowsStep, RowChange
<1>3. CASE rows' = [rows EXCEPT ![j] = Rejected(@)]
  BY <1>1, <1>3 DEF TypeOK, RowsStep, RowChange
<1> QED BY <1>2, <1>3 DEF Claim

\* A recovery changes rows as RowChange says.
LEMMA RecoveryRows ==
  ASSUME TypeOK, rows' = [j \in Jobs |-> Recovered(rows[j])]
  PROVE  RowsStep
<1>1. \A r \in RowType : Recovered(r) = r \/ r.status = "running"
  BY DEF Recovered, Stale
<1> QED BY <1>1 DEF TypeOK, RowsStep, RowChange

\* A step that leaves the table alone changes rows as RowChange says.
LEMMA SameRows == ASSUME TypeOK, UNCHANGED rows PROVE RowsStep
BY DEF TypeOK, RowsStep, RowChange

\* Every step changes every row as RowChange says.
LEMMA RowsOfNext == TypeOK /\ [Next]_vars => RowsStep
<1> SUFFICES ASSUME TypeOK, [Next]_vars PROVE RowsStep
  OBVIOUS
<1>1. ASSUME NEW j \in Jobs, NEW k \in Kinds, NEW s \in BOOLEAN,
             NEW c \in 0..LastSecond, Create(j, k, s, c)
      PROVE  RowsStep
  BY <1>1 DEF Create, Fresh, TypeOK, RowsStep, RowChange
<1>2. ASSUME NEW j \in Jobs, Cancel(j) PROVE RowsStep
  BY <1>2 DEF Cancel, TypeOK, RowsStep, RowChange
<1>3. CASE KeyReplaced
  <2>1. \A j \in Jobs : (rows[j].readable /\ ~rows[j].secret) \in BOOLEAN
    OBVIOUS
  <2> QED BY <1>3, <2>1 DEF KeyReplaced, TypeOK, RowsStep, RowChange
<1>4. CASE Tick
  BY <1>4 DEF Tick, TypeOK, RowsStep, RowChange
<1>5. ASSUME NEW p \in Procs, NEW v \in Reports, Report(p, v) PROVE RowsStep
  <2>1. v \in Int BY ReportsAssumption
  <2>2. work[p].job \in Jobs BY <1>5 DEF Report, TypeOK
  <2> QED BY <1>5, <2>1, <2>2 DEF Report, TypeOK, RowsStep, RowChange, Owns
<1>6. ASSUME NEW p \in Procs, KeepAlive(p) PROVE RowsStep
  <2>1. work[p].job \in Jobs /\ work[p].progress \in Int
    BY <1>6 DEF KeepAlive, TypeOK, WorkType
  <2> QED BY <1>6, <2>1 DEF KeepAlive, TypeOK, RowsStep, RowChange, Owns
<1>7. ASSUME NEW p \in Procs, NEW ok \in BOOLEAN, Finish(p, ok) PROVE RowsStep
  <2>1. work[p].job \in Jobs BY <1>7 DEF Finish, TypeOK
  <2> QED BY <1>7, <2>1 DEF Finish, TypeOK, RowsStep, RowChange, Owns
<1>8. ASSUME NEW p \in Procs, LoseKeepAlive(p) \/ FinishFault(p) \/ Crash(p)
      PROVE  RowsStep
  BY <1>8, SameRows DEF LoseKeepAlive, FinishFault, Crash
<1>9. ASSUME NEW a \in Apps, Poll(a) PROVE RowsStep
  BY <1>9, ClaimRows, SameRows DEF Poll, Procs
<1>10. ASSUME NEW a \in Apps, AppStart(a) \/ PeriodicRecovery(a)
       PROVE  RowsStep
  BY <1>10, RecoveryRows DEF AppStart, PeriodicRecovery
<1>11. ASSUME NEW a \in Apps,
              \/ LoopHead(a) \/ PollFault(a) \/ RecoveryFault(a)
              \/ PollWait(a) \/ RequestStop(a) \/ AppExit(a) \/ AppCancel(a)
       PROVE  RowsStep
  BY <1>11, SameRows DEF LoopHead, PollFault, RecoveryFault, PollWait,
                         RequestStop, AppExit, AppCancel
<1>12. ASSUME NEW o \in Ops, OpsStep(o) PROVE RowsStep
  BY <1>12, RecoveryRows, ClaimRows, SameRows
     DEF OpsStep, OpsStart, OpsClaim, OpsExit, Procs
<1>13. CASE HttpEnter \/ HttpLeave \/ UNCHANGED vars
  BY <1>13, SameRows DEF HttpEnter, HttpLeave, vars
<1> QED
  BY <1>1, <1>2, <1>3, <1>4, <1>5, <1>6, <1>7, <1>8, <1>9, <1>10, <1>11,
     <1>12, <1>13 DEF Next, Environment, WorkerStep, AppStep

-----------------------------------------------------------------------------
(* Type correctness.                                                        *)

\* A process without a job is well typed.
LEMMA AtType == \A pc \in Places : At(pc) \in WorkType /\ (At(pc).pc = pc)
BY DEF At, WorkType, NoJob

\* A process given up its claim.
LEMMA WorkAtType ==
  ASSUME TypeOK, NEW p \in Procs, NEW pc \in Places \ {"running"},
         work' = [work EXCEPT ![p] = At(pc)]
  PROVE  /\ work' \in [Procs -> WorkType]
         /\ \A q \in Procs : work'[q].pc = "running" => work'[q].job \in Jobs
BY AtType DEF TypeOK

\* A claim leaves the processes well typed.
LEMMA ClaimWork ==
  ASSUME TypeOK, NEW p \in Procs, NEW j \in Jobs, Claim(p, j)
  PROVE  /\ work' \in [Procs -> WorkType]
         /\ \A q \in Procs : work'[q].pc = "running" => work'[q].job \in Jobs
<1>1. CASE work' = [work EXCEPT ![p] = At("idle")]
  BY <1>1, WorkAtType DEF Places
<1>2. CASE work' = [work EXCEPT ![p] =
               [pc |-> "running", job |-> j, attempt |-> rows[j].attempt + 1,
                progress |-> 1, beating |-> TRUE]]
  <2>1. rows[j].attempt + 1 \in Nat BY DEF TypeOK, RowType
  <2> QED BY <1>2, <2>1 DEF TypeOK, WorkType, Places
<1> QED BY <1>1, <1>2 DEF Claim

\* The empty queue is well typed.
LEMMA TypeInit == Init => TypeOK
<1>1. NoRow \in RowType
  BY BoundsAssumption DEF NoRow, RowType, Statuses, Kinds
<1>2. At("down") \in WorkType /\ At("down").pc # "running"
  BY AtType DEF Places
<1>3. Init => /\ rows \in [Jobs -> RowType]
              /\ work \in [Procs -> WorkType]
              /\ \A p \in Procs : work[p].pc # "running"
  BY <1>1, <1>2 DEF Init
<1>4. Init => lock \in Apps \cup {Nobody} /\ stopping \in BOOLEAN /\ http \in BOOLEAN
  BY Zenon DEF Init
<1>5. Init => /\ due \in 0..RecoveryInterval
              /\ batch \in [Ops -> 0..MaxBatch]
              /\ faults \in 0..MaxFaults
  BY BoundsAssumption DEF Init
<1> QED BY <1>3, <1>4, <1>5 DEF TypeOK

\* The lock and the flags of the application process stay well typed.
LEMMA FlagsStep ==
  TypeOK /\ [Next]_vars
    => lock' \in Apps \cup {Nobody} /\ stopping' \in BOOLEAN /\ http' \in BOOLEAN
<1> DEFINE FlagsOK == /\ lock \in Apps \cup {Nobody}
                      /\ stopping \in BOOLEAN /\ http \in BOOLEAN
<1> SUFFICES ASSUME FlagsOK, [Next]_vars PROVE FlagsOK'
  BY DEF TypeOK
<1>1. CASE Environment
  BY <1>1, Zenon DEF Environment, Create, Cancel, KeyReplaced, Tick, HttpEnter, HttpLeave
<1>2. ASSUME NEW p \in Procs, WorkerStep(p) PROVE FlagsOK'
  BY <1>2, Zenon DEF WorkerStep, Report, KeepAlive, LoseKeepAlive, Finish,
                     FinishFault, Crash
<1>3. ASSUME NEW a \in Apps, AppStep(a) PROVE FlagsOK'
  <2>1. CASE AppStart(a) BY <1>3, <2>1, Zenon DEF AppStart
  <2>2. CASE RequestStop(a) BY <2>2, Zenon DEF RequestStop
  <2>3. CASE AppExit(a) \/ AppCancel(a) BY <2>3, Zenon DEF AppExit, AppCancel
  <2>4. CASE \/ LoopHead(a) \/ Poll(a) \/ PollFault(a) \/ PeriodicRecovery(a)
             \/ RecoveryFault(a) \/ PollWait(a)
    BY <2>4, Zenon DEF LoopHead, Poll, PollFault, PeriodicRecovery,
                       RecoveryFault, PollWait
  <2> QED BY <1>3, <2>1, <2>2, <2>3, <2>4, Zenon DEF AppStep
<1>4. ASSUME NEW o \in Ops, OpsStep(o) PROVE FlagsOK'
  BY <1>4, Zenon DEF OpsStep, OpsStart, OpsClaim, OpsExit
<1>5. CASE UNCHANGED vars
  BY <1>5, Zenon DEF vars
<1> QED BY <1>1, <1>2, <1>3, <1>4, <1>5, Zenon DEF Next

\* The counters stay within their bounds.
LEMMA CountsStep ==
  TypeOK /\ [Next]_vars => /\ due' \in 0..RecoveryInterval
                           /\ batch' \in [Ops -> 0..MaxBatch]
                           /\ faults' \in 0..MaxFaults
<1> DEFINE CountsOK == /\ due \in 0..RecoveryInterval
                       /\ batch \in [Ops -> 0..MaxBatch]
                       /\ faults \in 0..MaxFaults
<1> SUFFICES ASSUME CountsOK, [Next]_vars PROVE CountsOK'
  BY DEF TypeOK
<1> USE BoundsAssumption
<1>1. CASE UNCHANGED <<due, batch>> /\ (UNCHANGED faults \/ (faults < MaxFaults /\ faults' = faults + 1))
  BY <1>1
<1>2. CASE Environment
  <2>1. CASE Tick BY <2>1 DEF Tick
  <2> QED BY <1>1, <1>2, <2>1
          DEF Environment, Create, Cancel, KeyReplaced, HttpEnter, HttpLeave
<1>3. ASSUME NEW p \in Procs, WorkerStep(p) PROVE CountsOK'
  <2>1. CASE Crash(p) BY <2>1 DEF Crash
  <2> QED BY <1>1, <1>3, <2>1
          DEF WorkerStep, Report, KeepAlive, LoseKeepAlive, Finish, FinishFault
<1>4. ASSUME NEW a \in Apps, AppStep(a) PROVE CountsOK'
  <2>1. CASE AppStart(a) \/ AppExit(a) \/ PeriodicRecovery(a)
    BY <2>1 DEF AppStart, AppExit, PeriodicRecovery
  <2>2. CASE AppCancel(a)
    BY <2>2 DEF AppCancel
  <2>3. CASE PollFault(a) \/ RecoveryFault(a)
    BY <1>1, <2>3 DEF PollFault, RecoveryFault
  <2>4. CASE LoopHead(a) \/ Poll(a) \/ PollWait(a) \/ RequestStop(a)
    BY <1>1, <2>4 DEF LoopHead, Poll, PollWait, RequestStop
  <2> QED BY <1>4, <2>1, <2>2, <2>3, <2>4 DEF AppStep
<1>5. ASSUME NEW o \in Ops, OpsStep(o) PROVE CountsOK'
  BY <1>5 DEF OpsStep, OpsStart, OpsClaim, OpsExit
<1>6. CASE UNCHANGED vars
  BY <1>1, <1>6 DEF vars
<1> QED BY <1>2, <1>3, <1>4, <1>5, <1>6 DEF Next

\* The processes stay well typed, and a running one has a job.
LEMMA WorkStep ==
  TypeOK /\ [Next]_vars =>
    /\ work' \in [Procs -> WorkType]
    /\ \A q \in Procs : work'[q].pc = "running" => work'[q].job \in Jobs
<1> DEFINE WorkOK == /\ work \in [Procs -> WorkType]
                     /\ \A q \in Procs : work[q].pc = "running" => work[q].job \in Jobs
<1> SUFFICES ASSUME TypeOK, [Next]_vars PROVE WorkOK'
  OBVIOUS
<1>1. CASE UNCHANGED work
  BY <1>1 DEF TypeOK
<1>2. CASE Environment
  BY <1>1, <1>2 DEF Environment, Create, Cancel, KeyReplaced, Tick, HttpEnter,
                    HttpLeave
<1>3. ASSUME NEW p \in Procs, WorkerStep(p) PROVE WorkOK'
  <2>1. NextPlace(p) \in Places \ {"running"} BY DEF NextPlace, Places
  <2>2. (IF p = lock THEN "polled" ELSE "down") \in Places \ {"running"}
    BY DEF Places
  <2>3. "down" \in Places \ {"running"} BY DEF Places
  <2>4. ASSUME NEW v \in Reports, Report(p, v) PROVE WorkOK'
    <3>1. Clamp(v) \in 0..99 BY ReportsAssumption, ClampType
    <3>2. CASE work' = [work EXCEPT ![p].progress = Clamp(v)]
      BY <3>1, <3>2 DEF TypeOK, WorkType
    <3>3. CASE work' = [work EXCEPT ![p] = At(NextPlace(p))]
      BY <3>3, <2>1, WorkAtType
    <3> QED BY <2>4, <3>2, <3>3 DEF Report
  <2>5. CASE work' = [work EXCEPT ![p].beating = FALSE]
    <3>1. \A w \in WorkType : [w EXCEPT !.beating = FALSE] \in WorkType
      BY DEF WorkType
    <3>2. \A q \in Procs : work'[q].pc = work[q].pc /\ work'[q].job = work[q].job
      BY <2>5 DEF TypeOK, WorkType
    <3> QED BY <2>5, <3>1, <3>2 DEF TypeOK
  <2>6. CASE \E ok \in BOOLEAN : Finish(p, ok)
    BY <2>6, <2>1, WorkAtType DEF Finish
  <2>7. CASE FinishFault(p) \/ Crash(p)
    BY <2>2, <2>3, <2>7, WorkAtType DEF FinishFault, Crash
  <2> QED BY <1>1, <1>3, <2>4, <2>5, <2>6, <2>7
          DEF WorkerStep, KeepAlive, LoseKeepAlive
<1>4. ASSUME NEW a \in Apps, AppStep(a) PROVE WorkOK'
  <2> a \in Procs BY DEF Procs
  <2>1. CASE Poll(a)
    BY <1>1, <2>1, ClaimWork, WorkAtType DEF Poll, Places
  <2>2. CASE AppCancel(a)
    BY <1>1, <2>2, WorkAtType DEF AppCancel, Places
  <2>3. CASE RequestStop(a)
    BY <1>1, <2>3 DEF RequestStop
  <2>4. CASE \/ AppStart(a) \/ LoopHead(a) \/ PollFault(a)
             \/ PeriodicRecovery(a) \/ RecoveryFault(a) \/ PollWait(a)
             \/ AppExit(a)
    BY <2>4, WorkAtType DEF AppStart, LoopHead, PollFault, PeriodicRecovery,
                            RecoveryFault, PollWait, AppExit, Places
  <2> QED BY <1>4, <2>1, <2>2, <2>3, <2>4 DEF AppStep
<1>5. ASSUME NEW o \in Ops, OpsStep(o) PROVE WorkOK'
  <2> o \in Procs BY DEF Procs
  <2> QED BY <1>5, ClaimWork, WorkAtType DEF OpsStep, OpsStart, OpsClaim, OpsExit, Places
<1>6. CASE UNCHANGED vars
  BY <1>1, <1>6 DEF vars
<1> QED BY <1>2, <1>3, <1>4, <1>5, <1>6 DEF Next

\* Every step keeps the types.
LEMMA TypeStep == TypeOK /\ [Next]_vars => TypeOK'
<1>1. TypeOK /\ [Next]_vars => rows' \in [Jobs -> RowType]
  BY RowsOfNext, RowChangeType DEF RowsStep, TypeOK
<1> QED BY <1>1, FlagsStep, CountsStep, WorkStep DEF TypeOK

\* Every reachable state of the queue is well typed.
THEOREM Typing == Spec => []TypeOK
BY TypeInit, TypeStep, PTL DEF Spec

-----------------------------------------------------------------------------
(* Invariants of single rows.                                               *)

\* The outcome a finished row stores is the one of the attempt that was current.
OutcomeOfLastAttempt ==
  \A j \in Jobs :
    rows[j].writer = IF rows[j].status \in {"succeeded", "failed"}
                     THEN rows[j].attempt ELSE 0

\* A job that is over stays as it is, to the last field.
TerminalIsFinal ==
  [][\A j \in Jobs : rows[j].status \in Terminal =>
       [rows'[j] EXCEPT !.readable = rows[j].readable] = rows[j]]_vars

\* An invariant that speaks of each row alone is kept if every change of a row
\* keeps it.
RowInv(r) ==
  /\ IF r.status \in {"succeeded", "failed"} THEN r.writer = r.attempt
                                             ELSE r.writer = 0
  /\ r.secret <=> r.sensitive /\ r.status \notin Terminal
  /\ r.status = "none" => r.attempt = 0

\* Every change of a row keeps the row invariant.
LEMMA RowInvStep ==
  ASSUME NEW r \in RowType, NEW s \in RowType, RowInv(r), RowChange(r, s)
  PROVE  RowInv(s)
<1>1. CASE s = r BY <1>1
<1>2. CASE Fresh(s) BY <1>2 DEF Fresh, NewRow, RowInv, Terminal
<1>3. CASE r.status = "queued" /\ s = Claimed(r)
  BY <1>3 DEF Claimed, RowInv, RowType, Terminal
<1>4. CASE r.status = "queued" /\ s = Rejected(r)
  BY <1>4 DEF Rejected, RowInv, RowType, Terminal
<1>5. CASE r.status = "queued" /\ s = Cancelled(r)
  BY <1>5 DEF Cancelled, RowInv, RowType, Terminal
<1>8. CASE r.status = "running" /\ s = Succeeded(r, r.attempt)
  BY <1>8 DEF Succeeded, RowInv, RowType, Terminal
<1>9. CASE r.status = "running" /\ s = Failed(r, r.attempt)
  BY <1>9 DEF Failed, RowInv, RowType, Terminal
<1>10. CASE r.status = "running" /\ s = Recovered(r)
  BY <1>10 DEF Recovered, RowInv, RowType, Terminal
<1>11. CASE r.status = "running" /\ \E v \in Int : s = Beaten(r, v)
  <2>1. PICK v \in Int : s = Beaten(r, v) BY <1>11
  <2>2. Clamp(v) # 100 BY ClampType
  <2> QED BY <1>11, <2>1, <2>2 DEF Beaten, RowInv, RowType, Terminal
<1>6. CASE s = [r EXCEPT !.silent = @ + 1]
  BY <1>6 DEF RowInv, RowType
<1>7. CASE \E b \in BOOLEAN : s = [r EXCEPT !.readable = b]
  BY <1>7 DEF RowInv, RowType
<1> QED BY <1>1, <1>2, <1>3, <1>4, <1>5, <1>6, <1>7, <1>8, <1>9, <1>10,
           <1>11 DEF RowChange

\* Every reachable row satisfies the row invariant.
LEMMA RowInvariant == Spec => [](\A j \in Jobs : RowInv(rows[j]))
<1> DEFINE Inv == \A j \in Jobs : RowInv(rows[j])
<1>1. Init => Inv
  BY DEF Init, NoRow, RowInv, Terminal
<1>2. TypeOK /\ TypeOK' /\ Inv /\ [Next]_vars => Inv'
  BY RowsOfNext, RowInvStep DEF RowsStep, TypeOK
<1> QED BY <1>1, <1>2, Typing, PTL DEF Spec

\* The outcome a finished job shows is the one of its last attempt.
THEOREM LastAttemptDecides == Spec => []OutcomeOfLastAttempt
<1>1. (\A j \in Jobs : RowInv(rows[j])) => OutcomeOfLastAttempt
  BY DEF RowInv, OutcomeOfLastAttempt
<1> QED BY <1>1, RowInvariant, PTL

\* Secrets live exactly as long as their job.
THEOREM SecretsAreWiped == Spec => []SecretsEndWithJob
<1>1. (\A j \in Jobs : RowInv(rows[j])) => SecretsEndWithJob
  BY DEF RowInv, SecretsEndWithJob
<1> QED BY <1>1, RowInvariant, PTL

\* No step changes a finished job, but for the loss of the key.
THEOREM FinishedStaysFinished == Spec => TerminalIsFinal
<1>1. TypeOK /\ [Next]_vars =>
        [\A j \in Jobs : rows[j].status \in Terminal =>
           [rows'[j] EXCEPT !.readable = rows[j].readable] = rows[j]]_vars
  <2> SUFFICES ASSUME TypeOK, [Next]_vars, NEW j \in Jobs,
                      rows[j].status \in Terminal
               PROVE  [rows'[j] EXCEPT !.readable = rows[j].readable] = rows[j]
    OBVIOUS
  <2>1. RowChange(rows[j], rows'[j]) BY RowsOfNext DEF RowsStep
  <2>2. rows[j] \in RowType BY DEF TypeOK
  <2>3. rows'[j] = rows[j] \/ \E b \in BOOLEAN : rows'[j] = [rows[j] EXCEPT !.readable = b]
    BY <2>1 DEF RowChange, Terminal
  <2> QED BY <2>2, <2>3 DEF RowType
<1> QED BY <1>1, Typing, PTL DEF Spec, TerminalIsFinal

-----------------------------------------------------------------------------
(* Claims: no attempt has two holders, and a kept claim is not given away.  *)

RowsOK == \A j \in Jobs : RowInv(rows[j])

\* A working keep-alive thread keeps the heartbeat of its row young.
KeptYoung ==
  \A p \in Procs : Running(p) /\ work[p].beating
    => rows[work[p].job].silent <= Beat

ClaimInv == ClaimsAreExclusive /\ OverlapNeedsLostKeepAlive /\ KeptYoung

\* The claims after a step that gives none out: each was there before, with
\* the same job and attempt, and beats only if it did.
FewerClaims ==
  \A p \in Procs : work'[p].pc = "running" =>
    /\ work[p].pc = "running"
    /\ work'[p].job = work[p].job /\ work'[p].attempt = work[p].attempt
    /\ work'[p].beating => work[p].beating

\* A row that a claim still beating owns stays owned, with a young heartbeat.
Kept(p) == /\ work[p].pc = "running" /\ work[p].beating
           /\ Owns(work[p].attempt, rows[work[p].job])
           /\ rows[work[p].job].silent <= Beat
OwnedStaysOwned ==
  \A p \in Procs : Kept(p) /\ work'[p].pc = "running"
    => /\ Owns(work[p].attempt, rows'[work[p].job])
       /\ rows'[work[p].job].silent <= Beat

\* No change of a row lowers its attempt number.
LEMMA RowAttemptGrows ==
  ASSUME NEW r \in RowType, NEW s, RowInv(r), RowChange(r, s)
  PROVE  s.attempt >= r.attempt
<1>1. r.attempt \in Nat /\ (r.status = "none" => r.attempt = 0)
  BY DEF RowType, RowInv
<1>2. CASE r.status = "none" /\ Fresh(s)
  BY <1>1, <1>2 DEF Fresh, NewRow
<1>3. CASE s = [r EXCEPT !.silent = @ + 1] \/ \E b \in BOOLEAN : s = [r EXCEPT !.readable = b]
  BY <1>1, <1>3 DEF RowType
<1>4. CASE s \in {Claimed(r), Rejected(r), Cancelled(r)}
  <2>1. CASE s = Claimed(r) BY <1>1, <2>1 DEF Claimed, RowType
  <2>2. CASE s = Rejected(r) BY <1>1, <2>2 DEF Rejected, RowType
  <2>3. CASE s = Cancelled(r) BY <1>1, <2>3 DEF Cancelled, RowType
  <2> QED BY <1>4, <2>1, <2>2, <2>3
<1>5. CASE s \in {Succeeded(r, r.attempt), Failed(r, r.attempt), Recovered(r)}
  <2>1. CASE s = Succeeded(r, r.attempt) BY <1>1, <2>1 DEF Succeeded, RowType
  <2>2. CASE s = Failed(r, r.attempt) BY <1>1, <2>2 DEF Failed, RowType
  <2>3. CASE s = Recovered(r) BY <1>1, <2>3 DEF Recovered, RowType
  <2> QED BY <1>5, <2>1, <2>2, <2>3
<1>6. CASE \E v \in Int : s = Beaten(r, v)
  BY <1>1, <1>6 DEF Beaten, RowType
<1>7. CASE s = r
  BY <1>1, <1>7
<1> QED BY <1>2, <1>3, <1>4, <1>5, <1>6, <1>7 DEF RowChange

\* No step lowers the attempt number of a job.
LEMMA AttemptsGrow ==
  ASSUME TypeOK, RowsOK, [Next]_vars, NEW j \in Jobs
  PROVE  rows'[j].attempt >= rows[j].attempt
BY RowsOfNext, RowAttemptGrows DEF RowsStep, RowsOK, TypeOK

\* A step that claims nothing and takes no claim away keeps the claim invariant.
LEMMA FewerKeepsInv ==
  ASSUME TypeOK, TypeOK', RowsOK, ClaimInv, [Next]_vars, FewerClaims, OwnedStaysOwned
  PROVE  ClaimInv'
<1>1. ClaimsAreExclusive'
  <2>1. ASSUME NEW p \in Procs, work'[p].pc = "running"
        PROVE  work'[p].attempt <= rows'[work'[p].job].attempt
    <3>1. /\ work[p].pc = "running" /\ work[p].job \in Jobs
          /\ work'[p].job = work[p].job /\ work'[p].attempt = work[p].attempt
      BY <2>1 DEF FewerClaims, TypeOK
    <3>2. work[p].attempt <= rows[work[p].job].attempt
      BY <3>1 DEF ClaimInv, ClaimsAreExclusive, Running
    <3>3. rows'[work[p].job].attempt >= rows[work[p].job].attempt
      BY <3>1, AttemptsGrow
    <3>4. /\ work[p].attempt \in Nat /\ rows[work[p].job].attempt \in Nat
          /\ rows'[work[p].job].attempt \in Nat
      BY <3>1 DEF TypeOK, WorkType, RowType
    <3> QED BY <3>1, <3>2, <3>3, <3>4
  <2>2. ASSUME NEW p \in Procs, NEW q \in Procs, p # q,
               work'[p].pc = "running", work'[q].pc = "running",
               work'[p].job = work'[q].job
        PROVE  work'[p].attempt # work'[q].attempt
    BY <2>2 DEF FewerClaims, ClaimInv, ClaimsAreExclusive, Running
  <2> QED BY <2>1, <2>2 DEF ClaimsAreExclusive, Running
<1>2. ASSUME NEW p \in Procs, work'[p].pc = "running", work'[p].beating
      PROVE  /\ Owns(work'[p].attempt, rows'[work'[p].job])
             /\ rows'[work'[p].job].silent <= Beat
  <2>1. Kept(p)
    BY <1>2 DEF FewerClaims, Kept, ClaimInv, OverlapNeedsLostKeepAlive, KeptYoung, Running
  <2> QED BY <1>2, <2>1 DEF FewerClaims, OwnedStaysOwned
<1> QED BY <1>1, <1>2 DEF ClaimInv, OverlapNeedsLostKeepAlive, KeptYoung, Running, Owns

\* A process drops its claim, or keeps none.
LEMMA DropIsFewer ==
  ASSUME TypeOK, NEW p \in Procs, NEW pc \in Places \ {"running"},
         work' = [work EXCEPT ![p] = At(pc)]
  PROVE  FewerClaims /\ ~(work'[p].pc = "running")
BY AtType DEF TypeOK, FewerClaims, WorkType

\* A step that leaves the processes alone claims nothing.
LEMMA SameIsFewer == UNCHANGED work => FewerClaims
BY DEF FewerClaims

\* A step that leaves the rows alone takes no claim away.
LEMMA SameStaysOwned == UNCHANGED rows => OwnedStaysOwned
BY DEF OwnedStaysOwned, Kept

\* Recovery takes no row whose heartbeat is young.
LEMMA RecoveryStaysOwned ==
  ASSUME TypeOK, rows' = [j \in Jobs |-> Recovered(rows[j])]
  PROVE  OwnedStaysOwned
<1> SUFFICES ASSUME NEW p \in Procs, Kept(p)
             PROVE  rows'[work[p].job] = rows[work[p].job]
  BY DEF OwnedStaysOwned, Kept
<1>1. work[p].job \in Jobs BY DEF Kept, TypeOK
<1>2. ~Stale(rows[work[p].job])
  BY <1>1, BoundsAssumption DEF Kept, Stale, TypeOK, RowType
<1> QED BY <1>1, <1>2 DEF Recovered

\* A claim takes a queued row, which nobody owns, and a new attempt of it.
LEMMA ClaimKeepsInv ==
  ASSUME TypeOK, TypeOK', RowsOK, ClaimInv, [Next]_vars,
         NEW p \in Procs, work[p].pc # "running", NEW j \in Jobs, Claim(p, j)
  PROVE  ClaimInv'
<1>1. rows[j].status = "queued" /\ rows[j] \in RowType
  BY DEF Claim, Oldest, Claimable, TypeOK
<1>2. OwnedStaysOwned
  <2>1. ASSUME NEW q \in Procs, Kept(q) PROVE rows'[work[q].job] = rows[work[q].job]
    BY <1>1, <2>1 DEF Kept, Owns, Claim, TypeOK
  <2> QED BY <2>1 DEF OwnedStaysOwned, Kept
<1>3. CASE CanRead(p, rows[j])
  <2>1. /\ rows'[j] = Claimed(rows[j])
        /\ work'[p] = [pc |-> "running", job |-> j, attempt |-> rows[j].attempt + 1,
                       progress |-> 1, beating |-> TRUE]
        /\ \A q \in Procs \ {p} : work'[q] = work[q]
        /\ \A i \in Jobs \ {j} : rows'[i] = rows[i]
    BY <1>3 DEF Claim, TypeOK
  <2>2. /\ rows'[j].attempt = rows[j].attempt + 1 /\ rows'[j].status = "running"
        /\ rows'[j].silent = 0 /\ rows[j].attempt \in Nat
    BY <1>1, <2>1 DEF Claimed, RowType
  <2>3. ASSUME NEW q \in Procs \ {p}, work[q].pc = "running"
        PROVE  /\ work[q].attempt <= rows[work[q].job].attempt
               /\ work[q].attempt \in Nat /\ work[q].job \in Jobs
               /\ rows[work[q].job].attempt \in Nat
               /\ rows'[work[q].job].attempt \in Nat
               /\ rows'[work[q].job].attempt >= rows[work[q].job].attempt
    BY <2>3, AttemptsGrow
       DEF ClaimInv, ClaimsAreExclusive, Running, TypeOK, WorkType, RowType
  <2>4. \A q \in Procs : work'[q].pc = "running"
          => work'[q].attempt <= rows'[work'[q].job].attempt
    BY <2>1, <2>2, <2>3
  <2>5. ASSUME NEW q \in Procs \ {p}, work[q].pc = "running", work[q].job = j
        PROVE  work[q].attempt # rows[j].attempt + 1
    BY <2>2, <2>3, <2>5
  <2>6. ASSUME NEW q \in Procs, NEW u \in Procs, q # u,
               work'[q].pc = "running", work'[u].pc = "running",
               work'[q].job = work'[u].job
        PROVE  work'[q].attempt # work'[u].attempt
    <3>1. CASE q = p BY <2>1, <2>5, <2>6, <3>1
    <3>2. CASE u = p BY <2>1, <2>5, <2>6, <3>2
    <3>3. CASE q # p /\ u # p
      BY <2>1, <2>6, <3>3 DEF ClaimInv, ClaimsAreExclusive, Running
    <3> QED BY <3>1, <3>2, <3>3
  <2>7. ASSUME NEW q \in Procs, work'[q].pc = "running", work'[q].beating
        PROVE  /\ Owns(work'[q].attempt, rows'[work'[q].job])
               /\ rows'[work'[q].job].silent <= Beat
    <3>1. CASE q = p
      BY <2>1, <2>2, <3>1, BoundsAssumption DEF Owns
    <3>2. CASE q # p
      <4>1. Kept(q) /\ work'[q] = work[q]
        BY <2>1, <2>7, <3>2
           DEF Kept, ClaimInv, OverlapNeedsLostKeepAlive, KeptYoung, Running
      <4> QED BY <1>2, <2>7, <4>1 DEF OwnedStaysOwned
    <3> QED BY <3>1, <3>2
  <2> QED BY <2>4, <2>6, <2>7
          DEF ClaimInv, ClaimsAreExclusive, OverlapNeedsLostKeepAlive, KeptYoung, Running
<1>4. CASE ~CanRead(p, rows[j])
  BY <1>2, <1>4, DropIsFewer, FewerKeepsInv DEF Claim, Places
<1> QED BY <1>3, <1>4

\* Every step keeps the claim invariant.
LEMMA ClaimInvStep ==
  TypeOK /\ TypeOK' /\ RowsOK /\ ClaimInv /\ [Next]_vars => ClaimInv'
<1> SUFFICES ASSUME TypeOK, TypeOK', RowsOK, ClaimInv, [Next]_vars
             PROVE  ClaimInv'
  OBVIOUS
<1> USE FewerKeepsInv
<1>1. CASE UNCHANGED <<rows, work>>
  BY <1>1, SameIsFewer, SameStaysOwned
<1>2. CASE Environment
  <2>1. FewerClaims
    BY <1>2, SameIsFewer DEF Environment, Create, Cancel, KeyReplaced, Tick,
                             HttpEnter, HttpLeave
  <2>2. ASSUME NEW j \in Jobs, rows[j].status # "running",
               \E r : rows' = [rows EXCEPT ![j] = r]
        PROVE  OwnedStaysOwned
    BY <2>2 DEF OwnedStaysOwned, Kept, Owns, TypeOK
  <2>3. ASSUME NEW j \in Jobs, NEW k \in Kinds, NEW s \in BOOLEAN,
               NEW c \in 0..LastSecond, Create(j, k, s, c)
        PROVE  ClaimInv'
    BY <2>1, <2>2, <2>3 DEF Create
  <2>4. ASSUME NEW j \in Jobs, Cancel(j) PROVE ClaimInv'
    BY <2>1, <2>2, <2>4 DEF Cancel
  <2>5. CASE KeyReplaced
    <3>1. \A j \in Jobs : /\ rows'[j].status = rows[j].status
                          /\ rows'[j].attempt = rows[j].attempt
                          /\ rows'[j].silent = rows[j].silent
      BY <2>5 DEF KeyReplaced, TypeOK, RowType
    <3>2. OwnedStaysOwned BY <3>1 DEF OwnedStaysOwned, Kept, Owns, TypeOK
    <3> QED BY <2>1, <3>2
  <2>6. CASE Tick
    <3>1. ASSUME NEW p \in Procs, Kept(p)
          PROVE  /\ Owns(work[p].attempt, rows'[work[p].job])
                 /\ rows'[work[p].job].silent <= Beat
      <4>1. rows[work[p].job].silent < Beat /\ work[p].job \in Jobs
        BY <2>6, <3>1 DEF Tick, Kept, TypeOK
      <4>2. /\ rows'[work[p].job].status = "running"
            /\ rows'[work[p].job].attempt = rows[work[p].job].attempt
            /\ rows'[work[p].job].silent = rows[work[p].job].silent + 1
        BY <2>6, <3>1, <4>1, BoundsAssumption DEF Tick, Kept, Owns, TypeOK, RowType
      <4> QED BY <3>1, <4>1, <4>2, BoundsAssumption DEF Kept, Owns, TypeOK, RowType
    <3>2. OwnedStaysOwned BY <3>1 DEF OwnedStaysOwned
    <3> QED BY <2>1, <3>2
  <2> QED BY <1>1, <1>2, <2>3, <2>4, <2>5, <2>6 DEF Environment, HttpEnter, HttpLeave
<1>3. ASSUME NEW p \in Procs, WorkerStep(p) PROVE ClaimInv'
  <2>1. NextPlace(p) \in Places \ {"running"} BY DEF NextPlace, Places
  <2>2. (IF p = lock THEN "polled" ELSE "down") \in Places \ {"running"}
    BY DEF Places
  <2>3. "down" \in Places \ {"running"} BY DEF Places
  <2>4. ASSUME NEW v \in Int, work[p].pc = "running",
               rows' = [rows EXCEPT ![work[p].job] = Beaten(@, v)]
        PROVE  OwnedStaysOwned
    <3>1. work[p].job \in Jobs BY <2>4 DEF TypeOK
    <3>2. \A j \in Jobs : /\ rows'[j].status = rows[j].status
                          /\ rows'[j].attempt = rows[j].attempt
                          /\ rows'[j].silent \in {0, rows[j].silent}
      <4>1. \A r \in RowType : /\ Beaten(r, v).status = r.status
                               /\ Beaten(r, v).attempt = r.attempt
                               /\ Beaten(r, v).silent = 0
        BY DEF Beaten, RowType
      <4> QED BY <2>4, <3>1, <4>1 DEF TypeOK
    <3> QED BY <3>2, BoundsAssumption DEF OwnedStaysOwned, Kept, Owns, TypeOK
  <2>5. ASSUME NEW v \in Reports, Report(p, v) PROVE ClaimInv'
    <3>1. v \in Int BY ReportsAssumption
    <3>2. CASE Owns(work[p].attempt, rows[work[p].job])
      <4>1. FewerClaims
        BY <2>5, <3>2 DEF Report, FewerClaims, TypeOK, WorkType
      <4> QED BY <2>4, <2>5, <3>1, <3>2, <4>1 DEF Report
    <3>3. CASE ~Owns(work[p].attempt, rows[work[p].job])
      BY <2>1, <2>5, <3>3, DropIsFewer, SameStaysOwned DEF Report
    <3> QED BY <3>2, <3>3
  <2>6. CASE KeepAlive(p)
    <3>1. work[p].progress \in Int
      BY <2>6 DEF KeepAlive, TypeOK, WorkType
    <3>2. FewerClaims
      BY <2>6 DEF KeepAlive, FewerClaims, TypeOK, WorkType
    <3> QED BY <2>4, <2>6, <3>1, <3>2, SameStaysOwned DEF KeepAlive
  <2>7. CASE LoseKeepAlive(p)
    <3>1. FewerClaims
      BY <2>7 DEF LoseKeepAlive, FewerClaims, TypeOK, WorkType
    <3> QED BY <2>7, <3>1, SameStaysOwned DEF LoseKeepAlive
  <2>8. ASSUME NEW ok \in BOOLEAN, Finish(p, ok) PROVE ClaimInv'
    <3>1. FewerClaims /\ ~(work'[p].pc = "running")
      BY <2>1, <2>8, DropIsFewer DEF Finish
    <3>2. ASSUME NEW q \in Procs, Kept(q), work'[q].pc = "running"
          PROVE  rows'[work[q].job] = rows[work[q].job]
      <4>1. q # p BY <3>1, <3>2
      <4>2. CASE work[q].job = work[p].job
        <5>1. ~Owns(work[p].attempt, rows[work[p].job])
          BY <2>8, <3>2, <4>1, <4>2
             DEF Finish, Kept, Owns, ClaimInv, ClaimsAreExclusive, Running
        <5> QED BY <2>8, <4>2, <5>1 DEF Finish, TypeOK
      <4>3. CASE work[q].job # work[p].job
        BY <2>8, <3>2, <4>3 DEF Finish, Kept, TypeOK
      <4> QED BY <4>2, <4>3
    <3>3. OwnedStaysOwned BY <3>2 DEF OwnedStaysOwned, Kept
    <3> QED BY <3>1, <3>3
  <2>9. CASE FinishFault(p) \/ Crash(p)
    BY <2>2, <2>3, <2>9, DropIsFewer, SameStaysOwned DEF FinishFault, Crash
  <2> QED BY <1>3, <2>5, <2>6, <2>7, <2>8, <2>9 DEF WorkerStep
<1>4. ASSUME NEW a \in Apps, AppStep(a) PROVE ClaimInv'
  <2> a \in Procs BY DEF Procs
  <2>1. CASE Poll(a)
    BY <2>1, ClaimKeepsInv, DropIsFewer, SameStaysOwned DEF Poll, Places
  <2>2. CASE AppCancel(a) \/ RequestStop(a)
    BY <1>1, <2>2, DropIsFewer, SameStaysOwned DEF AppCancel, RequestStop, Places
  <2>3. CASE AppStart(a) \/ PeriodicRecovery(a)
    BY <2>3, DropIsFewer, RecoveryStaysOwned DEF AppStart, PeriodicRecovery, Places
  <2>4. CASE \/ LoopHead(a) \/ PollFault(a) \/ RecoveryFault(a) \/ PollWait(a)
             \/ AppExit(a)
    BY <2>4, DropIsFewer, SameStaysOwned
       DEF LoopHead, PollFault, RecoveryFault, PollWait, AppExit, Places
  <2> QED BY <1>4, <2>1, <2>2, <2>3, <2>4 DEF AppStep
<1>5. ASSUME NEW o \in Ops, OpsStep(o) PROVE ClaimInv'
  <2> o \in Procs BY DEF Procs
  <2>1. CASE OpsStart(o)
    BY <2>1, DropIsFewer, RecoveryStaysOwned DEF OpsStart, Places
  <2>2. CASE OpsClaim(o)
    BY <2>2, ClaimKeepsInv DEF OpsClaim
  <2>3. CASE OpsExit(o)
    BY <2>3, DropIsFewer, SameStaysOwned DEF OpsExit, Places
  <2> QED BY <1>5, <2>1, <2>2, <2>3 DEF OpsStep
<1>6. CASE UNCHANGED vars
  BY <1>1, <1>6 DEF vars
<1> QED BY <1>2, <1>3, <1>4, <1>5, <1>6 DEF Next

\* The claim invariant holds in every reachable state.
LEMMA ClaimInvariant == Spec => []ClaimInv
<1>1. Init => ClaimInv
  BY DEF Init, At, ClaimInv, ClaimsAreExclusive, OverlapNeedsLostKeepAlive,
         KeptYoung, Running
<1>2. Spec => []RowsOK
  BY RowInvariant DEF RowsOK
<1> QED BY <1>1, <1>2, ClaimInvStep, Typing, PTL DEF Spec

\* An attempt of a job is held by one process at most, and never one the row
\* has not reached.
THEOREM AttemptsAreExclusive == Spec => []ClaimsAreExclusive
BY ClaimInvariant, PTL DEF ClaimInv

\* As long as the keep-alive thread of a claim works, the claim stands, however
\* many processes recover stale jobs.
THEOREM KeptClaimsStand == Spec => []OverlapNeedsLostKeepAlive
BY ClaimInvariant, PTL DEF ClaimInv

-----------------------------------------------------------------------------
(* JobQueue implements JobLifecycle.                                        *)

St == [j \in Jobs |-> rows[j].status]
Att == [j \in Jobs |-> rows[j].attempt]
Wr == [j \in Jobs |-> rows[j].writer]
AbstractSame == St' = St /\ Att' = Att /\ Wr' = Wr

\* A statement on one row changes the abstract state at that job only.
LEMMA OneRow ==
  ASSUME TypeOK, NEW j \in Jobs, NEW s, rows' = [rows EXCEPT ![j] = s]
  PROVE  /\ St' = [St EXCEPT ![j] = s.status]
         /\ Att' = [Att EXCEPT ![j] = s.attempt]
         /\ Wr' = [Wr EXCEPT ![j] = s.writer]
BY DEF TypeOK, St, Att, Wr

\* A row that keeps its status, attempt and writer keeps the abstract state.
LEMMA OneRowSame ==
  ASSUME TypeOK, NEW j \in Jobs, NEW s, rows' = [rows EXCEPT ![j] = s],
         s.status = rows[j].status, s.attempt = rows[j].attempt,
         s.writer = rows[j].writer
  PROVE  AbstractSame
BY DEF TypeOK, St, Att, Wr, AbstractSame

\* Replacing an entry of the abstract state by itself changes nothing.
LEMMA ExceptSame ==
  ASSUME NEW j \in Jobs
  PROVE  [Att EXCEPT ![j] = Att[j]] = Att /\ [Wr EXCEPT ![j] = Wr[j]] = Wr
<1>1. \A f : f = [i \in Jobs |-> f[i]] => [f EXCEPT ![j] = f[j]] = f
  OBVIOUS
<1>2. Att = [i \in Jobs |-> Att[i]] /\ Wr = [i \in Jobs |-> Wr[i]]
  BY DEF Att, Wr
<1> QED BY <1>1, <1>2

\* A step that keeps status, attempt and writer of every job stutters abstractly.
LEMMA AbstractStutter == AbstractSame => UNCHANGED Lifecycle!vars
BY DEF AbstractSame, St, Att, Wr, Lifecycle!vars

\* A recovery is an abstract requeueing of the stale jobs.
LEMMA RecoveryRequeues ==
  ASSUME TypeOK, rows' = [j \in Jobs |-> Recovered(rows[j])]
  PROVE  Lifecycle!Next
<1>1. PICK S \in SUBSET Jobs : S = {j \in Jobs : Stale(rows[j])}
  OBVIOUS
<1>2. \A j \in Jobs : /\ rows'[j].attempt = rows[j].attempt
                      /\ rows'[j].writer = rows[j].writer
                      /\ rows'[j].status = IF j \in S THEN "queued" ELSE rows[j].status
  <2>1. ASSUME NEW r \in RowType
        PROVE  /\ Recovered(r).attempt = r.attempt
               /\ Recovered(r).writer = r.writer
               /\ Recovered(r).status = IF Stale(r) THEN "queued" ELSE r.status
    BY DEF Recovered, RowType
  <2> QED BY <1>1, <2>1 DEF TypeOK
<1>3. \A j \in S : rows[j].status = "running" BY <1>1 DEF Stale
<1>4. Lifecycle!Requeue(S) BY <1>2, <1>3 DEF Lifecycle!Requeue
<1> QED BY <1>4 DEF Lifecycle!Next

\* A claim is an abstract start, or the failure of an unreadable job.
LEMMA ClaimStarts ==
  ASSUME TypeOK, NEW p \in Procs, NEW j \in Jobs, Claim(p, j)
  PROVE  Lifecycle!Next
<1>1. St[j] = "queued" /\ rows[j] \in RowType
  BY DEF Claim, Oldest, Claimable, St, TypeOK
<1>2. CASE rows' = [rows EXCEPT ![j] = Claimed(rows[j])]
  <2>1. PICK s : s = Claimed(rows[j]) OBVIOUS
  <2>2. /\ s.status = "running" /\ s.attempt = Att[j] + 1 /\ s.writer = Wr[j]
    BY <1>1, <2>1 DEF Claimed, RowType, Att, Wr
  <2>3. rows' = [rows EXCEPT ![j] = s] BY <1>2, <2>1
  <2>4. /\ St' = [St EXCEPT ![j] = s.status]
        /\ Att' = [Att EXCEPT ![j] = s.attempt]
        /\ Wr' = [Wr EXCEPT ![j] = s.writer]
    BY <2>3, OneRow
  <2>5. Wr' = Wr BY <2>2, <2>4, ExceptSame
  <2>6. Lifecycle!Start(j)
    BY <1>1, <2>2, <2>4, <2>5 DEF Lifecycle!Start, Lifecycle!Move, St, Att, Wr
  <2> QED BY <2>6 DEF Lifecycle!Next
<1>3. CASE rows' = [rows EXCEPT ![j] = Rejected(rows[j])]
  <2>1. PICK s : s = Rejected(rows[j]) OBVIOUS
  <2>2. s.status = "failed" /\ s.attempt = Att[j] + 1 /\ s.writer = Att[j] + 1
    BY <1>1, <2>1 DEF Rejected, RowType, Att
  <2>3. rows' = [rows EXCEPT ![j] = s] BY <1>3, <2>1
  <2>4. /\ St' = [St EXCEPT ![j] = s.status]
        /\ Att' = [Att EXCEPT ![j] = s.attempt]
        /\ Wr' = [Wr EXCEPT ![j] = s.writer]
    BY <2>3, OneRow
  <2>5. Lifecycle!Refuse(j)
    BY <1>1, <2>2, <2>4 DEF Lifecycle!Refuse, Lifecycle!Move, St, Att, Wr
  <2> QED BY <2>5 DEF Lifecycle!Next
<1> QED BY <1>2, <1>3 DEF Claim

\* The end of a handler is an abstract conclusion, or nothing when the claim is gone.
LEMMA FinishConcludes ==
  ASSUME TypeOK, NEW p \in Procs, NEW ok \in BOOLEAN, Finish(p, ok)
  PROVE  Lifecycle!Next \/ UNCHANGED Lifecycle!vars
<1>1. PICK j \in Jobs : j = work[p].job BY DEF Finish, TypeOK
<1>2. rows[j] \in RowType BY DEF TypeOK
<1>3. CASE ~Owns(work[p].attempt, rows[j])
  <2>1. rows' = rows BY <1>1, <1>3 DEF Finish, TypeOK
  <2> QED BY <2>1 DEF Lifecycle!vars
<1>4. CASE Owns(work[p].attempt, rows[j])
  <2>1. PICK s : s = IF ok THEN Succeeded(rows[j], rows[j].attempt)
                      ELSE Failed(rows[j], rows[j].attempt)
    OBVIOUS
  <2>2. rows' = [rows EXCEPT ![j] = s]
    BY <1>1, <1>4, <2>1 DEF Finish, Owns, TypeOK
  <2>3. s.status \in {"succeeded", "failed"}
    BY <1>2, <2>1 DEF Succeeded, Failed, RowType
  <2>4. s.attempt = Att[j] /\ s.writer = Att[j]
    BY <1>2, <2>1 DEF Succeeded, Failed, RowType, Att
  <2>5. St[j] = "running" BY <1>4 DEF Owns, St
  <2>6. /\ St' = [St EXCEPT ![j] = s.status]
        /\ Att' = [Att EXCEPT ![j] = s.attempt]
        /\ Wr' = [Wr EXCEPT ![j] = s.writer]
    BY <2>2, OneRow
  <2>7. Att' = Att BY <2>4, <2>6, ExceptSame
  <2>8. Lifecycle!Conclude(j, s.status)
    BY <2>4, <2>5, <2>6, <2>7 DEF Lifecycle!Conclude, Lifecycle!Move, St, Att, Wr
  <2> QED BY <2>3, <2>8 DEF Lifecycle!Next
<1> QED BY <1>3, <1>4

\* Every step of the queue is a step or a stutter of the abstract life of a job.
LEMMA LifecycleStep ==
  TypeOK /\ RowsOK /\ [Next]_vars => [Lifecycle!Next]_Lifecycle!vars
<1> SUFFICES ASSUME TypeOK, RowsOK, [Next]_vars
             PROVE  Lifecycle!Next \/ UNCHANGED Lifecycle!vars
  OBVIOUS
<1>1. CASE UNCHANGED rows
  BY <1>1 DEF Lifecycle!vars
<1>2. CASE Environment
  <2>1. ASSUME NEW j \in Jobs, NEW k \in Kinds, NEW s \in BOOLEAN,
               NEW c \in 0..LastSecond, Create(j, k, s, c)
        PROVE  Lifecycle!Next
    <3>1. St[j] = "none" /\ Att[j] = 0 /\ Wr[j] = 0
      BY <2>1 DEF Create, St, Att, Wr, RowsOK, RowInv
    <3>2. PICK r : r = NewRow(k, s, c) OBVIOUS
    <3>3. r.status = "queued" /\ r.attempt = 0 /\ r.writer = 0
      BY <3>2 DEF NewRow
    <3>4. /\ St' = [St EXCEPT ![j] = r.status]
          /\ Att' = [Att EXCEPT ![j] = r.attempt]
          /\ Wr' = [Wr EXCEPT ![j] = r.writer]
      BY <2>1, <3>2, OneRow DEF Create
    <3>5. Att' = Att /\ Wr' = Wr BY <3>1, <3>3, <3>4, ExceptSame
    <3>6. Lifecycle!Submit(j)
      BY <3>1, <3>3, <3>4, <3>5 DEF Lifecycle!Submit, Lifecycle!Move, St, Att, Wr
    <3> QED BY <3>6 DEF Lifecycle!Next
  <2>2. ASSUME NEW j \in Jobs, Cancel(j) PROVE Lifecycle!Next
    <3>1. St[j] = "queued" /\ rows[j] \in RowType BY <2>2 DEF Cancel, St, TypeOK
    <3>2. PICK r : r = Cancelled(rows[j]) OBVIOUS
    <3>3. r.status = "cancelled" /\ r.attempt = Att[j] /\ r.writer = Wr[j]
      BY <3>1, <3>2 DEF Cancelled, RowType, Att, Wr
    <3>4. /\ St' = [St EXCEPT ![j] = r.status]
          /\ Att' = [Att EXCEPT ![j] = r.attempt]
          /\ Wr' = [Wr EXCEPT ![j] = r.writer]
      BY <2>2, <3>2, OneRow DEF Cancel
    <3>5. Att' = Att /\ Wr' = Wr BY <3>3, <3>4, ExceptSame
    <3>6. Lifecycle!Withdraw(j)
      BY <3>1, <3>3, <3>4, <3>5 DEF Lifecycle!Withdraw, Lifecycle!Move, St, Att, Wr
    <3> QED BY <3>6 DEF Lifecycle!Next
  <2>3. CASE KeyReplaced \/ Tick
    <3>1. \A j \in Jobs : /\ rows'[j].status = rows[j].status
                          /\ rows'[j].attempt = rows[j].attempt
                          /\ rows'[j].writer = rows[j].writer
      <4>1. ASSUME NEW r \in RowType, NEW b, NEW n
            PROVE  /\ [r EXCEPT !.readable = b].status = r.status
                   /\ [r EXCEPT !.readable = b].attempt = r.attempt
                   /\ [r EXCEPT !.readable = b].writer = r.writer
                   /\ [r EXCEPT !.silent = n].status = r.status
                   /\ [r EXCEPT !.silent = n].attempt = r.attempt
                   /\ [r EXCEPT !.silent = n].writer = r.writer
        BY DEF RowType
      <4>2. CASE KeyReplaced BY <4>1, <4>2 DEF KeyReplaced, TypeOK
      <4>3. CASE Tick BY <4>1, <4>3 DEF Tick, TypeOK
      <4> QED BY <2>3, <4>2, <4>3
    <3>2. AbstractSame BY <3>1 DEF AbstractSame, St, Att, Wr
    <3> QED BY <3>2, AbstractStutter
  <2> QED BY <1>1, <1>2, <2>1, <2>2, <2>3 DEF Environment, HttpEnter, HttpLeave
<1>3. ASSUME NEW p \in Procs, WorkerStep(p)
      PROVE  Lifecycle!Next \/ UNCHANGED Lifecycle!vars
  <2>1. ASSUME NEW v \in Int, work[p].pc = "running",
               rows' = [rows EXCEPT ![work[p].job] = Beaten(rows[work[p].job], v)]
        PROVE  UNCHANGED Lifecycle!vars
    <3>1. work[p].job \in Jobs /\ rows[work[p].job] \in RowType BY <2>1 DEF TypeOK
    <3>2. \A r \in RowType : /\ Beaten(r, v).status = r.status
                             /\ Beaten(r, v).attempt = r.attempt
                             /\ Beaten(r, v).writer = r.writer
      BY DEF Beaten, RowType
    <3> QED BY <2>1, <3>1, <3>2, OneRowSame, AbstractStutter
  <2>2. CASE \E v \in Reports : Report(p, v)
    BY <1>1, <2>1, <2>2, ReportsAssumption DEF Report
  <2>3. CASE KeepAlive(p)
    <3>1. work[p].progress \in Int BY DEF TypeOK, WorkType
    <3> QED BY <1>1, <2>1, <2>3, <3>1 DEF KeepAlive
  <2> QED BY <1>1, <1>3, <2>2, <2>3, FinishConcludes
          DEF WorkerStep, LoseKeepAlive, FinishFault, Crash
<1>4. ASSUME NEW a \in Apps, AppStep(a)
      PROVE  Lifecycle!Next \/ UNCHANGED Lifecycle!vars
  <2>1. CASE Poll(a) BY <1>1, <2>1, ClaimStarts DEF Poll, Procs
  <2>2. CASE AppStart(a) \/ PeriodicRecovery(a)
    BY <2>2, RecoveryRequeues DEF AppStart, PeriodicRecovery
  <2> QED BY <1>1, <1>4, <2>1, <2>2
          DEF AppStep, LoopHead, PollFault, RecoveryFault, PollWait,
              RequestStop, AppExit, AppCancel
<1>5. ASSUME NEW o \in Ops, OpsStep(o)
      PROVE  Lifecycle!Next \/ UNCHANGED Lifecycle!vars
  BY <1>1, <1>5, ClaimStarts, RecoveryRequeues
     DEF OpsStep, OpsStart, OpsClaim, OpsExit, Procs
<1>6. CASE UNCHANGED vars
  BY <1>1, <1>6 DEF vars
<1> QED BY <1>2, <1>3, <1>4, <1>5, <1>6 DEF Next

\* Whatever the processes do, the table shows the life of a job that
\* JobLifecycle describes.
THEOREM Refinement == Spec => ImplementsLifecycle
<1>1. Init => Lifecycle!Init
  BY DEF Init, NoRow, Lifecycle!Init
<1>2. Spec => []RowsOK
  BY RowInvariant DEF RowsOK
<1> QED BY <1>1, <1>2, LifecycleStep, Typing, PTL
        DEF Spec, ImplementsLifecycle, Lifecycle!Spec


-----------------------------------------------------------------------------
(* A runner that was told to stop.                                          *)

\* No runner that was told to stop takes up a job in this step.
StoppedStays ==
  \A a \in Apps : stopping /\ lock = a /\ work'[a].pc = "running"
                  => work[a].pc = "running"

\* Where every process that runs a handler did so before, no runner takes up a job.
LEMMA FewerStays == FewerClaims => StoppedStays
BY DEF FewerClaims, StoppedStays, Procs

\* A claim changes what its own process does, and nobody else's.
LEMMA ClaimIsOnes ==
  ASSUME TypeOK, NEW p \in Procs, NEW j \in Jobs, Claim(p, j)
  PROVE  \A q \in Procs \ {p} : work'[q] = work[q]
BY DEF Claim, TypeOK

\* In every step: _stop is looked at under the lock before the claim, and the
\* operations command line, which does not look at it, is another process.
LEMMA StoppedStep == TypeOK /\ [Next]_vars => StoppedStays
<1> SUFFICES ASSUME TypeOK, [Next]_vars PROVE StoppedStays
  OBVIOUS
<1> USE FewerStays
<1>1. CASE UNCHANGED work
  BY <1>1, SameIsFewer
<1>2. CASE Environment
  BY <1>1, <1>2 DEF Environment, Create, Cancel, KeyReplaced, Tick, HttpEnter, HttpLeave
<1>3. ASSUME NEW p \in Procs, WorkerStep(p) PROVE StoppedStays
  <2>1. NextPlace(p) \in Places \ {"running"} BY DEF NextPlace, Places
  <2>2. (IF p = lock THEN "polled" ELSE "down") \in Places \ {"running"} BY DEF Places
  <2>3. "down" \in Places \ {"running"} BY DEF Places
  <2>4. CASE \E v \in Reports : Report(p, v)
    <3>1. CASE \E v \in Reports : work' = [work EXCEPT ![p].progress = Clamp(v)]
      BY <3>1 DEF FewerClaims, TypeOK, WorkType
    <3> QED BY <2>1, <2>4, <3>1, DropIsFewer DEF Report
  <2>5. CASE KeepAlive(p) \/ LoseKeepAlive(p)
    <3>1. CASE work' = [work EXCEPT ![p].beating = FALSE]
      BY <3>1 DEF FewerClaims, TypeOK, WorkType
    <3> QED BY <1>1, <2>5, <3>1 DEF KeepAlive, LoseKeepAlive
  <2>6. CASE \E ok \in BOOLEAN : Finish(p, ok)
    BY <2>1, <2>6, DropIsFewer DEF Finish
  <2>7. CASE FinishFault(p) \/ Crash(p)
    BY <2>2, <2>3, <2>7, DropIsFewer DEF FinishFault, Crash
  <2> QED BY <1>3, <2>4, <2>5, <2>6, <2>7 DEF WorkerStep
<1>4. ASSUME NEW a \in Apps, AppStep(a) PROVE StoppedStays
  <2> a \in Procs BY DEF Procs
  <2>1. CASE Poll(a)
    <3>1. CASE \E j \in Jobs : ~stopping /\ Claim(a, j)
      BY <3>1 DEF StoppedStays
    <3> QED BY <2>1, <3>1, DropIsFewer DEF Poll, Places
  <2>2. CASE AppCancel(a) \/ RequestStop(a)
    BY <1>1, <2>2, DropIsFewer DEF AppCancel, RequestStop, Places
  <2>3. CASE \/ AppStart(a) \/ LoopHead(a) \/ PollFault(a) \/ PeriodicRecovery(a)
             \/ RecoveryFault(a) \/ PollWait(a) \/ AppExit(a)
    BY <2>3, DropIsFewer DEF AppStart, LoopHead, PollFault, PeriodicRecovery,
                             RecoveryFault, PollWait, AppExit, Places
  <2> QED BY <1>4, <2>1, <2>2, <2>3 DEF AppStep
<1>5. ASSUME NEW o \in Ops, OpsStep(o) PROVE StoppedStays
  <2> o \in Procs BY DEF Procs
  <2>1. CASE OpsStart(o) \/ OpsExit(o)
    BY <2>1, DropIsFewer DEF OpsStart, OpsExit, Places
  <2>2. CASE OpsClaim(o)
    <3>1. \A a \in Apps : a # o /\ a \in Procs BY ProcessAssumption DEF Procs
    <3>2. \A q \in Procs \ {o} : work'[q] = work[q] BY <2>2, ClaimIsOnes DEF OpsClaim
    <3> QED BY <3>1, <3>2 DEF StoppedStays
  <2> QED BY <1>5, <2>1, <2>2 DEF OpsStep
<1>6. CASE UNCHANGED vars
  BY <1>1, <1>6 DEF vars
<1> QED BY <1>2, <1>3, <1>4, <1>5, <1>6 DEF Next

\* Once stop() was called the runner claims nothing, however it was waiting.
THEOREM StoppedClaimsNothing == Spec => StoppedRunnerClaimsNothing
<1>1. TypeOK /\ [Next]_vars =>
        [\A a \in Apps : stopping /\ lock = a /\ work'[a].pc = "running"
                         => work[a].pc = "running"]_vars
  BY StoppedStep DEF StoppedStays
<1> QED BY <1>1, Typing, PTL DEF Spec, StoppedRunnerClaimsNothing
=============================================================================
