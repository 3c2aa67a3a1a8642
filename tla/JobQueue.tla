------------------------------ MODULE JobQueue ------------------------------
(***************************************************************************)
(* The durable job queue: the `jobs` table (JobRepository), the runner      *)
(* inside the application process (ApplicationJobRunner around a            *)
(* PersistentJobWorker, started and stopped by the lifespan of main.py      *)
(* under the database-scoped SingleInstanceLock) and the processes of       *)
(* `python -m app.ops run-jobs`, which use the same table without that      *)
(* lock.  One action is one SQLite transaction, or one step of a process    *)
(* between two transactions.                                                *)
(*                                                                          *)
(* Time is counted in units of the 30 s keep-alive period.  A row carries   *)
(* the age of its heartbeat instead of its timestamp; ages stop at          *)
(* Lease + 1, past which nothing distinguishes them.                        *)
(***************************************************************************)
EXTENDS Integers, FiniteSets

CONSTANTS
  Jobs,               \* job ids; their order is the order of the uuid strings
  Apps,               \* application processes that may be started
  Ops,                \* `app.ops run-jobs` processes that may be started
  Reports,            \* progress values handlers report
  LastSecond,         \* bound: created_at ranges over 0..LastSecond
  Beat,               \* longest silence of a working keep-alive thread
  Lease,              \* max(60, job_stale_seconds)
  RecoveryInterval,   \* min(60, max(1, job_stale_seconds / 2))
  MaxBatch,           \* --max-jobs of run-jobs
  MaxFaults           \* bound: crashes, lost threads and database errors

ASSUME JobsAssumption == Jobs \subseteq Nat
ASSUME ProcessAssumption == Apps \cap Ops = {}
ASSUME ReportsAssumption == Reports \subseteq Int
ASSUME BoundsAssumption ==
  /\ Beat \in Nat /\ Lease \in Nat /\ Beat < Lease
  /\ RecoveryInterval \in Nat /\ LastSecond \in Nat
  /\ MaxBatch \in Nat \ {0} /\ MaxFaults \in Nat

VARIABLES
  rows,       \* the jobs table
  lock,       \* the application process holding the file lock, or Nobody
  stopping,   \* ApplicationJobRunner._stop of the lock holder
  http,       \* a request of the lock holder holds the runtime operation lock
  due,        \* time since the runner last looked for stale jobs
  work,       \* what each process is doing, with its claim
  batch,      \* jobs an ops process may still claim
  faults      \* faults so far

vars == <<rows, lock, stopping, http, due, work, batch, faults>>

Nobody == "nobody"
NoJob == -1
Procs == Apps \cup Ops
Kinds == {"workflow", "artifact.cleanup"}
Terminal == {"succeeded", "failed", "cancelled"}
Statuses == {"none", "queued", "running"} \cup Terminal

\* The handlers a process registers: _build_job_runner and app.ops.
HandledKinds(p) == IF p \in Apps THEN Kinds ELSE {"artifact.cleanup"}

\* `sensitive` remembers that the job was submitted with a secret payload and
\* `writer` which attempt's outcome the row stores (0: none).
RowType ==
  [kind: Kinds, status: Statuses, attempt: Nat, progress: 0..100,
   silent: 0..(Lease + 1), created: 0..LastSecond, sensitive: BOOLEAN,
   secret: BOOLEAN, readable: BOOLEAN, writer: Nat]

NoRow == [kind |-> "workflow", status |-> "none", attempt |-> 0,
          progress |-> 0, silent |-> 0, created |-> 0, sensitive |-> FALSE,
          secret |-> FALSE, readable |-> TRUE, writer |-> 0]

\* The row JobRepository.create inserts.
NewRow(k, s, c) == [kind |-> k, status |-> "queued", attempt |-> 0,
                    progress |-> 0, silent |-> 0, created |-> c,
                    sensitive |-> s, secret |-> s, readable |-> TRUE,
                    writer |-> 0]

\* Where a process is: "idle" at the head of its loop, "waiting" for the
\* runtime lock, "running" a handler, "polled" after a poll that ran nothing;
\* the runner task of an application is "done" after stop(), "dead" after an
\* exception it does not catch.
Places == {"down", "idle", "waiting", "running", "polled", "done", "dead"}
WorkType == [pc: Places, job: Jobs \cup {NoJob}, attempt: Nat,
             progress: 0..99, beating: BOOLEAN]
At(pc) == [pc |-> pc, job |-> NoJob, attempt |-> 0, progress |-> 0,
           beating |-> FALSE]

Init ==
  /\ rows = [j \in Jobs |-> NoRow]
  /\ lock = Nobody /\ stopping = FALSE /\ http = FALSE /\ due = 0
  /\ work = [p \in Procs |-> At("down")]
  /\ batch = [o \in Ops |-> 0]
  /\ faults = 0

-----------------------------------------------------------------------------
(* The statements of JobRepository, as functions of a row.                  *)

\* Mutant: the upper end of the range is forgotten.
UnclampedProgress(v) == IF v < 0 THEN 0 ELSE v

\* max(0, min(int(value), 99))
Clamp(v) == IF v < 0 THEN 0 ELSE IF v > 99 THEN 99 ELSE v

\* Mutant: the statements are not fenced by the attempt.
OwnsAnyAttempt(a, r) == r.status = "running"

\* WHERE id=? AND status='running' AND attempt=?
Owns(a, r) == r.status = "running" /\ r.attempt = a

\* Mutant: a recovered job is claimed again under the same attempt number.
ReclaimedAsBefore(r) ==
  [r EXCEPT !.status = "running", !.silent = 0,
            !.attempt = IF @ = 0 THEN 1 ELSE @]

Claimed(r) == [r EXCEPT !.status = "running", !.attempt = @ + 1, !.silent = 0]

\* The claim of a row whose payload or secrets cannot be read fails it.
Rejected(r) == [r EXCEPT !.status = "failed", !.attempt = @ + 1,
                         !.silent = 0, !.secret = FALSE,
                         !.writer = r.attempt + 1]

Beaten(r, v) == [r EXCEPT !.silent = 0, !.progress = Clamp(v)]

\* The outcome written is the one of attempt a.
Succeeded(r, a) == [r EXCEPT !.status = "succeeded", !.progress = 100,
                             !.secret = FALSE, !.silent = 0, !.writer = a]

Failed(r, a) == [r EXCEPT !.status = "failed", !.secret = FALSE, !.silent = 0,
                          !.writer = a]

\* Mutant: a cancelled job keeps its ciphertext.
CancelledWithSecret(r) == [r EXCEPT !.status = "cancelled"]

Cancelled(r) == [r EXCEPT !.status = "cancelled", !.secret = FALSE]

\* Mutant: the lower limit of 60 s on the lease is gone.
StaleAtOnce(r) == r.status = "running" /\ r.silent > 0

\* COALESCE(heartbeat_at, started_at, updated_at) < now - lease; a running row
\* always has a heartbeat.
Stale(r) == r.status = "running" /\ r.silent > Lease

Recovered(r) == IF Stale(r) THEN [r EXCEPT !.status = "queued", !.silent = 0,
                                           !.progress = 0]
                            ELSE r

\* ORDER BY created_at, id
Before(i, j) == \/ rows[i].created < rows[j].created
                \/ rows[i].created = rows[j].created /\ i < j

Claimable(p) == {j \in Jobs : /\ rows[j].status = "queued"
                              /\ rows[j].kind \in HandledKinds(p)}

\* The job claim_next selects for p.
Oldest(p, j) == /\ j \in Claimable(p)
                /\ \A i \in Claimable(p) \ {j} : Before(j, i)

\* Only the application passes a credential vault to its repository.
CanRead(p, r) == r.secret => r.readable /\ p \in Apps

-----------------------------------------------------------------------------
(* Requests and the world outside.                                          *)

\* queue_workflow_job and enqueue-artifact-cleanup; the clock does not go back.
Create(j, k, s, c) ==
  /\ rows[j].status = "none"
  /\ s => k = "workflow"
  /\ \A i \in Jobs : rows[i].status # "none" => rows[i].created <= c
  /\ rows' = [rows EXCEPT ![j] = NewRow(k, s, c)]
  /\ UNCHANGED <<lock, stopping, http, due, work, batch, faults>>

Cancel(j) ==
  /\ rows[j].status = "queued"
  /\ rows' = [rows EXCEPT ![j] = Cancelled(@)]
  /\ UNCHANGED <<lock, stopping, http, due, work, batch, faults>>

\* The key file is replaced: no stored ciphertext can be decrypted any more.
KeyReplaced ==
  /\ faults < MaxFaults
  /\ \E j \in Jobs : rows[j].secret /\ rows[j].readable
  /\ rows' = [j \in Jobs |-> [rows[j] EXCEPT !.readable = @ /\ ~rows[j].secret]]
  /\ faults' = faults + 1
  /\ UNCHANGED <<lock, stopping, http, due, work, batch>>

\* Time passes, while every keep-alive thread that still runs keeps its period.
Tick ==
  /\ \A p \in Procs :
       /\ work[p].pc = "running"
       /\ work[p].beating
       /\ Owns(work[p].attempt, rows[work[p].job])
       => rows[work[p].job].silent < Beat
  /\ rows' = [j \in Jobs |->
       IF rows[j].status = "running" /\ rows[j].silent <= Lease
       THEN [rows[j] EXCEPT !.silent = @ + 1] ELSE rows[j]]
  /\ due' = IF due < RecoveryInterval THEN due + 1 ELSE due
  /\ UNCHANGED <<lock, stopping, http, work, batch, faults>>

\* RuntimeIsolationMiddleware: a request takes the operation lock, the same
\* one the runner holds from before the claim until the job is over.
HttpEnter ==
  /\ lock # Nobody /\ ~http
  /\ work[lock].pc # "running"
  /\ http' = TRUE
  /\ UNCHANGED <<rows, lock, stopping, due, work, batch, faults>>

HttpLeave ==
  /\ http
  /\ http' = FALSE
  /\ UNCHANGED <<rows, lock, stopping, due, work, batch, faults>>

-----------------------------------------------------------------------------
(* PersistentJobWorker.run_once, in an application or an ops process.       *)

\* claim_next in one immediate transaction; a rejected job is returned as it
\* is and the caller goes on with its loop.
Claim(p, j) ==
  /\ Oldest(p, j)
  /\ IF CanRead(p, rows[j])
     THEN /\ rows' = [rows EXCEPT ![j] = Claimed(@)]
          /\ work' = [work EXCEPT ![p] =
               [pc |-> "running", job |-> j, attempt |-> rows[j].attempt + 1,
                progress |-> 1, beating |-> TRUE]]
     ELSE /\ rows' = [rows EXCEPT ![j] = Rejected(@)]
          /\ work' = [work EXCEPT ![p] = At("idle")]

\* Where a process goes when its job is over: an application that was
\* cancelled during the job has released its lock and ends with it.
NextPlace(p) == IF p \in Apps /\ lock # p THEN "down" ELSE "idle"

\* The handler calls heartbeat(v); a lost claim raises JobClaimLost, which
\* ends the job without a word to the database.
Report(p, v) ==
  /\ work[p].pc = "running"
  /\ IF Owns(work[p].attempt, rows[work[p].job])
     THEN /\ rows' = [rows EXCEPT ![work[p].job] = Beaten(@, v)]
          /\ work' = [work EXCEPT ![p].progress = Clamp(v)]
     ELSE /\ work' = [work EXCEPT ![p] = At(NextPlace(p))]
          /\ UNCHANGED rows
  /\ UNCHANGED <<lock, stopping, http, due, batch, faults>>

\* The keep-alive thread writes the last progress; it ends on a lost claim.
KeepAlive(p) ==
  /\ work[p].pc = "running" /\ work[p].beating
  /\ IF Owns(work[p].attempt, rows[work[p].job])
     THEN /\ rows' = [rows EXCEPT ![work[p].job] = Beaten(@, work[p].progress)]
          /\ UNCHANGED work
     ELSE /\ work' = [work EXCEPT ![p].beating = FALSE]
          /\ UNCHANGED rows
  /\ UNCHANGED <<lock, stopping, http, due, batch, faults>>

\* A database error ends the keep-alive thread; the handler goes on.
LoseKeepAlive(p) ==
  /\ work[p].pc = "running" /\ work[p].beating
  /\ faults < MaxFaults
  /\ work' = [work EXCEPT ![p].beating = FALSE]
  /\ faults' = faults + 1
  /\ UNCHANGED <<rows, lock, stopping, http, due, batch>>

\* The handler returns (ok) or raises; the outcome is written if the claim
\* still stands.
Finish(p, ok) ==
  /\ work[p].pc = "running"
  /\ rows' = [rows EXCEPT ![work[p].job] =
       IF ~Owns(work[p].attempt, @) THEN @
       ELSE IF ok THEN Succeeded(@, work[p].attempt) ELSE Failed(@, work[p].attempt)]
  /\ work' = [work EXCEPT ![p] = At(NextPlace(p))]
  /\ UNCHANGED <<lock, stopping, http, due, batch, faults>>

\* The outcome cannot be written: the runner logs the error and counts it as
\* an empty poll; an ops process dies of it.
FinishFault(p) ==
  /\ work[p].pc = "running"
  /\ faults < MaxFaults
  /\ work' = [work EXCEPT ![p] = At(IF p = lock THEN "polled" ELSE "down")]
  /\ faults' = faults + 1
  /\ UNCHANGED <<rows, lock, stopping, http, due, batch>>

-----------------------------------------------------------------------------
(* The application process: lifespan and ApplicationJobRunner.              *)

\* The lock is taken, start() recovers stale jobs and creates the task.
AppStart(a) ==
  /\ work[a].pc = "down" /\ lock = Nobody
  /\ lock' = a
  /\ rows' = [j \in Jobs |-> Recovered(rows[j])]
  /\ work' = [work EXCEPT ![a] = At("idle")]
  /\ stopping' = FALSE /\ http' = FALSE /\ due' = 0
  /\ UNCHANGED <<batch, faults>>

\* while not self._stop.is_set()
LoopHead(a) ==
  /\ lock = a /\ work[a].pc = "idle"
  /\ work' = [work EXCEPT ![a] = At(IF stopping THEN "done" ELSE "waiting")]
  /\ UNCHANGED <<rows, lock, stopping, http, due, batch, faults>>

\* Mutant: _stop is not looked at again under the lock.
PollWithoutSecondLook(a) ==
  /\ lock = a /\ work[a].pc = "waiting" /\ ~http
  /\ \/ \E j \in Jobs : Claim(a, j)
     \/ /\ Claimable(a) = {}
        /\ work' = [work EXCEPT ![a] = At("polled")]
        /\ UNCHANGED rows
  /\ UNCHANGED <<lock, stopping, http, due, batch, faults>>

\* Under the operation lock: the second look at _stop, then run_once.
Poll(a) ==
  /\ lock = a /\ work[a].pc = "waiting" /\ ~http
  /\ \/ /\ stopping
        /\ work' = [work EXCEPT ![a] = At("done")]
        /\ UNCHANGED rows
     \/ /\ ~stopping
        /\ \E j \in Jobs : Claim(a, j)
     \/ /\ ~stopping
        /\ Claimable(a) = {}
        /\ work' = [work EXCEPT ![a] = At("polled")]
        /\ UNCHANGED rows
  /\ UNCHANGED <<lock, stopping, http, due, batch, faults>>

\* run_once raises in the claim: logged and retried.
PollFault(a) ==
  /\ lock = a /\ work[a].pc = "waiting" /\ ~http /\ ~stopping
  /\ faults < MaxFaults
  /\ work' = [work EXCEPT ![a] = At("polled")]
  /\ faults' = faults + 1
  /\ UNCHANGED <<rows, lock, stopping, http, due, batch>>

\* Mutant: stale jobs are only recovered at startup.
StartupRecoveryOnly(a) ==
  /\ lock = a /\ work[a].pc = "polled" /\ due = RecoveryInterval
  /\ due' = 0
  /\ work' = [work EXCEPT ![a] = At("idle")]
  /\ UNCHANGED <<rows, lock, stopping, http, batch, faults>>

\* After a poll that completed nothing: the periodic recovery.
PeriodicRecovery(a) ==
  /\ lock = a /\ work[a].pc = "polled" /\ due = RecoveryInterval
  /\ rows' = [j \in Jobs |-> Recovered(rows[j])]
  /\ due' = 0
  /\ work' = [work EXCEPT ![a] = At("idle")]
  /\ UNCHANGED <<lock, stopping, http, batch, faults>>

\* It is outside the try block: a database error ends the runner task.
RecoveryFault(a) ==
  /\ lock = a /\ work[a].pc = "polled" /\ due = RecoveryInterval
  /\ faults < MaxFaults
  /\ work' = [work EXCEPT ![a] = At("dead")]
  /\ faults' = faults + 1
  /\ UNCHANGED <<rows, lock, stopping, http, due, batch>>

\* wait_for(self._stop.wait(), poll_seconds)
PollWait(a) ==
  /\ lock = a /\ work[a].pc = "polled" /\ due < RecoveryInterval
  /\ work' = [work EXCEPT ![a] = At("idle")]
  /\ UNCHANGED <<rows, lock, stopping, http, due, batch, faults>>

RequestStop(a) ==
  /\ lock = a /\ ~stopping
  /\ stopping' = TRUE
  /\ UNCHANGED <<rows, lock, http, due, work, batch, faults>>

\* stop() returns when the task is over; the lock is released after it.
AppExit(a) ==
  /\ lock = a /\ stopping /\ work[a].pc \in {"done", "dead"}
  /\ lock' = Nobody
  /\ work' = [work EXCEPT ![a] = At("down")]
  /\ stopping' = FALSE /\ http' = FALSE /\ due' = 0
  /\ UNCHANGED <<rows, batch, faults>>

\* The task is cancelled (a second interrupt): the lifespan unwinds and
\* releases the lock, but the thread of asyncio.to_thread keeps running the
\* handler until the interpreter has joined it.
AppCancel(a) ==
  /\ lock = a /\ faults < MaxFaults
  /\ lock' = Nobody
  /\ work' = IF work[a].pc = "running" THEN work
             ELSE [work EXCEPT ![a] = At("down")]
  /\ stopping' = FALSE /\ http' = FALSE /\ due' = 0
  /\ faults' = faults + 1
  /\ UNCHANGED <<rows, batch>>

\* The process is killed; the operating system releases its file lock.
Crash(p) ==
  /\ work[p].pc # "down" /\ faults < MaxFaults
  /\ work' = [work EXCEPT ![p] = At("down")]
  /\ IF lock = p
     THEN /\ lock' = Nobody /\ stopping' = FALSE /\ http' = FALSE /\ due' = 0
     ELSE UNCHANGED <<lock, stopping, http, due>>
  /\ faults' = faults + 1
  /\ UNCHANGED <<rows, batch>>

-----------------------------------------------------------------------------
(* `python -m app.ops run-jobs`: recovery of every kind, then cleanup jobs. *)

OpsStart(o) ==
  /\ work[o].pc = "down"
  /\ rows' = [j \in Jobs |-> Recovered(rows[j])]
  /\ work' = [work EXCEPT ![o] = At("idle")]
  /\ batch' = [batch EXCEPT ![o] = MaxBatch]
  /\ UNCHANGED <<lock, stopping, http, due, faults>>

OpsClaim(o) ==
  /\ work[o].pc = "idle" /\ batch[o] > 0
  /\ \E j \in Jobs : Claim(o, j)
  /\ batch' = [batch EXCEPT ![o] = @ - 1]
  /\ UNCHANGED <<lock, stopping, http, due, faults>>

OpsExit(o) ==
  /\ work[o].pc = "idle"
  /\ batch[o] = 0 \/ Claimable(o) = {}
  /\ work' = [work EXCEPT ![o] = At("down")]
  /\ batch' = [batch EXCEPT ![o] = 0]
  /\ UNCHANGED <<rows, lock, stopping, http, due, faults>>

-----------------------------------------------------------------------------
WorkerStep(p) ==
  \/ \E v \in Reports : Report(p, v)
  \/ KeepAlive(p)
  \/ LoseKeepAlive(p)
  \/ \E ok \in BOOLEAN : Finish(p, ok)
  \/ FinishFault(p)
  \/ Crash(p)

AppStep(a) ==
  \/ AppStart(a) \/ LoopHead(a) \/ Poll(a) \/ PollFault(a)
  \/ PeriodicRecovery(a) \/ RecoveryFault(a) \/ PollWait(a)
  \/ RequestStop(a) \/ AppExit(a) \/ AppCancel(a)

OpsStep(o) == OpsStart(o) \/ OpsClaim(o) \/ OpsExit(o)

Environment ==
  \/ \E j \in Jobs, k \in Kinds, s \in BOOLEAN, c \in 0..LastSecond :
       Create(j, k, s, c)
  \/ \E j \in Jobs : Cancel(j)
  \/ KeyReplaced \/ Tick \/ HttpEnter \/ HttpLeave

Next ==
  \/ Environment
  \/ \E p \in Procs : WorkerStep(p)
  \/ \E a \in Apps : AppStep(a)
  \/ \E o \in Ops : OpsStep(o)

Spec == Init /\ [][Next]_vars

\* Handlers and requests end, threads are scheduled, time passes, and
\* asyncio.Lock serves its waiters in order, so that the runner gets the
\* operation lock although requests keep coming.  Nothing is assumed of
\* starts, stops, cancellations of jobs or faults.
Fairness ==
  /\ WF_vars(Tick) /\ WF_vars(HttpLeave)
  /\ \A p \in Procs :
       /\ WF_vars(KeepAlive(p))
       /\ WF_vars(\E ok \in BOOLEAN : Finish(p, ok))
  /\ \A a \in Apps :
       /\ WF_vars(LoopHead(a)) /\ SF_vars(Poll(a))
       /\ WF_vars(PeriodicRecovery(a)) /\ WF_vars(PollWait(a))

FairSpec == Spec /\ Fairness

-----------------------------------------------------------------------------
TypeOK ==
  /\ rows \in [Jobs -> RowType]
  /\ lock \in Apps \cup {Nobody}
  /\ stopping \in BOOLEAN /\ http \in BOOLEAN
  /\ due \in 0..RecoveryInterval
  /\ work \in [Procs -> WorkType]
  /\ \A p \in Procs : work[p].pc = "running" => work[p].job \in Jobs
  /\ batch \in [Ops -> 0..MaxBatch]
  /\ faults \in 0..MaxFaults

Running(p) == work[p].pc = "running"

\* Two processes never hold the same attempt of a job, and no process holds
\* an attempt the row has not reached: claim_next hands an attempt out once.
ClaimsAreExclusive ==
  /\ \A p \in Procs : Running(p) => work[p].attempt <= rows[work[p].job].attempt
  /\ \A p, q \in Procs :
       /\ Running(p) /\ Running(q) /\ p # q
       /\ work[p].job = work[q].job
       => work[p].attempt # work[q].attempt

\* Two handlers work on one job at the same time only if the older one lost
\* its keep-alive thread: a claim kept alive is never given to anybody else.
OverlapNeedsLostKeepAlive ==
  \A p \in Procs :
    /\ Running(p) /\ work[p].beating
    => Owns(work[p].attempt, rows[work[p].job])

\* Secrets are kept as long as an attempt may still need them, through every
\* recovery, and are gone as soon as the job is over, however it ended.
SecretsEndWithJob ==
  \A j \in Jobs :
    rows[j].secret <=> rows[j].sensitive /\ rows[j].status \notin Terminal

\* After stop() is called the runner of that application claims nothing more,
\* not even when it was waiting for the runtime lock.
StoppedRunnerClaimsNothing ==
  [][\A a \in Apps : stopping /\ lock = a /\ work'[a].pc = "running"
                     => work[a].pc = "running"]_vars

\* The table shows every job the life JobLifecycle promises, whatever the
\* processes do: attempts are numbered, only recovery gives one up, and the
\* attempt under way is the only one that can end the job.
Lifecycle == INSTANCE JobLifecycle WITH
  status <- [j \in Jobs |-> rows[j].status],
  attempt <- [j \in Jobs |-> rows[j].attempt],
  writer <- [j \in Jobs |-> rows[j].writer]
ImplementsLifecycle == Lifecycle!Spec

\* If the runner task of one application process stays alive from some point
\* on, every job that was queued or claimed is over at some point.
RunnerAlive(a) == lock = a /\ ~stopping /\ work[a].pc # "dead"
EveryJobEnds ==
  (\E a \in Apps : <>[]RunnerAlive(a))
    => \A j \in Jobs : rows[j].status \in {"queued", "running"}
                         ~> rows[j].status \in Terminal
=============================================================================
