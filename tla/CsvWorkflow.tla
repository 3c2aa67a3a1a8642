----------------------------- MODULE CsvWorkflow -----------------------------
(***************************************************************************)
(* The staged document workflow behind the queue: CSV generation runs with  *)
(* their manifests (services/multi_format.py), the loads of their rows into *)
(* Teradata tables, and the creation of a Vector Store from a loaded run or *)
(* directly from uploads (services/workflow_jobs.py).                       *)
(*                                                                          *)
(* All runs are for one Vector Store name and one database name, the case   *)
(* in which they meet: the tables of a name exist once per server and kind. *)
(* A request is checked when it is made (routers/web.py,                    *)
(* workflows/create_flow.py) and waits in the queue; the handler checks     *)
(* again what may have changed since.  One runner executes one handler at a *)
(* time (JobQueue), so a handler's local copy of a manifest is the stored   *)
(* one.  A handler that dies is run again by the queue, or requested again. *)
(***************************************************************************)
EXTENDS Integers, FiniteSets

CONSTANTS
  Runs,       \* CSV generation runs that may be made
  KindOf,     \* the workflow each belongs to
  Profiles,   \* connection profiles
  Targets,    \* servers: the fingerprints profiles may have
  Parts,      \* CSV files of a run, and files of an upload
  Upload,     \* the source of rows inserted without a CSV run
  UploadKinds \* the workflows that are given uploads directly

Kinds == {"bookrag", "multi_format"}

ASSUME KindAssumption == KindOf \in [Runs -> Kinds]
ASSUME SourceAssumption == Upload \notin Runs /\ UploadKinds \subseteq Kinds
ASSUME PartsAssumption == IsFiniteSet(Parts) /\ Parts # {}

VARIABLES
  manifest,   \* the manifest.json of each run
  tables,     \* rows of the tables of the name, per server and kind
  stores,     \* the Vector Store of the name on each server
  points,     \* the server each connection profile points to
  queue,      \* the job that waits: more than one is not considered
  job,        \* the handler the runner is executing
  outcome     \* how the last handler that ended did so

vars == <<manifest, tables, stores, points, queue, job, outcome>>

None == "none"
ASSUME NoneAssumption == None \notin Profiles \cup Targets
Sources == Runs \cup {Upload}
Row == Sources \X Parts
RowsOf(s) == {s} \X Parts

LoadStatuses == {"not_started", "loading", "ready", "failed"}
StoreMarks == {"not_started", "creating", "ready", "failed"}
ManifestType ==
  [status: {None, "running", "ready", "failed"}, load: LoadStatuses,
   profile: Profiles \cup {None}, target: Targets \cup {None},
   mark: StoreMarks, supersedes: SUBSET Runs]
StoreType == [state: {"absent", "building", "ready", "failed"},
              kind: Kinds, rows: SUBSET Row]
Stages == {"idle", "generate", "clean", "claim", "prepare", "insert",
           "preprocess", "extract", "upload", "announce", "create", "wait", "verify"}
JobType ==
  [stage: Stages, source: Sources, kind: Kinds, profile: Profiles \cup {None},
   target: Targets \cup {None}, todo: SUBSET Parts, broken: BOOLEAN,
   reuse: BOOLEAN]

\* A waiting job names the run, or the kind of run it will make.
TaskType ==
  [task: {None, "generate", "load", "create"}, source: Sources, kind: Kinds,
   profile: Profiles \cup {None}]

\* A handler returns, raises, or returns the result "pending".
Outcomes == {None, "returned", "raised", "pending"}

\* The type invariant: a load that was ever begun is bound to a connection, and
\* so is a job that loads or creates.
TypeOK ==
  /\ manifest \in [Runs -> ManifestType]
  /\ tables \in [Targets -> [Kinds -> SUBSET Row]]
  /\ stores \in [Targets -> StoreType]
  /\ points \in [Profiles -> Targets]
  /\ queue \in TaskType
  /\ job \in JobType
  /\ outcome \in Outcomes
  /\ \A r \in Runs : manifest[r].load # "not_started" =>
       manifest[r].profile # None /\ manifest[r].target # None
  /\ job.stage \notin {"idle", "generate"} => job.target # None

NoManifest == [status |-> None, load |-> "not_started", profile |-> None,
               target |-> None, mark |-> "not_started", supersedes |-> {}]
NoStore == [state |-> "absent", kind |-> "bookrag", rows |-> {}]
Idle == [stage |-> "idle", source |-> Upload, kind |-> "bookrag",
         profile |-> None, target |-> None, todo |-> {}, broken |-> FALSE,
         reuse |-> FALSE]

Task(task, s, k, p) == [task |-> task, source |-> s, kind |-> k, profile |-> p]
NoTask == Task(None, Upload, "bookrag", None)

Init ==
  /\ manifest = [r \in Runs |-> NoManifest]
  /\ tables = [t \in Targets |-> [k \in Kinds |-> {}]]
  /\ stores = [t \in Targets |-> NoStore]
  /\ points \in [Profiles -> Targets]
  /\ queue = NoTask
  /\ job = Idle
  /\ outcome = None

Free == job.stage = "idle"
Handling(s, stage) == job.source = s /\ job.stage = stage

\* The handler ends: it returns, or raises.
End(o) == job' = Idle /\ outcome' = o
Proceed(stage) == job' = [job EXCEPT !.stage = stage] /\ UNCHANGED outcome

SourceTable == tables[job.target][job.kind]
SetSourceTable(rows) ==
  tables' = [tables EXCEPT ![job.target][job.kind] = rows]
Mark(m) == manifest' = [manifest EXCEPT ![job.source].mark = m]

\* What the runs are offered for: to be loaded, to be created from.
Offered(r) == manifest[r].status = "ready"
Loaded(r) == Offered(r) /\ manifest[r].load = "ready"

\* What a count may come to: it may be unavailable, or not readable.
Unavailable == -1
Reported(n) == {n, Unavailable}
SourceCounts == Reported(Cardinality(SourceTable))
IndexCounts == Reported(Cardinality(stores[job.target].rows))

-----------------------------------------------------------------------------
(* CSV generation.                                                          *)

\* _ensure_csv_generation_target_available
TargetAvailable ==
  \A r \in Runs : ~Loaded(r)

\* _find_failed_bookrag_csv_runs_for_target
FailedLoads == {r \in Runs : /\ KindOf[r] = "bookrag"
                             /\ manifest[r].load = "failed"
                             /\ manifest[r].mark \notin {"creating", "ready"}}

\* A run that can still be made; each attempt is a run of its own.
NewRuns(k) == {r \in Runs : KindOf[r] = k /\ manifest[r].status = None}

Ask(task) ==
  /\ queue = NoTask /\ queue' = task
  /\ UNCHANGED <<manifest, tables, stores, points, job, outcome>>

RequestGenerate(k) ==
  /\ NewRuns(k) # {} /\ TargetAvailable
  /\ Ask(Task("generate", Upload, k, None))

\* The handlers of the two workflows, and what becomes of their requests.
GenerateCsv == RequestGenerate("bookrag")
GenerateMultiFormatCsv == RequestGenerate("multi_format")

\* The runner takes the waiting job.
Take(task) == Free /\ queue = task /\ queue' = NoTask

StartGenerate(r) ==
  /\ Take(Task("generate", Upload, KindOf[r], None))
  /\ r \in NewRuns(KindOf[r])
  /\ TargetAvailable
  /\ manifest' = [manifest EXCEPT ![r] =
       [NoManifest EXCEPT !.status = "running",
          !.supersedes = IF KindOf[r] = "bookrag" THEN FailedLoads ELSE {}]]
  /\ job' = [Idle EXCEPT !.stage = "generate", !.source = r, !.kind = KindOf[r]]
  /\ UNCHANGED <<tables, stores, points, outcome>>

\* The final manifest: ready only when every document was transformed.
EndGenerate(status) ==
  /\ job.stage = "generate"
  /\ manifest' = [manifest EXCEPT ![job.source].status = status]
  /\ End(IF status = "ready" THEN "returned" ELSE "raised")
  /\ UNCHANGED <<tables, stores, points>>

-----------------------------------------------------------------------------
(* Loading a run.                                                           *)

\* Mutant: a repointed profile is still the same profile.
ProfileOnly(m, p) == m.profile \in {None, p}

\* _validate_load_connection
ConnectionMatches(m, p) ==
  /\ m.profile \in {None, p}
  /\ m.target \in {None, points[p]}

\* Mutant: an interrupted load is taken up again.
LoadUnfinished(m) == m.load # "ready"

\* run_*_csv_load refuses a load that is marked loading and returns the
\* stored summary of a ready one.
LoadAllowed(m) == m.load \in {"not_started", "failed"}

\* The cleanup of BookRAG tables a failed load left.
NeedsCleanup(r) == /\ KindOf[r] = "bookrag"
                   /\ \/ manifest[r].load = "failed"
                      \/ manifest[r].supersedes # {}

\* Runs in ready status are offered, whatever became of their load.
RequestLoad(r, p) ==
  /\ Offered(r)
  /\ Ask(Task("load", r, KindOf[r], p))

LoadCsvTables(r, p) == KindOf[r] = "bookrag" /\ RequestLoad(r, p)
LoadMultiFormatCsvTable(r, p) == KindOf[r] = "multi_format" /\ RequestLoad(r, p)

MayLoad(r, p) ==
  /\ Offered(r)
  /\ ConnectionMatches(manifest[r], p)
  /\ LoadAllowed(manifest[r])
  /\ NeedsCleanup(r) => manifest[r].mark \notin {"creating", "ready"}

StartLoad(r, p) ==
  /\ Take(Task("load", r, KindOf[r], p)) /\ MayLoad(r, p)
  /\ job' = [Idle EXCEPT !.stage = IF NeedsCleanup(r) THEN "clean" ELSE "claim",
                         !.source = r, !.kind = KindOf[r], !.profile = p,
                         !.target = points[p]]
  /\ UNCHANGED <<manifest, tables, stores, points, outcome>>

\* _cleanup_failed_bookrag_csv_load_tables: DROP TABLE, before the manifest
\* changes.
CleanTables ==
  /\ job.stage = "clean"
  /\ SetSourceTable({})
  /\ Proceed("claim")
  /\ UNCHANGED <<manifest, stores, points>>

\* Mutant: the load does not record its connection.
MarkUnbound ==
  /\ job.stage = "claim"
  /\ manifest' = [manifest EXCEPT ![job.source].load = "loading"]
  /\ Proceed("prepare")
  /\ UNCHANGED <<tables, stores, points>>

\* The manifest is marked, and bound to the connection, before any table is
\* written.
MarkLoading ==
  /\ job.stage = "claim"
  /\ LET m == manifest[job.source] IN
     manifest' = [manifest EXCEPT ![job.source] =
       [m EXCEPT !.load = "loading", !.profile = job.profile, !.target = job.target,
                 !.supersedes = IF m.load = "failed" THEN m.supersedes ELSE {}]]
  /\ Proceed("prepare")
  /\ UNCHANGED <<tables, stores, points>>

Inserting == job' = [job EXCEPT !.stage = "insert", !.todo = Parts]

\* _ensure_table refuses a BookRAG table with rows.
Admits == job.kind = "bookrag" => SourceTable = {}

\* _ensure_unstructured_teradata_table drops and creates its table.
EmptyTable == Admits /\ SetSourceTable({})

Prepare ==
  /\ job.stage = "prepare"
  /\ EmptyTable
  /\ Inserting
  /\ UNCHANGED <<manifest, stores, points, outcome>>

\* What becomes of one CSV file.  The driver is given another name for it, a
\* link or a copy: part of a copy that failed is taken for the whole file by
\* the next load, and that load does not notice.
FileOutcomes == [arrives: BOOLEAN, fails: BOOLEAN]

\* One CSV file, in any order; it may fail before or after its rows arrive.
InsertPart(x, arrives, fails) ==
  /\ job.stage = "insert" /\ x \in job.todo
  /\ SetSourceTable(IF arrives THEN SourceTable \cup {<<job.source, x>>}
                               ELSE SourceTable)
  /\ job' = [job EXCEPT !.todo = @ \ {x}, !.broken = @ \/ fails]
  /\ UNCHANGED <<manifest, stores, points, outcome>>

\* Mutant: failed inserts are not counted.
LoadedAnyhow ==
  /\ job.stage = "insert" /\ job.todo = {}
  /\ manifest' = [manifest EXCEPT ![job.source].load = "ready"]
  /\ End("returned")
  /\ UNCHANGED <<tables, stores, points>>

\* Every file was inserted, and the table holds as many rows as the files.
FinishLoad ==
  /\ job.stage = "insert" /\ job.todo = {} /\ ~job.broken
  /\ Cardinality(SourceTable) = Cardinality(Parts)
  /\ manifest' = [manifest EXCEPT ![job.source].load = "ready"]
  /\ End("returned")
  /\ UNCHANGED <<tables, stores, points>>

\* Any exception after the manifest was marked: a table with rows, a failed
\* file, a count that is wrong or unavailable.
FailLoad ==
  /\ \/ job.stage = "prepare"
     \/ job.stage = "insert" /\ job.todo = {}
  /\ manifest' = [manifest EXCEPT ![job.source].load = "failed"]
  /\ End("raised")
  /\ UNCHANGED <<tables, stores, points>>

-----------------------------------------------------------------------------
(* Creating the Vector Store.                                               *)

\* _loaded_run_summary and get_ready_*_csv_load_summary; uploads need none.
SummaryReady(s, p) ==
  s \in Runs => Loaded(s) /\ ConnectionMatches(manifest[s], p)

\* Mutant: a retry does not look for a store first.
NeverExists(t) == FALSE

\* _vector_store_exists
StoreExists(t) == stores[t].state # "absent"

\* handle_upload_and_prepare_create: the request looks only at the manifest.
RequestCreate(s, k, p) ==
  /\ IF s \in Runs THEN k = KindOf[s] /\ Loaded(s) ELSE k \in UploadKinds
  /\ Ask(Task("create", s, k, p))

StartCreate(s, k, p) ==
  /\ Take(Task("create", s, k, p)) /\ SummaryReady(s, p)
  /\ job' = [Idle EXCEPT !.stage = IF StoreExists(points[p]) THEN "announce"
                                                            ELSE "preprocess",
                         !.source = s, !.kind = k, !.profile = p,
                         !.target = points[p], !.reuse = StoreExists(points[p])]
  /\ UNCHANGED <<manifest, tables, stores, points, outcome>>

\* Tables before anything is parsed.
PrepareUpload ==
  /\ EmptyTable
  /\ job' = [job EXCEPT !.stage = IF job.kind = "bookrag" THEN "extract" ELSE "upload",
                        !.todo = Parts]
  /\ UNCHANGED outcome

\* preprocess_create_payload: a loaded run only hands over its summary, uploads
\* need tables.
Preprocess ==
  /\ job.stage = "preprocess"
  /\ IF job.source \in Runs
     THEN Proceed("announce") /\ UNCHANGED tables
     ELSE PrepareUpload
  /\ UNCHANGED <<manifest, stores, points>>

\* One document is parsed, and its rows are built, by a thread of a pool; no
\* row is inserted before all have been.
Extract(x) ==
  /\ job.stage = "extract" /\ x \in job.todo
  /\ job' = IF job.todo = {x} THEN [job EXCEPT !.stage = "upload", !.todo = Parts]
                              ELSE [job EXCEPT !.todo = @ \ {x}]
  /\ UNCHANGED <<manifest, tables, stores, points, outcome>>

Arrive(x, arrives) ==
  /\ job.stage = "upload" /\ x \in job.todo
  /\ job' = [job EXCEPT !.todo = @ \ {x}]
  /\ SetSourceTable(IF arrives THEN SourceTable \cup {<<job.source, x>>} ELSE SourceTable)
  /\ UNCHANGED <<manifest, stores, points, outcome>>

\* The rows of one document are inserted by a thread of a pool.  A document may
\* have none.
UploadPart(x, arrives) == job.kind = "bookrag" /\ Arrive(x, arrives)

\* Multi-Format parses and inserts one file after another.
UploadFile(x, arrives) == job.kind = "multi_format" /\ Arrive(x, arrives)

\* The table must have rows; BookRAG goes on when it cannot count them.
FinishUpload ==
  /\ job.stage = "upload" /\ job.todo = {}
  /\ \E count \in SourceCounts :
       count > 0 \/ (count = Unavailable /\ job.kind = "bookrag")
  /\ Proceed("announce")
  /\ UNCHANGED <<manifest, tables, stores, points>>

\* BookRAG may be asked for tables only.
SkipCreate ==
  /\ job.stage = "announce" /\ job.source = Upload /\ job.kind = "bookrag" /\ ~job.reuse
  /\ End("returned")
  /\ UNCHANGED <<manifest, tables, stores, points>>

\* mark_vectorstore_status(creating); only loaded runs have a manifest.
Announce ==
  /\ job.stage = "announce"
  /\ IF job.source \in Runs THEN Mark("creating") ELSE UNCHANGED manifest
  /\ Proceed(IF job.reuse THEN "wait" ELSE "create")
  /\ UNCHANGED <<tables, stores, points>>

\* VectorStore.create(): the server starts building.
CallCreate ==
  /\ job.stage = "create"
  /\ stores' = [stores EXCEPT ![job.target] =
       [state |-> "building", kind |-> job.kind, rows |-> {}]]
  /\ Proceed("wait")
  /\ UNCHANGED <<manifest, tables, points>>

\* read_vectorstore_status: a text that is not understood says nothing about the
\* store, nor does a check that raises; but if the text it raises is of something
\* that failed to be created or updated, the store counts as failed.
Observed(t) ==
  {"unknown", "failed", IF stores[t].state = "building" THEN "in_progress" ELSE stores[t].state}

\* create() raises, possibly after the server began; the server reports
\* failure; or the index cannot be verified.
CreateFails(began) ==
  /\ \/ job.stage = "create"
     \/ job.stage = "wait" /\ "failed" \in Observed(job.target)
     \/ job.stage = "verify"
  /\ began => job.stage = "create"
  /\ stores' = IF began
               THEN [stores EXCEPT ![job.target] =
                       [state |-> "building", kind |-> job.kind, rows |-> {}]]
               ELSE stores
  /\ IF job.source \in Runs THEN Mark("failed") ELSE UNCHANGED manifest
  /\ End("raised")
  /\ UNCHANGED <<tables, points>>

\* The service reads the source table at some time of its own.
ServerBuilds(t) ==
  /\ stores[t].state = "building"
  /\ LET rows == tables[t][stores[t].kind] IN
     stores' = [stores EXCEPT ![t].state = IF rows = {} THEN "failed" ELSE "ready",
                              ![t].rows = rows]
  /\ UNCHANGED <<manifest, tables, points, job, outcome>>

\* _wait_for_ready sees Ready; uploads have nothing more to verify.
SeesReady ==
  /\ job.stage = "wait" /\ "ready" \in Observed(job.target)
  /\ IF job.source \in Runs THEN Proceed("verify") ELSE End("returned")
  /\ UNCHANGED <<manifest, tables, stores, points>>

\* The monitoring timeout: the mark stays, the handler returns "pending".
TimeOut ==
  /\ job.stage = "wait" /\ Observed(job.target) \cap {"in_progress", "unknown"} # {}
  /\ IF job.source \in Runs THEN Mark("creating") ELSE UNCHANGED manifest
  /\ End("pending")
  /\ UNCHANGED <<tables, stores, points>>

\* _verify_loaded_index compares two counts; BookRAG goes on, with a warning,
\* when one of them is unavailable.
IndexVerified(expected, count) ==
  /\ 0 \notin {expected, count}
  /\ IF Unavailable \in {expected, count}
     THEN job.kind = "bookrag" ELSE count = expected

FinishCreate ==
  /\ job.stage = "verify"
  /\ \E expected \in SourceCounts, count \in IndexCounts :
       IndexVerified(expected, count)
  /\ Mark("ready")
  /\ End("returned")
  /\ UNCHANGED <<tables, stores, points>>

-----------------------------------------------------------------------------
(* Around the handlers.                                                     *)

\* The job of the handler, as the queue knows it.
Running ==
  CASE job.stage = "generate" -> Task("generate", Upload, job.kind, None)
    [] job.stage \in {"clean", "claim", "prepare", "insert"} ->
         Task("load", job.source, job.kind, job.profile)
    [] OTHER -> Task("create", job.source, job.kind, job.profile)

\* An exception leaves the handler where nothing catches it, or the process
\* dies and the queue runs the job again: no manifest is written any more.
Interrupt(again) ==
  /\ ~Free
  /\ End("raised")
  /\ IF again THEN queue = NoTask /\ queue' = Running ELSE UNCHANGED queue
  /\ UNCHANGED <<manifest, tables, stores, points>>

\* What was so when the job was requested is no longer so.
Refuse ==
  /\ Free /\ queue # NoTask
  /\ CASE queue.task = "generate" -> NewRuns(queue.kind) = {} \/ ~TargetAvailable
       [] queue.task = "load" -> ~MayLoad(queue.source, queue.profile)
       [] queue.task = "create" -> ~SummaryReady(queue.source, queue.profile)
  /\ queue' = NoTask /\ outcome' = "raised"
  /\ UNCHANGED <<manifest, tables, stores, points, job>>

\* An administrator edits a connection; /admin requests do not take the lock.
Repoint(p, t) ==
  /\ points[p] # t
  /\ points' = [points EXCEPT ![p] = t]
  /\ UNCHANGED <<manifest, tables, stores, job, outcome>>

\* handle_destroy_selected, under the runtime lock: BookRAG tables or the chunk
\* table go too, as the service describes the store, unless the drop fails.
Destroy(t, dropped) ==
  /\ Free /\ stores[t].state \in {"ready", "failed"}
  /\ stores' = [stores EXCEPT ![t] = NoStore]
  /\ tables' = [tables EXCEPT ![t] =
       [k \in Kinds |-> IF k \in dropped THEN {} ELSE @[k]]]
  /\ UNCHANGED <<manifest, points, job, outcome>>

\* Steps of a running handler and of its surroundings.
Step ==
  \/ \E s \in {"ready", "failed"} : EndGenerate(s)
  \/ CleanTables \/ MarkLoading \/ Prepare
  \/ \E x \in Parts, o \in FileOutcomes : InsertPart(x, o.arrives, o.fails)
  \/ FinishLoad \/ FailLoad
  \/ Preprocess \/ FinishUpload \/ SkipCreate
  \/ \E x \in Parts : Extract(x)
  \/ \E x \in Parts, arrives \in BOOLEAN : UploadPart(x, arrives) \/ UploadFile(x, arrives)
  \/ Announce \/ CallCreate \/ SeesReady \/ TimeOut \/ FinishCreate
  \/ \E began \in BOOLEAN : CreateFails(began)
  \/ \E t \in Targets : ServerBuilds(t)
  \/ \E p \in Profiles, t \in Targets : Repoint(p, t)
  \/ \E t \in Targets : \E dropped \in {{}} \cup {{k} : k \in Kinds} :
       Destroy(t, dropped)

Next ==
  \/ GenerateCsv \/ GenerateMultiFormatCsv
  \/ \E r \in Runs, p \in Profiles :
       LoadCsvTables(r, p) \/ LoadMultiFormatCsvTable(r, p) \/ StartLoad(r, p)
  \/ \E s \in Sources, k \in Kinds, p \in Profiles :
       RequestCreate(s, k, p) \/ StartCreate(s, k, p)
  \/ \E r \in Runs : StartGenerate(r)
  \/ \E again \in BOOLEAN : Interrupt(again)
  \/ Refuse
  \/ Step /\ UNCHANGED queue

Spec == Init /\ [][Next]_vars

-----------------------------------------------------------------------------
(* Properties.                                                              *)

Loading(r) == \E stage \in {"prepare", "insert"} : Handling(r, stage)

\* A load that was interrupted stays marked, and is never taken up again: no
\* later job of the run, be it the queue's retry, gets to its tables ("the
\* application refuses automatic destructive retry", docs/architecture.md).
InterruptedLoadStays ==
  [][\A r \in Runs :
       manifest[r].load = "loading" /\ ~Loading(r)
       => manifest'[r].load = "loading" /\ ~Loading(r)']_vars

\* A run is marked loaded only when the tables it is bound to hold every row
\* of its files and no row of any other source.
ReadyMeansLoaded ==
  [][\A r \in Runs :
       manifest[r].load # "ready" /\ manifest'[r].load = "ready"
       => tables[manifest[r].target][KindOf[r]] = RowsOf(r)]_vars

\* Once a load has begun, the run belongs to that profile and server whatever
\* an administrator does to the profile, and no job of the run, load or
\* create, works on another server.
BindingIsFinal ==
  [][\A r \in Runs :
       manifest[r].load # "not_started"
       => /\ manifest'[r].target = manifest[r].target
          /\ manifest'[r].profile = manifest[r].profile
          /\ job'.source = r => job'.target = manifest[r].target]_vars

\* A create job never touches source tables where a Vector Store of the name
\* already exists: also not when it is run again after a crash or a timeout.
SourcesUnderIndexKept ==
  [][\A t \in Targets :
       /\ job.stage \in {"preprocess", "extract", "upload", "announce", "create", "wait", "verify"}
       /\ stores[t].state # "absent"
       => tables'[t] = tables[t]]_vars

\* _cleanup_failed_bookrag_csv_load_tables drops only tables of failed loads:
\* no row of a run whose load is ready is about to go.
CleanupSparesLoadedRuns ==
  job.stage = "clean" =>
    \A r \in Runs : manifest[r].load = "ready" => SourceTable \cap RowsOf(r) = {}
=============================================================================
