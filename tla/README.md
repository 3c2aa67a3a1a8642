# TLA+ verification of teradataevsui

teradataevsui is a server-rendered FastAPI application around Teradata Vector Store. It parses
documents, turns them into CSV files, loads those into Teradata tables, builds Vector Stores from
them and answers questions from the result. Its control plane is one SQLite database.

This directory holds TLA+ modules translated from the code in `src/app/`, their TLC configurations,
and TLAPS proofs. `PROJECT.json` lists components, runs, mutants (one way to break the code per
property), the source lines behind each definition, findings, hazards and theorems.

## 1. Inventory

### How the program runs

* One process. `WEB_CONCURRENCY` above 1 is refused and a file lock (`core/single_instance.py`) keeps
  a second server away from the same database. Handlers run on one event loop.
* A second kind of process exists: the operations command line (`ops/__main__.py`), which shares the
  database and the upload directory, but neither memory nor the lock of the server.
* The Teradata SDK is global to the process. `TeradataRuntimeManager.operation()`, an `asyncio.Lock`,
  serializes its users: most `/ui` requests (the job pages and pages outside `/ui` do not take it),
  the external API, and the background runner (`services/job_worker.py`).
* A job runs in a thread while the event loop goes on; a keep-alive thread refreshes its claim.
* SQLite transactions are short and one per repository call. Several calls are several transactions.

### Components

| Component | State | Operations | What makes it correct |
|---|---|---|---|
| Job queue (`repositories/job_repository.py`, `services/job_worker.py`) | the `jobs` table; per process the claim in hand | create, claim, heartbeat, succeed, fail, cancel, recover | one holder per attempt; an old attempt changes nothing; secrets end with the job; a job ends |
| Application process (`main.py`, `core/single_instance.py`) | the file lock, the runner task, the stop flag | start, stop, crash | nothing is claimed after stop |
| Operations command line (`ops/__main__.py`) | - | run-jobs, enqueue, cleanup | works beside a server |
| Staged CSV workflow (`services/multi_format.py`, `services/workflow_jobs.py`, `services/bookrag_schema.py`) | manifest files, Teradata tables, Vector Stores | generate, load, clean up, create, each requested first and run later | a ready load holds exactly its rows; an interrupted load is not repeated over its tables; a run stays with its connection |
| Deletion (`workflows/destroy_flow.py`) | stores and their tables | destroy | - |
| Accounts and sessions (`auth_store.py`, `repositories/*`, `routers/auth.py`, `routers/system_admin.py`) | `users`, `sessions` | bootstrap, setup, login, logout, create, enable, role, reset, import | an ended session stays ended; a live one knows the password; an administrator remains; guesses are bounded |
| Connection profiles (`auth_store.py`, `routers/system_admin.py`) | `system_connection_profiles` | save, delete | exactly one default |
| Session runtime (`core/runtime_manager.py`, `web_support.py`, `session_state.py`, `integrations/teradata/connection.py`) | the SDK context, `active_identity`, a scope per session | connect, reset, reactivate, activate for a job or the API | everybody works on his own connection |
| Artifacts (`services/artifact_lifecycle.py`, `repositories/artifact_repository.py`) | the `artifacts` table, files | register, clean up | what is marked deleted is gone; what expired goes |
| Parsing (`services/unstructured_*.py`, `integrations/unstructured/`, the parsing part of `services/multi_format.py`) | jobs of the Unstructured service, raw files, parse manifests | submit, poll, download, collect, write the manifest, generate from it | no document is parsed twice; the manifest says what happened; a generation has the rows of what was parsed |
| BookRAG document model (`services/bookrag_tree.py`, `_reconcile`, `_graph`, `_integrity`) | none: functions over lists | blocks, sections, leaves, entities, key checks | a tree with consistent levels, leaves within the limit, no dangling key |
| Document governance (`services/bookrag_document_metadata.py`, `_document_relations`, `_schema`, `/ui/admin` handlers of `routers/web.py`) | metadata columns, the relation table, the view of effective documents | enter, import, auto-fill, relate, delete | what an administrator entered decides; no relation is lost by a failure |
| Retrieval and answers (`services/bookrag_adaptive_retrieval.py`, `_retrieval`, `_query_planner`, `_retrieval_policy`, `routers/api.py`) | none: the locals of one request | scope, search, rank, cover, select, answer | evidence within the scope; background only where current evidence falls short; the answer is full when it can be, and cites what it shows |
| Create requests (`workflows/create_flow.py`) | session state | validate, queue | the job checks again |
| Credential vault, external service settings, migrations, backup | key file, SQLite | encrypt, migrate, back up | - |
| Pages, prompts, chat, table previews, templates, scripts | - | rendering | - |

### How they interact

A page queues a job for the profile its session has selected; a foreign key refuses a profile that is
gone, and deleting a profile leaves the job without one. The runner takes the runtime lock, claims a
job, activates the profile's connection for it and runs its handler, which reads and writes manifests
and tables. Administrators change users and profiles without taking the lock, at any moment.

A parsing run leaves raw files and a manifest; a generation reads them, perhaps days later, when the
cleaner or an operator has been there; a load reads what the generation wrote; a creation what the load
inserted; and questions are answered from the rows of the tree that the generation built, within the
documents that administrators let through.

Hard behaviours: a process that dies with a claim; recovery in one process against a heartbeat in
another; a handler that goes on after its claim was given away; the suspension of a request between
the middleware and the handler; failures halfway through an activation, an import, a parallel load or
a retry; two runs that share their tables; a profile that moves to another server; a wait for a remote
server that gives up; a service that answers late, twice or never; files that go between two steps; SQL
statements that are committed one by one. `PROJECT.json` lists them as hazards, each at its line.

## 2. Modules

| Module | Models |
|---|---|
| `JobLifecycle` | the abstract life of a job: queued, running, over; attempts are numbered; only the attempt under way can end the job |
| `JobQueue` | the table, the worker with its keep-alive thread, the runner with lock and stop flag, the operations process; implements `JobLifecycle` |
| `JobQueueProofs` | proofs about `JobQueue` |
| `DocumentParsing` | a parsing run: the pool of threads, the service client, raw files, the manifest; and the generations that read it back |
| `DocumentParsingProofs` | proofs about `DocumentParsing` |
| `CsvWorkflow` | requests in the queue, generation runs, loads, cleanup, creation from a run or from uploads, deletion, interruption anywhere |
| `CsvWorkflowProofs` | proofs about `CsvWorkflow` |
| `AuthStore` | users, sessions, passwords, locks, imports |
| `AuthStoreProofs` | proofs about `AuthStore` |
| `SessionRuntime` | the SDK context, the runtime lock, session scopes, profiles, jobs' and the API's connections |
| `SessionRuntimeProofs` | proofs about `SessionRuntime` |
| `LeafSegments` | how the text of a leaf is cut, as a fold over token counts |
| `EntityRegistry` | the entities of a document and the names that find or make them |
| `BookRagTree` | extends both: one document on its way to rows, blocks, the section stack, the node tree, links and relations, the validation |
| `BookRagTreeProofs` | proofs about `BookRagTree`, `LeafSegments` and `EntityRegistry` |
| `DocumentGovernance` | metadata, relations and the view of effective documents, changed statement by statement |
| `AdaptiveRetrieval` | extends it by one question: scope, searches, ranking, selection, answer, citations |
| `AdaptiveRetrievalProofs` | proofs about `AdaptiveRetrieval` and `DocumentGovernance` |
| `ArtifactLifecycle` | files, their rows, overlapping cleaning passes that may stop |
| `ArtifactLifecycleProofs` | proofs about `ArtifactLifecycle` |
| `MC*` | instances for TLC |

The modules follow a document: `DocumentParsing` ends where a generation is ready, `CsvWorkflow` begins with
generations that end ready or failed, `BookRagTree` is what a generation computes for one document, and
`DocumentGovernance` with `AdaptiveRetrieval` is what becomes of the rows. `JobQueue` runs the jobs in all of
this, and `SessionRuntime` says over whose connection. They are checked apart: what one hands to the
next is an input of the next, over all values the first may produce.

**JobQueue.** `rows` is the table; `silent` in a row is the time since its last heartbeat, in place of
timestamps. `work[p]` is what process `p` executes (`pc`), with the job, the attempt and whether the
keep-alive thread is alive (`beating`). `Claim`, `Report`, `KeepAlive`, `Finish` are the statements of
`JobRepository` with their `expected_attempt` guards. A runner passes through `LoopHead`, `Poll` (with
the second look at the stop flag under the lock), `PeriodicRecovery` and `PollWait`. Faults are
crashes, forced cancellations, keep-alive threads that die, failing database calls and a replaced
encryption key.

**CsvWorkflow.** `manifest[r]` is the manifest of a run, `tables` the rows of the tables of one Vector
Store name per server and kind, `stores` the store of that name per server, `points` the server each
profile points to, `queue` the job that waits, `job` the handler under way with the stage it has reached.
A request is checked and put in the queue (`RequestGenerate`, `RequestLoad`, `RequestCreate`); the handler
checks again (`Start*`) or gives up (`Refuse`). `UploadKinds` are the workflows that are given uploads
without a CSV run: BookRAG extracts all documents before it inserts any row, Multi-Format one after the other. A stage is what happens
between two effects that can be seen afterwards; `Interrupt` may strike between any two. A file of a
load arrives or not, and fails or not, independently (`InsertPart`), as in the parallel load and with the
copies the driver is given. `Observed` is what a status check may say about a store (one that raises may say "failed" of a store that still builds),
`Reported` what a count may come to.

**DocumentParsing.** `task[d]` is the thread of an upload, with its attempts and polls; `service[d]` its job
at the service, which ends when it likes. `Collect` is the loop over finished threads: the record of a
failed file takes the size of its upload outside of any handler, so a file that is gone makes the run
raise after the pool is left (`LeavePool`). `WriteManifest` is the last step; `Die` may come at any
moment. `LoseSource` and `ChangeRaw` are the cleaner and the operator. `Transform` builds the rows of a document or fails, as the
tree and integrity checks of BookRagTree may. A payload says which elements have
text; `RowsOf` numbers rows as `_format_chunk_row_id` does.

**ArtifactLifecycle.** A path gets a file once, except manifests, which a job reads and replaces later.
`CheckFile`, which computes the expiry, and `Register` are the two steps of a registration, `ListExpired`, `Unlink` and `MarkDeleted` those of a
cleaning pass; passes and clients overlap freely, since no lock is held.

**DocumentGovernance.** `op` is the request under way with the rows it has still to write; each of `WriteValues`,
`WriteFill`, `SaveRelation` and `DeleteOriginal` is one statement, and `Fail` may end the request before any. Requests do not
overlap: their handlers never await between statements. `said` is a ghost, what an administrator last entered.

**AdaptiveRetrieval.** A behaviour is: edits, then one question. `Scope` fixes the documents of both tracks;
`SearchCurrent` and `SearchBackground` return any sequence of different rows the filter admits. `Strays` are rows of the
Vector Store that the node table has not. A row is resolved as `_resolve_match_node` does: to itself or a node of its document
with its text (`Own`), without a document id to such a node of another document (`Others`), or to nothing (`Unmatched`);
two rows may come to one node. `Rerank`, `Diversify`, `Cover` and `Select` are the functions of that name. `Answer` is the
language model reading the rows of the last search, which is confined to the selected nodes, or, when nothing was selected and
no last search is made, the rows of the first (`ResponseRows`); `Shown` and `Cited` are the evidence and the citations of the reply. `Refuse` is any failure, after which nothing of the request remains.

**AuthStore.** Handlers are atomic, because they contain no suspension between their reads and writes;
the import is the exception: one transaction per user, with `Abort` in between. A password stands for
its hash. `guesses` counts wrong passwords since an account was last opened.

**SessionRuntime.** A step is what the event loop does between two suspensions, so `Enter` (the
middleware) and the handler's work are separate, and requests without the lock come in between. `context` is
what the SDK is connected to and who made it; `lock.host` is what the holder means to use. A failed
activation leaves nothing, the old context, or the new context without a token (`FailedContexts`).

**BookRagTree.** The environment hands over an element at a time; `Drop`, `AddSection` and `AddLeaf` are
the body of the loops of `elements_to_bookrag_blocks` and `build_bookrag_nodes`, taken together.
`ResolvedParent` has the early returns of `_resolve_section_parent` in their order. `nodes` are the rows,
the first the document's; `stack` holds places in it. The graph builder's climb to a section is a step
per parent (`BeginWalk`, `WalkUp`, `EndLinkWalk`), since whether it ends is a question; `NodeNamed` is its
`node_map`, where the last of several nodes with one id wins. Relations are looked at one by one
(`AddRelation`, then `EndRelationWalk`), since each may add to `registry`, the `entity_ids_by_key` of the
code. An entity keeps the display name of the mention that made it (`MadeBefore`), and normalizing a name twice may
give another name than once. `Cut` holds the segments of a leaf, each a sequence of units with their tokens. `Validate` is the
integrity check.

### Abstractions

* An element of BookRagTree carries what the classifiers find in it (kind, family, level, depth hint) and
  the token counts of its text, 0 for white space; every combination the code can produce is in `ElementType`,
  and titles, paths and captions are left out. Two hashes are equal when what is hashed is. Names are
  values with two functions, without spaces and without numbering or brackets, and the type a bare name is
  guessed to have; counts of mentions are left out. A non-positive page is one that is missing.
  A document has fewer than 10000 elements, below which ordinals of segments and blocks differ.

* An upload in DocumentParsing is its number; a payload is the list of its elements, each with text or
  without. A checksum is the content. Poll intervals are steps, the timeout a number of polls.
* Dates in AdaptiveRetrieval are months; scores are counted in units of 1e-5, role and series bonuses are
  data (`Bonus`), as are the facets of the question, the terms they require, the terms a text has and its length. Whether
  discovery adds facets is an input (`more`). The metadata rules find (`Derived`) is given.
* One Vector Store name and database in CsvWorkflow, where runs meet. The tables of a kind are one set
  of rows. One runner executes at a time, so a handler's copy of a manifest is the stored one; handlers
  that overlap after a lost claim are checked in JobQueue and not repeated here.
* The server lists a store as soon as it has accepted it.
* The parsing service does not take a submission that it answers with 429; one whose answer is lost it may have taken.
* Every caller of the registration of a file gives a retention (`services/workflow_jobs.py:306`, `routers/web.py:207`), so that
  files that never expire are those without a row.
* A host in SessionRuntime stands for all credentials of a profile; incomplete ones behave like those
  whose activation fails. A job that needs no connection leaves the SDK alone and is not shown.
* Any session may be an administrator's in `DeleteCollection`.
* AuthStore has two roles, administrator and other. `MaxFailures`, `LockTime` and `Ttl` are parameters;
  the code has 4 (before the failure that locks), five minutes and the configured session time.
* Audit rows, `last_seen_at`, messages and page contents are left out.

## 3. Runs

| Run | Question | Bounds |
|---|---|---|
| `jobs_fencing` | claims, fencing, secrets, shutdown, refinement, and that every job ends | one job, two servers one after the other, one operations process, two faults, reports -5, 50, 120 |
| `parsing` | one service job per document, manifest, generations, row ids, that runs end | two uploads, two threads, two attempts, two polls, three payloads |
| `csv_pair` | loads and creates of two competing BookRAG runs and uploads | two files each, one server |
| `csv_targets` | does a run stay with its connection | one run, two profiles, two servers |
| `csv_cleanup` | violated: the retry of a failed load spares what is loaded | two runs, one file each |
| `accounts` | sessions, passwords, locks, the last administrator | two users, two session tokens, two passwords, every import of up to two entries, time up to 2 |
| `accounts_import` | violated: an import leaves an administrator | the same |
| `turns` | whose connection is used, and from where it comes | two sessions, two profiles, two hosts, the API, jobs |
| `turns_collections` | violated: Collections are deleted on one's own connection | the same |
| `documents` | tree, segments, graph rows, verdict | four elements out of thirteen kinds: each early return of the parent rules, leaves of no segment to five (a limit of three tokens, an overlap of one), with a segment over the limit and a cut word, pages forward and back, six names, one id that may repeat |
| `questions` | scope, background, selection, answer, relations | four documents with five nodes and two stray rows, a series and a role that may become background, two requests of administrators, three windows, limits below, within and above the policy, two rows a search |
| `cleaning` | what cleaning leaves | an upload, a manifest, a file below another root, two passes, one client, three days, one stop |

Why these bounds are enough. Claims of different jobs meet only in the order of the queue; fencing is
about several processes and one row, and two faults are needed for the deepest case (a keep-alive
thread dies, then the process that took over). Runs meet in pairs over their tables, and two files are
the least for a load that succeeds in part. Two users are the least for handing the administration
over, two tokens for a session that survives another. A third session behaves like the API or a job:
somebody who left his context behind. Where a theorem exists the bounds do not matter. Two uploads are the least for an order
among threads and for an offset. The periodic series of `questions` has three issues, so that one is kept and
two compete for the background; two nodes of one issue meet the cap per document; a passage shared by a
monthly and another document gives the row that names no document, and of the two stray rows one has the text of a node and
the other of none. The role that may become background (the shipped policy has none) has one document, so the series decides
what is background; the proofs are for any roles. Three days let a registration expire
and be renewed. Four
elements hold a heading of every family at once, or three headings and a leaf, which is as deep as one
rule looks into the stack. The six names are a name, the same with a number before it, the same without the
space between, a date, a label of a type, and one of which nothing is left.

Bounds in the models: `MaxFaults`, `MaxBatch` (jobs per `run-jobs`), `LastSecond` (creation times
told apart), `Lease`, `Beat`, `RecoveryInterval` (small numbers in the order the settings have) in
JobQueue; `MaxTime` in AuthStore; `MaxPolls` and `MaxAttempts` in DocumentParsing; `LastDay` and `MaxStops` in
ArtifactLifecycle; `MaxEdits` in DocumentGovernance; at most two rows in a file of metadata or relations. Attempt numbers are bounded through the faults. Symmetry is used for
session tokens, and for sessions and hosts, which the code never orders; not for profiles, whose ids
it does.

`questions` has a `VIEW`: once the scope is read, nothing depends on how the documents got there, so states that
differ only in that count as one; the properties about the administrators' part are about steps before it. And once a row
has become a package, there will be evidence, and the rows of the first search are not looked at again.
Its share of background is 4/5 instead of the shipped 2/5, and one node per document is allowed: with 2/5 and
a limit of four neither the place kept for current documents nor the cap would decide anything.

**Fairness.** In `jobs_fencing`, time passes, keep-alive threads are scheduled, handlers and requests
return, the runner's loop continues. `Poll` is strongly fair because `asyncio.Lock` serves its waiters
in order, so that the runner gets the lock although requests keep coming. Nothing is assumed of starts,
stops, faults or users. The property assumes that a runner stays alive from some point on: after a
crash nothing ends jobs until somebody starts the server again. It needs the periodic recovery: with
recovery at startup only, TLC shows a job stranded by the operations process.

`documents` assumes that the build, one function call, goes on until it returns (weak fairness of `Next`).
When ids repeat, `WalkUp` can lead from a node to itself:
the call runs, the state stays, and neither TLC's weak fairness nor the program gets out of it (`ClimbsForever`). `parsing`
assumes that the handler and each thread go on, since every call has a timeout; of the service nothing is assumed.
`cleaning` assumes that passes are started again and go on unless they die.

Deadlock is not checked in the runs of `documents`, `parsing` and `questions`: a build, a run or a question that has ended
stops.

## 4. Findings

* `csv_cleanup`: the retry of a failed load drops mapped tables that another run has since loaded and verified
  (`services/multi_format.py:2708`).
* `accounts_import`: an import that is broken off between two users can leave no administrator, and neither
  bootstrap nor the setup page acts on a table that is not empty (`auth_store.py:957`).
* `turns_collections`: deleting a Collection uses whatever token the process has when the session has
  none (`routers/web.py:1356`).

Disagreements between code and documents that have no run of their own. The properties of the passing runs leave them
out, by an exception or by what they claim; TLC finds a counterexample to the stronger claim within a minute:

* A block that repeats the element id of its heading becomes its own parent, and the graph builder's climb
  (`services/bookrag_graph.py:167`) does not return; the validation that `detailed-design/11_BOOKRAG.md:158` promises before a
  load comes later. `BuildSucceeds` says that a document in which ids repeat is rejected or else in this state (`ClimbsForever`),
  and `documents` reaches both.
* When the rows of a question resolve to no node there is no evidence and no last search, and the language model is given the
  rows of the first search (`routers/api.py:482`), against `docs/bookrag_latest_document_governance.md:49` ("Use the same final
  evidence nodes for answer generation, citations, and API evidence") and `README.md:876`. `SelectionIsComplete` claims that
  only for answers with evidence (`final # <<>>`); `EvidenceInScope` says, and `EvidenceScoped` proves, that those rows are of
  governed documents all the same.
* A search row without a document id may be resolved to a node outside of the scope
  (`services/bookrag_retrieval.py:525`, against `README.md:407`: "discards semantic matches outside that scope"). What the
  properties of `questions` say of documents they say of rows that name theirs (`named`, `AllNamed`).
* A file that is registered again between a pass's list and its unlink is deleted and marked, although it is not expired any
  more (`services/artifact_lifecycle.py:84`, against `docs/operations.md:78`: "Only tracked, expired files below `uploads/` are
  eligible"). The properties of `cleaning` say what goes in the end and that a mark is true, not that what goes is expired.

Seen while modelling:

* The operations guide (`docs/operations.md:76`) says that a readiness timeout marks the job failed; the job
  returns `pending` and is stored as succeeded (`services/workflow_jobs.py:636`, `TimeOut`).
* A segment that is over the limit because of what it carries is followed, when white space comes next, by one that
  only repeats its end (`services/bookrag_tree.py:604`); `CoversText` says so.
* Names that differ only by a space may have different normal forms ("1 acme", "1acme"). A relation to the ambiguous one
  makes an entity of the normal form, after which "acme", which was unique, is ambiguous as well, and refers to the new
  entity in later relations (`services/bookrag_graph.py:269`); `NamesKeepTheirEntity` says so.
* A name that is only found without its numbering ("1 acme" as "acme") refers to another entity once a relation has
  made one with the name as it is written; the attempt to prove the property without this exception showed it.
* Two documents that update each other are both obsolete, and neither is searched (`Obsolete`).
* With a limit of two, or a share of 0, one background package is still allowed (`MaximumBackground`).
* An answer is called grounded when packages are cited, also if the last search returned no row to the
  language model (`routers/api.py:851`).
* The threads of a parallel load share one alias directory, which each removes when it is empty
  (`services/bookrag_storage.py:233`): between another's `mkdir` and `link` that makes the other's file fail. And part of
  a copy that failed is taken for the file by the next load. Loads of runs notice by their counts; direct
  uploads need only some row (`FinishUpload`).
* A status text that contains "ready" is ready, whatever else it says (`workflows/create_status.py:36`).

## 5. Proofs

All for every value of the constants, from the assumptions named in the modules: bounds are natural
numbers with the lease longer than the beat; profile ids are numbers; owners are distinct; `None` is no owner,
profile, target or payload; users, CSV files, documents and names are finitely many, as the rows they stand for are;
the bootstrap makes its first account the administrator; rules never derive metadata marked as entered by hand; two
documents do not share a name; taking the spaces out of a name twice is doing it once; the fields of the policy are in the
ranges `_parse_policy` admits; an overlap is smaller than the limit of a segment. TLC evaluates each of
them on its instance, and checked every inductive invariant below on a small instance before it was proved.

`JobQueueProofs`

* `Typing`: `TypeOK`. Records are edited field by field, one lemma per statement of the repository.
  `RowsOfNext` reduces every step to a short list of row changes (`RowChange`), on which most of the
  rest is built.
* `SecretsAreWiped`: by `RowInv`, an invariant of single rows: secrets are there exactly while the job
  can run, and finished rows name the attempt that ended them. `LastAttemptDecides` and
  `FinishedStaysFinished` follow from the same invariant.
* `AttemptsAreExclusive` and `KeptClaimsStand`: by `ClaimInv`, the two properties together with
  `KeptYoung`: a claim whose keep-alive thread works is younger than the lease. Alone none of the three
  is inductive: recovery may take a row only when it is stale, and whether it is stale depends on how
  long the keep-alive thread has been silent.
* `Refinement`: initial states map to initial states, every step to a step of `JobLifecycle` or to a
  stutter.
* `StoppedClaimsNothing`: an action property, from the types alone: of the steps only a claim makes a runner run, and the
  second look at the stop flag is under the lock that the claim needs.

`SessionRuntimeProofs`

* `TypeCorrect`: `TypeOK` with its relations between fields (a connected scope has parameters, a scope
  has a host exactly when it has a profile, a queued job has a profile).
* `OwnContext`: by `TurnInv`, both properties together. Requests that take no lock leave the context,
  the lock and connected scopes alone (`UnlockedSteps`); everybody else activates his own connection before he
  works.
* `ConnectsItself`, `ConnectsFromStore`: by `NewConnection`, which goes through the steps that can
  connect a session. The second needs that a disconnected session takes up the default profile at each
  of its requests (`ActivatedAnew`).
* `OneDefault`: by lemmas on the tables that saving and deleting leave; the promoted profile exists
  because a nonempty set of ids has a least one.

`AuthStoreProofs`

* `TypeCorrect`: `TypeOK`, by one lemma for each way a row or a table is written.
* `PasswordKnown` and `EndedStays`: by `SessionsMatch`: a session that was not revoked, expired or not,
  belongs to an enabled account whose password it began with. Without the enabled account the second
  is not inductive: enabling would revive a session that only its disabled account kept from being live.
* `GuessesBounded`: by `GuessesCounted`: while an account is open its guesses are at most the failures
  counted; while it is locked nobody gets to the password.
* `AdminStays`: by `AdminComes`: what an import has still to write leaves an administrator. The lemma
  `WrittenLeaves` carries it over a write: the last entry about a name decides, in the file or, once
  written, in the table. Disabling and demoting rest on the count of enabled administrators.

`ArtifactLifecycleProofs`

* `TypeCorrect`: by `Typed`, which adds that a pass marks one file at a time and works on files that have rows.
* `NothingLeftBehind`: by `Gone`. Alone `DeletedUploadsAreGone` is not inductive: a pass marks what it has unlinked some
  steps before, so the upload it is about to mark has to be off the disk (`MarkedUploadsAreGone`), and nobody may
  bring it back: the only files written a second time are manifests (`RewritesManifests`).

`DocumentParsingProofs`

* `SubmittedAtMostOnce`: by `Parsing`: a document is accepted at most once and not before its thread submits it
  (`SubmittedOnce`); a thread downloads outputs of completed jobs only and stores them (`OutputsAreStored`); only
  threads that returned are successes; only a missing upload makes the run raise.
* `ManifestIsTrue`: from `Parsing` and `Manifested`: a completed job is not touched again (`CompletedStays`), so what the
  manifest recorded of it stays true while cleaner and operator change the files.
* `RowsComeFromParsing`, `TypeCorrect`: by what a generation has taken from the manifest and from the raw files it
  has checked against it (`RowsTyped`).
* `RowIdsGrow`: an offset is a sum over the documents before. `MapThenSumSet` is defined by a fold over a `CHOOSE`n
  order; that it is a sum follows from a least counterexample, since induction needs an operator as a parameter.

`CsvWorkflowProofs`

* All five rest on one invariant, `IInv`: shapes; what a waiting job and a running one carry; a run whose load has
  begun is complete and bound (`LoadsAreBound`); the stage of a job agrees with the manifest of its run, and its
  connection with the binding (`JobsAgreeWithLoad`, `JobsAgreeWithBinding`); a table being loaded holds rows of its
  run only (`TableIsOwn`); whoever may still write source tables for a store has found none (`NoStoreYet`).
* Steps are sorted by what they write before the parts are proved, so that each part looks at the steps that can disturb it.
* `BindingStays`, `InterruptedStays`, `ReadyIsLoaded`, `SourcesKept` are action properties: each step of a job is
  compared with what `IInv` says of it.

`AdaptiveRetrievalProofs`

* The folds of the code (candidates by node, ranking, diversity, selection, coverage) are unrolled turn by turn: a lemma
  gives the sequence of intermediate results, and `UpTo`, an induction over a set of numbers, carries a loop
  invariant along it. Ranking is a permutation: each candidate has a place in an order that is total because names differ.
* `GovernanceInv`: what is left to be filled was not entered by hand (`FillsAreNotManual`), and when a relation is
  deleted its replacement is stored (`ReplacementStored`). `RelationsStay` follows; so does the part of `EvidenceScoped`
  about administrators.
* `AnswerInv`: what the stages promise each other (`Stages`), tracks share no document and rows that name theirs are in
  it (`TracksApart`), background is older than something current of its series or role (`KeptIsNewer`), and what the selection made of
  the candidates (`SelectionMade`). `EvidenceScoped`, `BackgroundOnlySupplements` and `SelectionComplete` follow. Whatever the language model reads, with or
  without evidence, came from a search within the scope or is evidence, so that rows that name their documents keep it there.
* That the selection is full when it can be is the longest argument: the places kept for current documents, the share
  of background and the caps per document are filled one after the other, and a candidate left out met one of them.

`BookRagTreeProofs`

* `SegmentsHoldText`, for every text, limit and overlap: `CoversText` and `LimitsText`. The open piece is a stretch of
  the text from a to the unit before; its first units, up to b, were taken over from the last segment (`OpenIs`); the
  finished segments hold the text up to b (`Made`). The hard case is white space, which is stripped: a segment
  that ends in it must still end behind the one before, which it does unless that one was over the limit (`Repeated`).
  Sums of tokens are differences of a running sum (`Sums`), which makes them linear.
* `RowsMirror`: by `TreeInv`. Without distinct ids: rows have an earlier parent, no section follows the innermost open
  one, majors are outermost. With them also: a leaf lies under the last section before it, what follows an open section lies in it (`OpenHolds`), subtrees are
  contiguous, pages end within the parent's, and the rows of a leaf are consecutive and hold the pieces of its text
  (`LeavesHeld`). `Grown` states what a heading and a leaf have in common, so that each part is proved once. The plan of a
  heading (`GoodPlan`) is proved rule by rule, in the order of the early returns.
* `GraphInv`: between a walk's place and where it began lies no section, so that climbing parents and looking back
  over the rows find the same one.
* `NamesAreKept`: every end was found among what its name is called, and names are only added. The exceptions in
  `NamesKeepTheirEntity` are the two ways in which that is not enough.
* `NothingRefused` and `ClimbsComeUp`: what `BuildSucceeds` rests on besides fairness, in documents whose ids differ. The
  validator refuses nothing: `RowsAreOwn` says that walks start from rows of their own element, and that relations
  are filed there, even those of an element that was dropped but has the id of another. And each step of a climb goes to
  an earlier row, so that there are finitely many.

Only model-checked: liveness (`EveryJobEnds`, `EveryRunEnds`, `BuildSucceeds`, `ExpiredFilesGo`), which needs fairness and
`ENABLED`. Every invariant and action property that a passing run checks is proved. The runs that expect a violation are
counterexamples and need no proof.

## 6. Plan

1. An abstract answer (any selection within scope, share and caps) that `AdaptiveRetrieval` implements, and an abstract
   load (a table either has the rows of a run or is not said to) that `CsvWorkflow` implements.

No module here declares a RECURSIVE operator: folds and recursive functions instead. `LeafSegments`,
`AdaptiveRetrieval` and `DocumentParsing` take sums and folds from the community modules; what these compute is proved by
unrolling them, or from a least counterexample.

## 7. Not modelled

* Rendering, browser assets, chat, table previews, prompts, request building for the Unstructured service and the
  inspector of its output, DDL and CSV text, settings, logging, redaction: formatting, with nothing for a model checker
  to find.
* Text analysis: names, dates and series found in texts, facets of a question, which family a heading has. Inputs,
  over the values it may find.
* `workflows/create_flow.py` after the queueing of a request: a second way to create, inside the request, which no
  caller takes. `services/bookrag_reconcile.py`, which merges fragments, is not called by the pipelines either.
* The resolution of file names in an import of relations; the migration of old
  relation tables; the temporary name under which an upload is written; the rows a POST answer adds to a history.
* Migration scripts, backups, the creation of the key file, development scripts: plain I/O. `PROJECT.json` gives the
  reason for each component.
