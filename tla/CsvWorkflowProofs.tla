-------------------------- MODULE CsvWorkflowProofs --------------------------
(***************************************************************************)
(* Proofs about CsvWorkflow, for every number of runs, profiles, servers and  *)
(* CSV files: the types, that a run stays with the connection of its first    *)
(* load, that an interrupted load is left alone, what a load that is ready    *)
(* has put into the tables, and that creation keeps off the tables of a store *)
(* that exists.                                                              *)
(***************************************************************************)
EXTENDS CsvWorkflow, FiniteSetTheorems, TLAPS

-----------------------------------------------------------------------------
(* The invariant, part by part.                                              *)

Shapes ==
  /\ manifest \in [Runs -> ManifestType]
  /\ tables \in [Targets -> [Kinds -> SUBSET Row]]
  /\ stores \in [Targets -> StoreType]
  /\ points \in [Profiles -> Targets]
  /\ queue \in TaskType
  /\ job \in JobType
  /\ outcome \in Outcomes

LoadStages == {"clean", "claim", "prepare", "insert"}
EarlyStages == {"preprocess", "extract", "upload"}
CreateStages == EarlyStages \cup {"announce", "create", "wait", "verify"}

\* A job that loads or creates has a connection; one that works on a run knows its kind.
JobsAreComplete ==
  /\ job.stage \in LoadStages \cup CreateStages => job.profile \in Profiles /\ job.target \in Targets
  /\ job.stage \in LoadStages \cup {"generate", "verify"} => job.source \in Runs
  /\ job.stage = "idle" => job.source = Upload
  /\ job.source \in Runs => job.kind = KindOf[job.source]

\* So does a job that waits.
TasksAreComplete ==
  queue.task \in {"load", "create"} /\ queue.source \in Runs => queue.kind = KindOf[queue.source]

\* Only a run that was made is loaded, and from then on it has a connection.
LoadsAreBound ==
  \A r \in Runs : manifest[r].load # "not_started" =>
    /\ manifest[r].status = "ready"
    /\ manifest[r].profile # None /\ manifest[r].target # None

\* Where a job is with its run agrees with what the manifest says of the load.
JobsAgreeWithLoad ==
  /\ job.stage = "generate" => manifest[job.source].load = "not_started"
  /\ job.stage \in {"clean", "claim"} =>
       manifest[job.source].status = "ready" /\ LoadAllowed(manifest[job.source])
  /\ job.stage \in {"prepare", "insert"} => manifest[job.source].load = "loading"

\* A job works with the connection its run is bound to.
JobsAgreeWithBinding ==
  \A r \in Runs : job.source = r /\ manifest[r].load # "not_started" =>
    job.profile = manifest[r].profile /\ job.target = manifest[r].target

\* A table that is being loaded holds nothing else.
TableIsOwn == job.stage = "insert" => SourceTable \subseteq RowsOf(job.source)

\* Whoever may still write source tables for a store has found none.
NoStoreYet == job.stage \in EarlyStages => stores[job.target].state = "absent"

Bound == LoadsAreBound /\ JobsAgreeWithLoad /\ JobsAgreeWithBinding
IInv == Shapes /\ JobsAreComplete /\ TasksAreComplete /\ Bound /\ TableIsOwn /\ NoStoreYet

-----------------------------------------------------------------------------
(* Steps, sorted by what they write.                                         *)

\* The handler of a create job.
CreateStep ==
  \/ Preprocess \/ FinishUpload \/ SkipCreate
  \/ \E x \in Parts : Extract(x)
  \/ \E x \in Parts, arrives \in BOOLEAN : Arrive(x, arrives)
  \/ Announce \/ CallCreate \/ SeesReady \/ TimeOut \/ FinishCreate
  \/ \E began \in BOOLEAN : CreateFails(began)

\* Requests, and what an administrator does, which no handler notices.
Aside ==
  \/ \E k \in Kinds : RequestGenerate(k)
  \/ \E r \in Runs, p \in Profiles : RequestLoad(r, p)
  \/ \E s \in Sources, k \in Kinds, p \in Profiles : RequestCreate(s, k, p)
  \/ Refuse
  \/ \E p \in Profiles, t \in Targets : Repoint(p, t) /\ UNCHANGED queue
  \/ UNCHANGED vars

LoadStep ==
  \/ \E s \in {"ready", "failed"} : EndGenerate(s)
  \/ CleanTables \/ MarkLoading \/ Prepare
  \/ \E x \in Parts, o \in FileOutcomes : InsertPart(x, o.arrives, o.fails)
  \/ FinishLoad \/ FailLoad

StartStep ==
  \/ \E r \in Runs : StartGenerate(r)
  \/ \E r \in Runs, p \in Profiles : StartLoad(r, p)
  \/ \E s \in Sources, k \in Kinds, p \in Profiles : StartCreate(s, k, p)

ServerStep ==
  \/ \E t \in Targets : ServerBuilds(t)
  \/ \E t \in Targets : \E dropped \in {{}} \cup {{k} : k \in Kinds} : Destroy(t, dropped)

LEMMA Steps ==
  ASSUME [Next]_vars
  PROVE  \/ Aside \/ StartStep \/ \E again \in BOOLEAN : Interrupt(again)
         \/ UNCHANGED queue /\ (CreateStep \/ LoadStep \/ ServerStep)
<1>1. CASE Step /\ UNCHANGED queue
  BY <1>1, Zenon DEF Step, Aside, CreateStep, LoadStep, ServerStep, UploadPart, UploadFile
<1>2. CASE GenerateCsv \/ GenerateMultiFormatCsv
  BY <1>2 DEF GenerateCsv, GenerateMultiFormatCsv, Aside, Kinds
<1>3. CASE \E r \in Runs, p \in Profiles : LoadCsvTables(r, p) \/ LoadMultiFormatCsvTable(r, p)
  BY <1>3 DEF LoadCsvTables, LoadMultiFormatCsvTable, Aside
<1>4. QED
  BY <1>1, <1>2, <1>3, Zenon DEF Next, Aside, StartStep

\* What is written of a run besides the mark of its Vector Store.
SameLoad(r) ==
  /\ manifest'[r].load = manifest[r].load /\ manifest'[r].status = manifest[r].status
  /\ manifest'[r].profile = manifest[r].profile /\ manifest'[r].target = manifest[r].target

SameJob ==
  /\ job'.source = job.source /\ job'.kind = job.kind
  /\ job'.profile = job.profile /\ job'.target = job.target

LEMMA MarkWrites ==
  ASSUME manifest \in [Runs -> ManifestType], NEW m \in StoreMarks, Mark(m)
  PROVE  manifest' \in [Runs -> ManifestType] /\ \A r \in Runs : SameLoad(r)
<1> DEFINE with(r) == [manifest[r] EXCEPT !.mark = m]
<1>1. \A r \in Runs : /\ with(r) \in ManifestType
                      /\ with(r).load = manifest[r].load /\ with(r).status = manifest[r].status
                      /\ with(r).profile = manifest[r].profile
                      /\ with(r).target = manifest[r].target
  BY DEF ManifestType
<1>2. manifest' = [manifest EXCEPT ![job.source] = with(job.source)]
  BY DEF Mark
<1> HIDE DEF with
<1>3. QED
  BY <1>1, <1>2 DEF SameLoad

LEMMA ProceedWrites ==
  ASSUME job \in JobType, NEW stage \in Stages, Proceed(stage)
  PROVE  job' \in JobType /\ SameJob /\ job'.stage = stage
BY DEF Proceed, JobType, SameJob

LEMMA IdleTyped == Idle \in JobType /\ Idle.stage = "idle" /\ Idle.source = Upload
BY DEF Idle, JobType, Stages, Sources, Kinds

LEMMA TableWrites ==
  ASSUME tables \in [Targets -> [Kinds -> SUBSET Row]], job \in JobType, job.target \in Targets,
         NEW rows \in SUBSET Row, SetSourceTable(rows)
  PROVE  /\ tables' \in [Targets -> [Kinds -> SUBSET Row]]
         /\ tables'[job.target][job.kind] = rows
         /\ \A t \in Targets : t # job.target => tables'[t] = tables[t]
<1>1. job.kind \in Kinds
  BY DEF JobType
<1>2. QED
  BY <1>1 DEF SetSourceTable

-----------------------------------------------------------------------------
(* What a create job writes.                                                 *)

\* The handler ends, or goes on; it writes source tables only early, of its own server.
CreateWrites ==
  /\ manifest' \in [Runs -> ManifestType] /\ \A r \in Runs : SameLoad(r)
  /\ \/ job' = Idle
     \/ /\ job' \in JobType /\ SameJob
        /\ job'.stage \in CreateStages
        /\ job'.stage \in EarlyStages => job.stage \in EarlyStages /\ stores' = stores
        /\ job'.stage = "verify" => job.source \in Runs
  /\ tables' \in [Targets -> [Kinds -> SUBSET Row]]
  /\ \A t \in Targets : tables'[t] # tables[t] => job.stage \in EarlyStages /\ t = job.target
  /\ stores' \in [Targets -> StoreType]
  /\ outcome' \in Outcomes

\* A create job writes the store of its server and no other.
LEMMA StoreWrites ==
  ASSUME stores \in [Targets -> StoreType], job \in JobType,
         stores' = [stores EXCEPT ![job.target] =
                      [state |-> "building", kind |-> job.kind, rows |-> {}]]
  PROVE  stores' \in [Targets -> StoreType]
<1>1. [state |-> "building", kind |-> job.kind, rows |-> {}] \in StoreType
  BY DEF JobType, StoreType
<1>2. QED
  BY <1>1

LEMMA CreateEffects ==
  ASSUME Shapes, JobsAreComplete, CreateStep
  PROVE  CreateWrites /\ job.stage \in CreateStages /\ UNCHANGED points
<1> USE DEF EarlyStages, CreateStages
<1>0. /\ manifest \in [Runs -> ManifestType] /\ job \in JobType
      /\ tables \in [Targets -> [Kinds -> SUBSET Row]] /\ stores \in [Targets -> StoreType]
      /\ outcome \in Outcomes /\ job.source \in Sources /\ job.kind \in Kinds
  BY DEF Shapes, JobType
<1>1. CreateStages \subseteq Stages
  BY DEF Stages
<1>2. \A r \in Runs : manifest' = manifest => SameLoad(r)
  BY DEF SameLoad
<1>3. \A o \in {"returned", "raised", "pending"} : End(o) => job' = Idle /\ outcome' \in Outcomes
  BY DEF End, Outcomes
<1>4. \A stage \in CreateStages : Proceed(stage) =>
        job' \in JobType /\ SameJob /\ job'.stage = stage /\ outcome' = outcome
  BY <1>0, <1>1, ProceedWrites DEF Proceed
<1>5. CASE Preprocess
  <2>1. job.stage = "preprocess" /\ UNCHANGED <<manifest, stores, points>> /\ job.target \in Targets
    BY <1>5 DEF Preprocess, JobsAreComplete
  <2>2. CASE job.source \in Runs
    <3>1. Proceed("announce") /\ tables' = tables
      BY <1>5, <2>2 DEF Preprocess
    <3>2. QED
      BY <1>0, <1>2, <1>4, <2>1, <3>1 DEF CreateWrites
  <2>3. CASE job.source \notin Runs
    <3>1. /\ SetSourceTable({}) /\ outcome' = outcome
          /\ \E stage \in {"extract", "upload"} : job' = [job EXCEPT !.stage = stage, !.todo = Parts]
      BY <1>5, <2>3 DEF Preprocess, PrepareUpload, EmptyTable
    <3>2. /\ tables' \in [Targets -> [Kinds -> SUBSET Row]]
          /\ \A t \in Targets : t # job.target => tables'[t] = tables[t]
      BY <1>0, <2>1, <3>1, TableWrites
    <3>3. job' \in JobType /\ SameJob /\ job'.stage \in {"extract", "upload"}
      BY <1>0, <3>1 DEF JobType, SameJob, Stages
    <3>4. QED
      BY <1>0, <1>2, <2>1, <3>1, <3>2, <3>3 DEF CreateWrites
  <2>4. QED
    BY <2>2, <2>3
<1>6. ASSUME NEW x \in Parts, Extract(x)
      PROVE  CreateWrites /\ job.stage \in CreateStages /\ UNCHANGED points
  <2>1. /\ job.stage = "extract" /\ UNCHANGED <<manifest, tables, stores, points, outcome>>
        /\ \/ job' = [job EXCEPT !.stage = "upload", !.todo = Parts]
           \/ job' = [job EXCEPT !.todo = @ \ {x}]
    BY <1>6 DEF Extract
  <2>2. job' \in JobType /\ SameJob /\ job'.stage \in {"extract", "upload"}
    BY <1>0, <2>1 DEF JobType, SameJob, Stages
  <2>3. QED
    BY <1>0, <1>2, <2>1, <2>2 DEF CreateWrites
<1>7. ASSUME NEW x \in Parts, NEW arrives \in BOOLEAN, Arrive(x, arrives)
      PROVE  CreateWrites /\ job.stage \in CreateStages /\ UNCHANGED points
  <2>1. /\ job.stage = "upload" /\ UNCHANGED <<manifest, stores, points, outcome>>
        /\ job' = [job EXCEPT !.todo = @ \ {x}]
    BY <1>7 DEF Arrive
  <2>2. job' \in JobType /\ SameJob /\ job'.stage = "upload"
    BY <1>0, <2>1 DEF JobType, SameJob
  <2>3. PICK rows \in SUBSET Row : SetSourceTable(rows)
    <3>1. job.target \in Targets
      BY <2>1 DEF JobsAreComplete
    <3>2. SourceTable \in SUBSET Row /\ <<job.source, x>> \in Row
      BY <1>0, <3>1 DEF SourceTable, Row
    <3>3. QED
      BY <1>7, <3>2 DEF Arrive
  <2>4. /\ tables' \in [Targets -> [Kinds -> SUBSET Row]]
        /\ \A t \in Targets : t # job.target => tables'[t] = tables[t]
    BY <1>0, <2>1, <2>3, TableWrites DEF JobsAreComplete
  <2>5. QED
    BY <1>0, <1>2, <2>1, <2>2, <2>4 DEF CreateWrites
<1>8. CASE FinishUpload \/ SkipCreate
  <2>1. /\ job.stage \in {"upload", "announce"}
        /\ UNCHANGED <<manifest, tables, stores, points>>
        /\ Proceed("announce") \/ End("returned")
    BY <1>8 DEF FinishUpload, SkipCreate
  <2>2. QED
    BY <1>0, <1>2, <1>3, <1>4, <2>1 DEF CreateWrites
<1>9. CASE SeesReady
  <2>1. /\ job.stage = "wait" /\ UNCHANGED <<manifest, tables, stores, points>>
        /\ (job.source \in Runs /\ Proceed("verify")) \/ End("returned")
    BY <1>9 DEF SeesReady
  <2>2. QED
    BY <1>0, <1>2, <1>3, <1>4, <2>1 DEF CreateWrites
<1>10. CASE CallCreate
  <2>1. /\ job.stage = "create" /\ UNCHANGED <<manifest, tables, points>> /\ Proceed("wait")
    BY <1>10 DEF CallCreate
  <2>2. stores' \in [Targets -> StoreType]
    BY <1>0, <1>10, StoreWrites DEF CallCreate
  <2>3. QED
    BY <1>0, <1>2, <1>4, <2>1, <2>2 DEF CreateWrites
<1>11. ASSUME NEW m \in {"creating", "failed", "ready"},
              IF job.source \in Runs THEN Mark(m) ELSE UNCHANGED manifest
       PROVE  manifest' \in [Runs -> ManifestType] /\ \A r \in Runs : SameLoad(r)
  BY <1>0, <1>2, <1>11, MarkWrites DEF StoreMarks
<1>12. CASE Announce
  <2>1. /\ job.stage = "announce" /\ UNCHANGED <<tables, stores, points>>
        /\ Proceed("wait") \/ Proceed("create")
        /\ IF job.source \in Runs THEN Mark("creating") ELSE UNCHANGED manifest
    BY <1>12 DEF Announce
  <2>2. QED
    BY <1>0, <1>4, <1>11, <2>1 DEF CreateWrites
<1>13. CASE TimeOut
  <2>1. /\ job.stage = "wait" /\ UNCHANGED <<tables, stores, points>> /\ End("pending")
        /\ IF job.source \in Runs THEN Mark("creating") ELSE UNCHANGED manifest
    BY <1>13 DEF TimeOut
  <2>2. QED
    BY <1>0, <1>3, <1>11, <2>1 DEF CreateWrites
<1>14. CASE FinishCreate
  <2>1. /\ job.stage = "verify" /\ UNCHANGED <<tables, stores, points>> /\ End("returned")
        /\ Mark("ready")
    BY <1>14 DEF FinishCreate
  <2>2. QED
    BY <1>0, <1>3, <2>1, MarkWrites DEF CreateWrites, StoreMarks
<1>15. ASSUME NEW began \in BOOLEAN, CreateFails(began)
       PROVE  CreateWrites /\ job.stage \in CreateStages /\ UNCHANGED points
  <2>1. /\ job.stage \in {"create", "wait", "verify"} /\ UNCHANGED <<tables, points>>
        /\ End("raised")
        /\ IF job.source \in Runs THEN Mark("failed") ELSE UNCHANGED manifest
    BY <1>15 DEF CreateFails
  <2>2. stores' \in [Targets -> StoreType]
    BY <1>0, <1>15, StoreWrites DEF CreateFails
  <2>3. QED
    BY <1>0, <1>3, <1>11, <2>1, <2>2 DEF CreateWrites
<1>16. QED
  BY <1>5, <1>6, <1>7, <1>8, <1>9, <1>10, <1>12, <1>13, <1>14, <1>15 DEF CreateStep

-----------------------------------------------------------------------------
(* Every kind of step keeps the invariant.                                   *)

\* Requests and administrators change the queue, the profiles and the last outcome.
LEMMA AsideKeeps ==
  ASSUME IInv, Aside
  PROVE  IInv'
<1>1. UNCHANGED <<manifest, tables, stores, job>>
  BY DEF Aside, RequestGenerate, RequestLoad, RequestCreate, Ask, Refuse, Repoint, vars
<1>2. queue' \in TaskType /\ TasksAreComplete'
  <2>0. \A task \in {None, "generate", "load", "create"}, s \in Sources, k \in Kinds,
           p \in Profiles \cup {None} : Task(task, s, k, p) \in TaskType
    BY DEF Task, TaskType
  <2>1. CASE queue' = queue
    BY <1>1, <2>1 DEF IInv, Shapes, TasksAreComplete
  <2>2. CASE queue' = NoTask
    BY <2>0, <2>2 DEF NoTask, Task, None, Sources, Kinds, TasksAreComplete
  <2>3. ASSUME NEW k \in Kinds, RequestGenerate(k)
        PROVE  queue' \in TaskType /\ TasksAreComplete'
    <3>1. queue' = Task("generate", Upload, k, None)
      BY <2>3 DEF RequestGenerate, Ask
    <3>2. QED
      BY <2>0, <3>1 DEF Task, Sources, TasksAreComplete
  <2>4. ASSUME NEW r \in Runs, NEW p \in Profiles, RequestLoad(r, p)
        PROVE  queue' \in TaskType /\ TasksAreComplete'
    <3>1. queue' = Task("load", r, KindOf[r], p)
      BY <2>4 DEF RequestLoad, Ask
    <3>2. QED
      BY <2>0, <3>1, KindAssumption DEF Task, Sources, TasksAreComplete
  <2>5. ASSUME NEW s \in Sources, NEW k \in Kinds, NEW p \in Profiles, RequestCreate(s, k, p)
        PROVE  queue' \in TaskType /\ TasksAreComplete'
    <3>1. queue' = Task("create", s, k, p) /\ (s \in Runs => k = KindOf[s])
      BY <2>5 DEF RequestCreate, Ask
    <3>2. QED
      BY <2>0, <3>1 DEF Task, TasksAreComplete
  <2>6. QED
    BY <2>1, <2>2, <2>3, <2>4, <2>5 DEF Aside, Refuse, vars
<1>3. points' \in [Profiles -> Targets] /\ outcome' \in Outcomes
  BY DEF IInv, Shapes, Outcomes, Aside, RequestGenerate, RequestLoad, RequestCreate, Ask, Refuse,
         Repoint, vars
<1>4. Shapes' /\ JobsAreComplete' /\ TableIsOwn' /\ NoStoreYet'
  BY <1>1, <1>2, <1>3 DEF IInv, Shapes, JobsAreComplete, TableIsOwn, SourceTable, NoStoreYet
<1>5. Bound'
  BY <1>1 DEF IInv, Bound, LoadsAreBound, JobsAgreeWithLoad, LoadAllowed, JobsAgreeWithBinding
<1>6. QED
  BY <1>2, <1>4, <1>5 DEF IInv

\* What a job that is not there leaves of the invariant.
LEMMA IdleKeeps ==
  ASSUME job' = Idle
  PROVE  /\ JobsAreComplete' /\ JobsAgreeWithLoad' /\ JobsAgreeWithBinding'
         /\ TableIsOwn' /\ NoStoreYet'
<1>1. job'.stage = "idle" /\ job'.source = Upload /\ Upload \notin Runs
  BY IdleTyped, SourceAssumption
<1>2. QED
  BY <1>1 DEF JobsAreComplete, JobsAgreeWithLoad, JobsAgreeWithBinding, TableIsOwn, NoStoreYet,
              LoadStages, CreateStages, EarlyStages

\* An interrupted handler leaves everything as it is, but it may be asked for again.
LEMMA InterruptKeeps ==
  ASSUME IInv, NEW again \in BOOLEAN, Interrupt(again)
  PROVE  IInv'
<1>1. /\ job' = Idle /\ outcome' = "raised"
      /\ UNCHANGED <<manifest, tables, stores, points>>
      /\ job.stage # "idle"
  BY DEF Interrupt, End, Free
<1>2. job \in JobType
  BY DEF IInv, Shapes
<1>3. Running \in TaskType
      /\ (Running.task \in {"load", "create"} /\ Running.source \in Runs =>
            Running.kind = KindOf[Running.source])
  <2>1. CASE job.stage = "generate"
    BY <1>2, <2>1 DEF Running, Task, TaskType, JobType, Sources
  <2>2. CASE job.stage \in {"clean", "claim", "prepare", "insert"}
    <3>1. Running = Task("load", job.source, job.kind, job.profile)
      BY <2>2 DEF Running
    <3>2. QED
      BY <1>2, <3>1 DEF Task, TaskType, JobType, IInv, JobsAreComplete
  <2>3. CASE job.stage \notin {"generate", "clean", "claim", "prepare", "insert"}
    <3>1. Running = Task("create", job.source, job.kind, job.profile)
      BY <2>3 DEF Running
    <3>2. QED
      BY <1>2, <3>1 DEF Task, TaskType, JobType, IInv, JobsAreComplete
  <2>4. QED
    BY <2>1, <2>2, <2>3
<1>4. queue' \in TaskType /\ TasksAreComplete'
  <2>1. queue' = Running \/ queue' = queue
    BY DEF Interrupt
  <2>2. CASE queue' = queue
    BY <2>2 DEF IInv, Shapes, TasksAreComplete
  <2>3. CASE queue' = Running
    BY <1>3, <2>3 DEF TasksAreComplete
  <2>4. QED
    BY <2>1, <2>2, <2>3
<1>5. Shapes'
  BY <1>1, <1>4, IdleTyped DEF IInv, Shapes, Outcomes
<1>6. LoadsAreBound'
  BY <1>1 DEF IInv, Bound, LoadsAreBound
<1>7. QED
  BY <1>1, <1>4, <1>5, <1>6, IdleKeeps DEF IInv, Bound

\* A create job changes no load and no connection of a run.
LEMMA CreateKeeps ==
  ASSUME IInv, CreateStep, UNCHANGED queue
  PROVE  IInv'
<1>1. CreateWrites /\ job.stage \in CreateStages /\ UNCHANGED points
  BY CreateEffects DEF IInv
<1>2. Shapes' /\ TasksAreComplete'
  BY <1>1, IdleTyped DEF IInv, Shapes, CreateWrites, TasksAreComplete
<1>3. LoadsAreBound'
  BY <1>1 DEF IInv, Bound, LoadsAreBound, CreateWrites, SameLoad
<1>4. CASE job' = Idle
  BY <1>2, <1>3, <1>4, IdleKeeps DEF IInv, Bound
<1>5. CASE job' # Idle
  <2>1. /\ SameJob /\ job'.stage \in CreateStages
        /\ job'.stage \in EarlyStages => job.stage \in EarlyStages /\ stores' = stores
        /\ job'.stage = "verify" => job.source \in Runs
    BY <1>1, <1>5 DEF CreateWrites
  <2>2. JobsAreComplete'
    BY <1>1, <2>1 DEF IInv, JobsAreComplete, SameJob, CreateStages, EarlyStages, LoadStages
  <2>3. JobsAgreeWithLoad' /\ TableIsOwn'
    BY <2>1 DEF JobsAgreeWithLoad, TableIsOwn, CreateStages, EarlyStages
  <2>4. JobsAgreeWithBinding'
    BY <1>1, <2>1 DEF IInv, Bound, JobsAgreeWithBinding, SameJob, CreateWrites, SameLoad
  <2>5. NoStoreYet'
    BY <2>1 DEF IInv, NoStoreYet, SameJob
  <2>6. QED
    BY <1>2, <1>3, <2>2, <2>3, <2>4, <2>5 DEF IInv, Bound
<1>6. QED
  BY <1>4, <1>5

\* The server builds, and stores are destroyed, while nobody waits to write their tables.
LEMMA ServerKeeps ==
  ASSUME IInv, ServerStep, UNCHANGED queue
  PROVE  IInv'
<1>0. /\ tables \in [Targets -> [Kinds -> SUBSET Row]] /\ stores \in [Targets -> StoreType]
      /\ job \in JobType
  BY DEF IInv, Shapes
<1>1. UNCHANGED <<manifest, points, job, outcome, queue>>
  BY DEF ServerStep, ServerBuilds, Destroy
<1>2. /\ stores' \in [Targets -> StoreType]
      /\ job.stage \in EarlyStages => stores'[job.target].state = "absent"
      /\ tables' \in [Targets -> [Kinds -> SUBSET Row]]
      /\ job.stage # "idle" => tables' = tables
  <2>1. ASSUME NEW t \in Targets, ServerBuilds(t)
        PROVE  /\ stores' \in [Targets -> StoreType] /\ tables' = tables
               /\ job.stage \in EarlyStages => stores'[job.target].state = "absent"
    <3> DEFINE rows == tables[t][stores[t].kind]
               state == IF rows = {} THEN "failed" ELSE "ready"
               built == [stores[t] EXCEPT !.state = state, !.rows = rows]
    <3>1. stores[t] \in StoreType /\ rows \in SUBSET Row /\ state \in {"failed", "ready"}
      BY <1>0 DEF StoreType
    <3>2. stores[t].state = "building" /\ tables' = tables
          /\ stores' = [stores EXCEPT ![t].state = state, ![t].rows = rows]
      BY <2>1 DEF ServerBuilds
    <3> HIDE DEF rows, state
    <3>3. built \in StoreType
      BY <3>1 DEF StoreType
    <3>4. stores' = [stores EXCEPT ![t] = built]
      BY <1>0, <3>2
    <3>5. job.stage \in EarlyStages => job.target # t /\ job.target \in Targets
      BY <3>2 DEF IInv, NoStoreYet, JobsAreComplete, CreateStages
    <3> HIDE DEF built
    <3>6. QED
      BY <1>0, <3>2, <3>3, <3>4, <3>5 DEF IInv, NoStoreYet
  <2>2. ASSUME NEW t \in Targets, NEW dropped, Destroy(t, dropped)
        PROVE  /\ stores' \in [Targets -> StoreType] /\ job.stage = "idle"
               /\ tables' \in [Targets -> [Kinds -> SUBSET Row]]
    <3>1. NoStore \in StoreType
      BY DEF NoStore, StoreType, Kinds
    <3>2. [k \in Kinds |-> IF k \in dropped THEN {} ELSE tables[t][k]] \in [Kinds -> SUBSET Row]
      BY <1>0
    <3>3. QED
      BY <1>0, <2>2, <3>1, <3>2 DEF Destroy, Free
  <2>3. QED
    BY <1>0, <2>1, <2>2 DEF ServerStep, EarlyStages
<1>3. Shapes' /\ TasksAreComplete' /\ JobsAreComplete' /\ NoStoreYet'
  BY <1>1, <1>2 DEF IInv, Shapes, TasksAreComplete, JobsAreComplete, NoStoreYet
<1>4. TableIsOwn'
  BY <1>1, <1>2 DEF IInv, TableIsOwn, SourceTable
<1>5. Bound'
  BY <1>1 DEF IInv, Bound, LoadsAreBound, JobsAgreeWithLoad, LoadAllowed, JobsAgreeWithBinding
<1>6. QED
  BY <1>3, <1>4, <1>5 DEF IInv

\* A job changes the manifest of one run; the others stay bound.
LEMMA OneRunChanges ==
  ASSUME IInv, NEW r \in Runs, NEW m \in ManifestType, manifest' = [manifest EXCEPT ![r] = m],
         m.load # "not_started" => m.status = "ready" /\ m.profile # None /\ m.target # None
  PROVE  /\ manifest' \in [Runs -> ManifestType] /\ manifest'[r] = m
         /\ \A q \in Runs : q # r => manifest'[q] = manifest[q]
         /\ LoadsAreBound'
<1>1. /\ manifest' \in [Runs -> ManifestType] /\ manifest'[r] = m
      /\ \A q \in Runs : q # r => manifest'[q] = manifest[q]
  BY DEF IInv, Shapes
<1>2. LoadsAreBound'
  BY <1>1 DEF IInv, Bound, LoadsAreBound
<1>3. QED
  BY <1>1, <1>2

\* A run is generated before it is loaded.
LEMMA EndGenerateKeeps ==
  ASSUME IInv, NEW s \in {"ready", "failed"}, EndGenerate(s), UNCHANGED queue
  PROVE  IInv'
<1> DEFINE r == job.source
           m == [manifest[r] EXCEPT !.status = s]
<1>1. /\ r \in Runs /\ manifest[r] \in ManifestType /\ manifest[r].load = "not_started"
      /\ manifest' = [manifest EXCEPT ![r].status = s]
      /\ job' = Idle /\ outcome' \in Outcomes /\ UNCHANGED <<tables, stores, points>>
  BY DEF IInv, Shapes, JobsAreComplete, Bound, JobsAgreeWithLoad, EndGenerate, End, Outcomes
<1>2. m \in ManifestType /\ m.load = "not_started" /\ manifest' = [manifest EXCEPT ![r] = m]
  BY <1>1 DEF ManifestType, IInv, Shapes
<1> HIDE DEF m
<1>3. manifest' \in [Runs -> ManifestType] /\ LoadsAreBound'
  BY <1>1, <1>2, OneRunChanges
<1>4. Shapes' /\ TasksAreComplete'
  BY <1>1, <1>3, IdleTyped DEF IInv, Shapes, TasksAreComplete
<1>5. QED
  BY <1>1, <1>3, <1>4, IdleKeeps DEF IInv, Bound

\* The load ends, one way or the other, and the run stays bound.
LEMMA EndLoadKeeps ==
  ASSUME IInv, FinishLoad \/ FailLoad, UNCHANGED queue
  PROVE  IInv'
<1> DEFINE r == job.source
<1>1. PICK load \in {"ready", "failed"} : manifest' = [manifest EXCEPT ![r].load = load]
  BY DEF FinishLoad, FailLoad
<1> DEFINE m == [manifest[r] EXCEPT !.load = load]
<1>2. /\ r \in Runs /\ manifest[r] \in ManifestType /\ manifest[r].load = "loading"
      /\ job' = Idle /\ outcome' \in Outcomes /\ UNCHANGED <<tables, stores, points>>
  BY DEF IInv, Shapes, JobsAreComplete, LoadStages, Bound, JobsAgreeWithLoad, FinishLoad, FailLoad,
         End, Outcomes
<1>3. manifest[r].status = "ready" /\ manifest[r].profile # None /\ manifest[r].target # None
  BY <1>2 DEF IInv, Bound, LoadsAreBound
<1>4. /\ m \in ManifestType /\ manifest' = [manifest EXCEPT ![r] = m]
      /\ m.status = "ready" /\ m.profile # None /\ m.target # None
  <2>1. load \in LoadStatuses
    BY DEF LoadStatuses
  <2>2. QED
    BY <1>1, <1>2, <1>3, <2>1 DEF ManifestType, IInv, Shapes
<1> HIDE DEF m
<1>5. manifest' \in [Runs -> ManifestType] /\ LoadsAreBound'
  BY <1>2, <1>4, OneRunChanges
<1>6. Shapes' /\ TasksAreComplete'
  BY <1>2, <1>5, IdleTyped DEF IInv, Shapes, TasksAreComplete
<1>7. QED
  BY <1>2, <1>5, <1>6, IdleKeeps DEF IInv, Bound

\* Before the manifest is written, tables of the connection may be emptied.
LEMMA CleanKeeps ==
  ASSUME IInv, CleanTables, UNCHANGED queue
  PROVE  IInv'
<1>1. /\ job.stage = "clean" /\ job \in JobType /\ job.target \in Targets
      /\ SetSourceTable({}) /\ Proceed("claim") /\ UNCHANGED <<manifest, stores, points>>
  BY DEF CleanTables, IInv, Shapes, JobsAreComplete, LoadStages
<1>2. job' \in JobType /\ SameJob /\ job'.stage = "claim" /\ outcome' = outcome
  BY <1>1, ProceedWrites DEF Proceed, Stages
<1>3. tables' \in [Targets -> [Kinds -> SUBSET Row]]
  BY <1>1, TableWrites DEF IInv, Shapes
<1>4. Shapes' /\ TasksAreComplete'
  BY <1>1, <1>2, <1>3 DEF IInv, Shapes, TasksAreComplete
<1>5. JobsAreComplete' /\ TableIsOwn' /\ NoStoreYet'
  BY <1>1, <1>2 DEF IInv, JobsAreComplete, SameJob, LoadStages, CreateStages, EarlyStages,
                    TableIsOwn, NoStoreYet
<1>6. Bound'
  BY <1>1, <1>2 DEF IInv, Bound, LoadsAreBound, JobsAgreeWithLoad, LoadAllowed,
                    JobsAgreeWithBinding, SameJob
<1>7. QED
  BY <1>4, <1>5, <1>6 DEF IInv

\* The load is marked with its connection.
LEMMA MarkLoadingKeeps ==
  ASSUME IInv, MarkLoading, UNCHANGED queue
  PROVE  IInv'
<1> DEFINE r == job.source
           later == IF manifest[r].load = "failed" THEN manifest[r].supersedes ELSE {}
           m == [manifest[r] EXCEPT !.load = "loading", !.profile = job.profile,
                                    !.target = job.target, !.supersedes = later]
<1>1. /\ job.stage = "claim" /\ job \in JobType /\ r \in Runs
      /\ job.profile \in Profiles /\ job.target \in Targets
      /\ manifest[r] \in ManifestType /\ manifest[r].status = "ready"
      /\ Proceed("prepare") /\ UNCHANGED <<tables, stores, points>>
  BY DEF MarkLoading, IInv, Shapes, JobsAreComplete, LoadStages, Bound, JobsAgreeWithLoad
<1>2. job' \in JobType /\ SameJob /\ job'.stage = "prepare" /\ outcome' = outcome
  BY <1>1, ProceedWrites DEF Proceed, Stages
<1>3. job.profile # None /\ job.target # None
  BY <1>1, NoneAssumption
<1>4. /\ m \in ManifestType /\ m.load = "loading" /\ m.status = "ready"
      /\ m.profile = job.profile /\ m.target = job.target
  <2>1. later \in SUBSET Runs /\ "loading" \in LoadStatuses
    BY <1>1 DEF ManifestType, LoadStatuses
  <2> HIDE DEF later
  <2>2. QED
    BY <1>1, <2>1 DEF ManifestType
<1>5. manifest' = [manifest EXCEPT ![r] = m]
  BY Zenon DEF MarkLoading
<1> HIDE DEF m
<1>6. /\ manifest' \in [Runs -> ManifestType] /\ manifest'[r] = m
      /\ \A q \in Runs : q # r => manifest'[q] = manifest[q]
      /\ LoadsAreBound'
  BY <1>1, <1>3, <1>4, <1>5, OneRunChanges
<1>7. Shapes' /\ TasksAreComplete'
  BY <1>1, <1>2, <1>6 DEF IInv, Shapes, TasksAreComplete
<1>8. JobsAreComplete' /\ TableIsOwn' /\ NoStoreYet'
  BY <1>1, <1>2 DEF IInv, JobsAreComplete, SameJob, LoadStages, CreateStages, EarlyStages,
                    TableIsOwn, NoStoreYet
<1>9. JobsAgreeWithLoad' /\ JobsAgreeWithBinding'
  BY <1>1, <1>2, <1>4, <1>6 DEF JobsAgreeWithLoad, JobsAgreeWithBinding, SameJob
<1>10. QED
  BY <1>6, <1>7, <1>8, <1>9 DEF IInv, Bound

\* From the empty table on, only rows of the run are inserted.
LEMMA InsertKeeps ==
  ASSUME IInv, UNCHANGED queue,
         Prepare \/ \E x \in Parts, o \in FileOutcomes : InsertPart(x, o.arrives, o.fails)
  PROVE  IInv'
<1>0. /\ job \in JobType /\ job.stage \in {"prepare", "insert"} /\ job.target \in Targets
      /\ job.source \in Runs /\ UNCHANGED <<manifest, stores, points, outcome>>
      /\ tables \in [Targets -> [Kinds -> SUBSET Row]]
  BY DEF Prepare, InsertPart, IInv, Shapes, JobsAreComplete, LoadStages
<1>1. job' \in JobType /\ SameJob /\ job'.stage = "insert"
  <2>1. CASE Prepare
    <3>1. job' = [job EXCEPT !.stage = "insert", !.todo = Parts]
      BY <2>1 DEF Prepare, Inserting
    <3>2. QED
      BY <1>0, <3>1 DEF JobType, Stages, SameJob
  <2>2. ASSUME NEW x \in Parts, NEW o \in FileOutcomes, InsertPart(x, o.arrives, o.fails)
        PROVE  job' \in JobType /\ SameJob /\ job'.stage = "insert"
    <3> DEFINE broken == job.broken \/ o.fails
    <3>1. broken \in BOOLEAN
      BY <1>0 DEF JobType, FileOutcomes
    <3>2. job.stage = "insert" /\ job' = [job EXCEPT !.todo = @ \ {x}, !.broken = broken]
      BY <2>2 DEF InsertPart
    <3> HIDE DEF broken
    <3>3. QED
      BY <1>0, <3>1, <3>2 DEF JobType, SameJob
  <2>3. QED
    BY <2>1, <2>2
<1>2. PICK rows \in SUBSET Row : SetSourceTable(rows) /\ rows \subseteq RowsOf(job.source)
  <2>1. CASE Prepare
    <3>1. SetSourceTable({})
      BY <2>1 DEF Prepare, EmptyTable
    <3>2. QED
      BY <3>1
  <2>2. ASSUME NEW x \in Parts, NEW o \in FileOutcomes, InsertPart(x, o.arrives, o.fails)
        PROVE  \E rows \in SUBSET Row : SetSourceTable(rows) /\ rows \subseteq RowsOf(job.source)
    <3>1. SourceTable \subseteq RowsOf(job.source)
      BY <2>2 DEF InsertPart, IInv, TableIsOwn
    <3>2. RowsOf(job.source) \subseteq Row /\ <<job.source, x>> \in RowsOf(job.source)
      BY <1>0 DEF RowsOf, Row, JobType
    <3> DEFINE more == SourceTable \cup {<<job.source, x>>}
               rows == IF o.arrives THEN more ELSE SourceTable
    <3>3. SetSourceTable(rows)
      BY <2>2, Zenon DEF InsertPart
    <3>4. more \subseteq RowsOf(job.source)
      BY <3>1, <3>2
    <3> HIDE DEF more
    <3>5. rows \subseteq RowsOf(job.source)
      BY <3>1, <3>4
    <3> HIDE DEF rows
    <3>6. QED
      BY <3>2, <3>3, <3>5
  <2>3. QED
    BY <2>1, <2>2
<1>3. tables' \in [Targets -> [Kinds -> SUBSET Row]] /\ tables'[job.target][job.kind] = rows
  BY <1>0, <1>2, TableWrites
<1>4. Shapes' /\ TasksAreComplete'
  BY <1>0, <1>1, <1>3 DEF IInv, Shapes, TasksAreComplete
<1>5. JobsAreComplete' /\ NoStoreYet'
  BY <1>0, <1>1 DEF IInv, JobsAreComplete, SameJob, LoadStages, CreateStages, EarlyStages,
                    NoStoreYet
<1>6. TableIsOwn'
  BY <1>1, <1>2, <1>3 DEF TableIsOwn, SourceTable, SameJob
<1>7. Bound'
  BY <1>0, <1>1 DEF IInv, Bound, LoadsAreBound, JobsAgreeWithLoad, JobsAgreeWithBinding, SameJob
<1>8. QED
  BY <1>4, <1>5, <1>6, <1>7 DEF IInv

LEMMA NoTaskTyped == NoTask \in TaskType /\ NoTask.task = None /\ None = "none"
BY DEF NoTask, Task, TaskType, None, Sources, Kinds

\* A connection that matches a load that has begun is the connection of that load.
LEMMA BoundConnection ==
  ASSUME IInv, NEW r \in Runs, NEW p, ConnectionMatches(manifest[r], p),
         manifest[r].load # "not_started"
  PROVE  p = manifest[r].profile /\ points[p] = manifest[r].target
BY DEF IInv, Bound, LoadsAreBound, ConnectionMatches

\* A run is made once, before anything of it could be loaded.
LEMMA StartGenerateKeeps ==
  ASSUME IInv, NEW r \in Runs, StartGenerate(r)
  PROVE  IInv'
<1> DEFINE old == IF KindOf[r] = "bookrag" THEN FailedLoads ELSE {}
           m == [NoManifest EXCEPT !.status = "running", !.supersedes = old]
<1>1. /\ manifest' = [manifest EXCEPT ![r] = m] /\ queue' = NoTask
      /\ job' = [Idle EXCEPT !.stage = "generate", !.source = r, !.kind = KindOf[r]]
      /\ UNCHANGED <<tables, stores, points, outcome>>
  BY DEF StartGenerate, Take
<1>2. old \in SUBSET Runs
  BY DEF FailedLoads
<1> HIDE DEF old
<1>3. m \in ManifestType /\ m.load = "not_started"
  BY <1>2 DEF NoManifest, ManifestType, LoadStatuses, StoreMarks
<1> HIDE DEF m
<1>4. /\ manifest' \in [Runs -> ManifestType] /\ manifest'[r] = m
      /\ \A q \in Runs : q # r => manifest'[q] = manifest[q]
      /\ LoadsAreBound'
  BY <1>1, <1>3, OneRunChanges
<1>5. /\ job' \in JobType /\ job'.stage = "generate" /\ job'.source = r
      /\ job'.kind = KindOf[r]
  BY <1>1, KindAssumption DEF Idle, JobType, Stages, Sources, Kinds
<1>6. Shapes' /\ TasksAreComplete'
  BY <1>1, <1>4, <1>5, NoTaskTyped DEF IInv, Shapes, TasksAreComplete
<1>7. JobsAreComplete' /\ TableIsOwn' /\ NoStoreYet'
  BY <1>5 DEF JobsAreComplete, LoadStages, CreateStages, EarlyStages, TableIsOwn, NoStoreYet
<1>8. JobsAgreeWithLoad' /\ JobsAgreeWithBinding'
  BY <1>3, <1>4, <1>5 DEF JobsAgreeWithLoad, JobsAgreeWithBinding
<1>9. QED
  BY <1>4, <1>6, <1>7, <1>8 DEF IInv, Bound

\* A load starts with the connection its run is bound to, if it is.
LEMMA StartLoadKeeps ==
  ASSUME IInv, NEW r \in Runs, NEW p \in Profiles, StartLoad(r, p)
  PROVE  IInv'
<1>1. PICK stage \in {"clean", "claim"} :
        job' = [Idle EXCEPT !.stage = stage, !.source = r, !.kind = KindOf[r], !.profile = p,
                            !.target = points[p]]
  BY DEF StartLoad
<1>2. /\ MayLoad(r, p) /\ queue' = NoTask
      /\ UNCHANGED <<manifest, tables, stores, points, outcome>>
  BY DEF StartLoad, Take
<1>3. /\ job' \in JobType /\ job'.stage = stage /\ job'.source = r /\ job'.kind = KindOf[r]
      /\ job'.profile = p /\ job'.target = points[p] /\ points[p] \in Targets
  BY <1>1, KindAssumption DEF Idle, JobType, Stages, Sources, Kinds, IInv, Shapes
<1>4. Shapes' /\ TasksAreComplete'
  BY <1>2, <1>3, NoTaskTyped DEF IInv, Shapes, TasksAreComplete
<1>5. JobsAreComplete' /\ TableIsOwn' /\ NoStoreYet'
  BY <1>3 DEF JobsAreComplete, LoadStages, CreateStages, EarlyStages, TableIsOwn, NoStoreYet
<1>6. LoadsAreBound' /\ JobsAgreeWithLoad'
  BY <1>2, <1>3 DEF IInv, Bound, LoadsAreBound, JobsAgreeWithLoad, MayLoad, Offered, LoadAllowed
<1>7. JobsAgreeWithBinding'
  BY <1>2, <1>3, BoundConnection DEF MayLoad, JobsAgreeWithBinding
<1>8. QED
  BY <1>4, <1>5, <1>6, <1>7 DEF IInv, Bound

\* A create job works with the connection of its load, and goes on to write
\* tables only where it has found no store.
LEMMA StartCreateKeeps ==
  ASSUME IInv, NEW s \in Sources, NEW k \in Kinds, NEW p \in Profiles, StartCreate(s, k, p)
  PROVE  IInv'
<1> DEFINE stage == IF StoreExists(points[p]) THEN "announce" ELSE "preprocess"
           reuse == StoreExists(points[p])
<1>1. /\ SummaryReady(s, p) /\ queue = Task("create", s, k, p) /\ queue' = NoTask
      /\ UNCHANGED <<manifest, tables, stores, points, outcome>>
      /\ job' = [Idle EXCEPT !.stage = stage, !.source = s, !.kind = k, !.profile = p,
                             !.target = points[p], !.reuse = reuse]
  BY DEF StartCreate, Take
<1>2. /\ stage \in {"announce", "preprocess"} /\ reuse \in BOOLEAN
      /\ stage = "preprocess" => stores[points[p]].state = "absent"
  BY DEF StoreExists
<1> HIDE DEF stage, reuse
<1>3. /\ job' \in JobType /\ job'.stage = stage /\ job'.source = s /\ job'.kind = k
      /\ job'.profile = p /\ job'.target = points[p] /\ points[p] \in Targets
  BY <1>1, <1>2 DEF Idle, JobType, Stages, IInv, Shapes
<1>4. Shapes' /\ TasksAreComplete'
  BY <1>1, <1>3, NoTaskTyped DEF IInv, Shapes, TasksAreComplete
<1>5. s \in Runs => k = KindOf[s]
  BY <1>1 DEF IInv, TasksAreComplete, Task
<1>6. JobsAreComplete' /\ TableIsOwn' /\ NoStoreYet'
  BY <1>1, <1>2, <1>3, <1>5, SourceAssumption
  DEF JobsAreComplete, LoadStages, CreateStages, EarlyStages, TableIsOwn, NoStoreYet
<1>7. LoadsAreBound' /\ JobsAgreeWithLoad'
  BY <1>1, <1>2, <1>3 DEF IInv, Bound, LoadsAreBound, JobsAgreeWithLoad
<1>8. JobsAgreeWithBinding'
  BY <1>1, <1>3, BoundConnection DEF SummaryReady, JobsAgreeWithBinding
<1>9. QED
  BY <1>4, <1>6, <1>7, <1>8 DEF IInv, Bound

\* At the start nothing was made.
LEMMA InitHolds ==
  ASSUME Init
  PROVE  IInv
<1>1. NoManifest \in ManifestType /\ NoManifest.load = "not_started"
  BY DEF NoManifest, ManifestType, LoadStatuses, StoreMarks
<1>2. NoStore \in StoreType
  BY DEF NoStore, StoreType, Kinds
<1>3. [t \in Targets |-> [k \in Kinds |-> {}]] \in [Targets -> [Kinds -> SUBSET Row]]
  OBVIOUS
<1>4. Shapes /\ TasksAreComplete
  BY <1>1, <1>2, <1>3, NoTaskTyped, IdleTyped DEF Init, Shapes, Outcomes, TasksAreComplete
<1>5. \A r \in Runs : manifest[r].load = "not_started"
  BY <1>1 DEF Init
<1>6. job.stage = "idle" /\ job.source = Upload /\ Upload \notin Runs
  BY IdleTyped, SourceAssumption DEF Init
<1>7. QED
  BY <1>4, <1>5, <1>6 DEF IInv, JobsAreComplete, Bound, LoadsAreBound, JobsAgreeWithLoad,
     JobsAgreeWithBinding, TableIsOwn, NoStoreYet, LoadStages, CreateStages, EarlyStages

LEMMA StepKeeps ==
  ASSUME IInv, [Next]_vars
  PROVE  IInv'
<1>1. CASE Aside
  BY <1>1, AsideKeeps
<1>2. CASE StartStep
  BY <1>2, StartGenerateKeeps, StartLoadKeeps, StartCreateKeeps DEF StartStep
<1>3. CASE \E again \in BOOLEAN : Interrupt(again)
  BY <1>3, InterruptKeeps
<1>4. CASE UNCHANGED queue /\ CreateStep
  BY <1>4, CreateKeeps
<1>5. CASE UNCHANGED queue /\ ServerStep
  BY <1>5, ServerKeeps
<1>6. CASE UNCHANGED queue /\ LoadStep
  BY <1>6, EndGenerateKeeps, CleanKeeps, MarkLoadingKeeps, InsertKeeps, EndLoadKeeps DEF LoadStep
<1>7. QED
  BY <1>1, <1>2, <1>3, <1>4, <1>5, <1>6, Steps

\* The invariant holds in every state the workflow reaches.
THEOREM IInvAlways == Spec => []IInv
<1>1. Init => IInv
  BY InitHolds
<1>2. IInv /\ [Next]_vars => IInv'
  BY StepKeeps
<1>3. QED
  BY <1>1, <1>2, PTL DEF Spec

-----------------------------------------------------------------------------
(* What a step may do to a load.                                             *)

\* The load of a run changes when a job of the run marks, finishes or fails it.
LEMMA LoadEffects ==
  ASSUME IInv, [Next]_vars, NEW r \in Runs
  PROVE  \/ SameLoad(r)
         \/ manifest[r].load = "not_started" /\ manifest'[r].load = "not_started"
         \/ job.source = r /\ (MarkLoading \/ FinishLoad \/ FailLoad)
<1>0. manifest \in [Runs -> ManifestType]
  BY DEF IInv, Shapes
<1>1. manifest'[r] = manifest[r] => SameLoad(r)
  BY DEF SameLoad
<1>2. CASE Aside
  <2>1. manifest' = manifest
    BY <1>2 DEF Aside, RequestGenerate, RequestLoad, RequestCreate, Ask, Refuse, Repoint, vars
  <2>2. QED
    BY <1>1, <2>1
<1>3. CASE StartStep
  <2>1. ASSUME NEW q \in Runs, StartGenerate(q)
        PROVE  \/ manifest'[r] = manifest[r]
               \/ manifest[r].load = "not_started" /\ manifest'[r].load = "not_started"
    <3>1. q \in NewRuns(KindOf[q]) /\ \E old : manifest' = [manifest EXCEPT ![q] =
            [NoManifest EXCEPT !.status = "running", !.supersedes = old]]
      BY <2>1 DEF StartGenerate
    <3>2. manifest[q].status = None
      BY <3>1 DEF NewRuns
    <3>3. manifest[q].load = "not_started"
      BY <3>2 DEF IInv, Bound, LoadsAreBound, None
    <3>4. QED
      BY <1>0, <3>1, <3>3 DEF NoManifest
  <2>2. (\E q \in Runs, p \in Profiles : StartLoad(q, p)) => manifest' = manifest
    BY DEF StartLoad
  <2>3. (\E s \in Sources, k \in Kinds, p \in Profiles : StartCreate(s, k, p)) => manifest' = manifest
    BY DEF StartCreate
  <2>4. QED
    BY <1>1, <1>3, <2>1, <2>2, <2>3 DEF StartStep
<1>4. CASE \E again \in BOOLEAN : Interrupt(again)
  BY <1>1, <1>4 DEF Interrupt
<1>5. CASE CreateStep
  BY <1>5, CreateEffects DEF IInv, CreateWrites
<1>6. CASE ServerStep
  BY <1>1, <1>6 DEF ServerStep, ServerBuilds, Destroy
<1>7. CASE LoadStep
  <2>1. ASSUME NEW s \in {"ready", "failed"}, EndGenerate(s)
        PROVE  \/ manifest'[r] = manifest[r]
               \/ manifest[r].load = "not_started" /\ manifest'[r].load = "not_started"
    BY <1>0, <2>1 DEF EndGenerate, IInv, Bound, JobsAgreeWithLoad, ManifestType
  <2>2. CleanTables \/ Prepare \/ (\E x \in Parts, o \in FileOutcomes : InsertPart(x, o.arrives, o.fails))
        => manifest' = manifest
    BY DEF CleanTables, Prepare, InsertPart
  <2>3. MarkLoading \/ FinishLoad \/ FailLoad => (job.source = r \/ manifest'[r] = manifest[r])
    <3>1. MarkLoading \/ FinishLoad \/ FailLoad => \E m : manifest' = [manifest EXCEPT ![job.source] = m]
      BY <1>0, Zenon DEF MarkLoading, FinishLoad, FailLoad
    <3>2. QED
      BY <1>0, <3>1
  <2>4. QED
    BY <1>1, <1>7, <2>1, <2>2, <2>3 DEF LoadStep
<1>8. QED
  BY <1>2, <1>3, <1>4, <1>5, <1>6, <1>7, Steps

\* What the three steps of a load make of its manifest.
LEMMA MarksOfLoad ==
  ASSUME IInv, NEW r \in Runs, job.source = r
  PROVE  /\ MarkLoading => /\ manifest'[r].load = "loading"
                           /\ manifest'[r].profile = job.profile /\ manifest'[r].target = job.target
                           /\ manifest[r].load \in {"not_started", "failed"}
         /\ FinishLoad \/ FailLoad =>
              /\ manifest[r].load = "loading" /\ Loading(r)
              /\ manifest'[r].profile = manifest[r].profile
              /\ manifest'[r].target = manifest[r].target
         /\ FinishLoad => manifest'[r].load = "ready"
         /\ FailLoad => manifest'[r].load = "failed"
<1>0. manifest \in [Runs -> ManifestType] /\ manifest[r] \in ManifestType
  BY DEF IInv, Shapes
<1>1. MarkLoading => manifest[r].load \in {"not_started", "failed"}
  BY DEF MarkLoading, IInv, Bound, JobsAgreeWithLoad, LoadAllowed
<1>2. MarkLoading => /\ manifest'[r].load = "loading"
                     /\ manifest'[r].profile = job.profile /\ manifest'[r].target = job.target
  <2>1. ASSUME MarkLoading
        PROVE  \E later : manifest' = [manifest EXCEPT ![r] =
                 [manifest[r] EXCEPT !.load = "loading", !.profile = job.profile,
                                     !.target = job.target, !.supersedes = later]]
    BY <2>1, Zenon DEF MarkLoading
  <2>2. ASSUME MarkLoading
        PROVE  /\ manifest'[r].load = "loading"
               /\ manifest'[r].profile = job.profile /\ manifest'[r].target = job.target
    <3>1. PICK later : manifest' = [manifest EXCEPT ![r] =
            [manifest[r] EXCEPT !.load = "loading", !.profile = job.profile,
                                !.target = job.target, !.supersedes = later]]
      BY <2>1, <2>2
    <3> DEFINE m == [manifest[r] EXCEPT !.load = "loading", !.profile = job.profile,
                                        !.target = job.target, !.supersedes = later]
    <3>2. m.load = "loading" /\ m.profile = job.profile /\ m.target = job.target
      BY <1>0 DEF ManifestType
    <3>3. manifest' = [manifest EXCEPT ![r] = m]
      BY <3>1
    <3> HIDE DEF m
    <3>4. QED
      BY <1>0, <3>2, <3>3
  <2>3. QED
    BY <2>2
<1>3. FinishLoad \/ FailLoad => manifest[r].load = "loading" /\ Loading(r)
  BY DEF FinishLoad, FailLoad, IInv, Bound, JobsAgreeWithLoad, Loading, Handling
<1>4. /\ FinishLoad => manifest' = [manifest EXCEPT ![r].load = "ready"]
      /\ FailLoad => manifest' = [manifest EXCEPT ![r].load = "failed"]
  BY DEF FinishLoad, FailLoad
<1>5. QED
  BY <1>0, <1>1, <1>2, <1>3, <1>4 DEF ManifestType

\* A handler is in the tables of a run when it was there, or has just marked the run.
LEMMA LoadingBegins ==
  ASSUME IInv, [Next]_vars, NEW r \in Runs, Loading(r)'
  PROVE  Loading(r) \/ (job.source = r /\ MarkLoading)
<1>0. job \in JobType /\ job'.source = r /\ job'.stage \in {"prepare", "insert"} /\ Upload \notin Runs
  BY SourceAssumption DEF IInv, Shapes, Loading, Handling
<1>1. job' # Idle
  BY <1>0, IdleTyped
<1>2. job' = job => Loading(r)
  BY <1>0 DEF Loading, Handling
<1>3. CASE Aside
  BY <1>2, <1>3 DEF Aside, RequestGenerate, RequestLoad, RequestCreate, Ask, Refuse, Repoint, vars
<1>4. ~StartStep
  <2>1. Idle \in JobType
    BY IdleTyped
  <2>2. \A q \in Runs : ~StartGenerate(q)
    BY <1>0, <2>1 DEF StartGenerate, JobType
  <2>3. \A q \in Runs, p \in Profiles : ~StartLoad(q, p)
    BY <1>0, <2>1 DEF StartLoad, JobType
  <2>4. ASSUME NEW s \in Sources, NEW k \in Kinds, NEW p \in Profiles PROVE ~StartCreate(s, k, p)
    <3>1. StartCreate(s, k, p) => job'.stage \in {"announce", "preprocess"}
      BY <2>1 DEF StartCreate, JobType
    <3>2. QED
      BY <1>0, <3>1
  <2>5. QED
    BY <2>2, <2>3, <2>4 DEF StartStep
<1>5. ~(\E again \in BOOLEAN : Interrupt(again))
  BY <1>1 DEF Interrupt, End
<1>6. ~CreateStep
  <2>1. CreateStep => job'.stage \in CreateStages
    BY <1>1, CreateEffects DEF IInv, CreateWrites
  <2>2. QED
    BY <1>0, <2>1 DEF CreateStages, EarlyStages
<1>7. CASE ServerStep
  BY <1>2, <1>7 DEF ServerStep, ServerBuilds, Destroy
<1>8. CASE LoadStep
  <2>1. ~(\E s \in {"ready", "failed"} : EndGenerate(s)) /\ ~FinishLoad /\ ~FailLoad
    BY <1>1 DEF EndGenerate, FinishLoad, FailLoad, End
  <2>2. ~CleanTables
    BY <1>0 DEF CleanTables, Proceed, JobType
  <2>3. MarkLoading => job.source = r
    BY <1>0 DEF MarkLoading, Proceed, JobType
  <2>4. Prepare => Loading(r)
    BY <1>0 DEF Prepare, Inserting, JobType, Loading, Handling
  <2>5. (\E x \in Parts, o \in FileOutcomes : InsertPart(x, o.arrives, o.fails)) => Loading(r)
    BY <1>0 DEF InsertPart, JobType, Loading, Handling
  <2>6. QED
    BY <1>8, <2>1, <2>2, <2>3, <2>4, <2>5 DEF LoadStep
<1>9. QED
  BY <1>3, <1>4, <1>5, <1>6, <1>7, <1>8, Steps

-----------------------------------------------------------------------------
(* The theorems.                                                             *)

\* Every state has the declared types, a load that was begun has a connection,
\* and a job that loads or creates has a server.
THEOREM TypeCorrect == Spec => []TypeOK
<1>1. IInv => TypeOK
  BY NoneAssumption DEF IInv, Shapes, Bound, LoadsAreBound, JobsAreComplete, TypeOK, LoadStages,
     CreateStages, EarlyStages, JobType, Stages
<1>2. QED
  BY <1>1, IInvAlways, PTL

\* A run stays with the profile and the server of its first load, and so does
\* every job of it, however the profile is edited (_validate_load_connection).
THEOREM BindingStays == Spec => BindingIsFinal
<1>1. ASSUME IInv, IInv', [Next]_vars, NEW r \in Runs, manifest[r].load # "not_started"
      PROVE  /\ manifest'[r].target = manifest[r].target
             /\ manifest'[r].profile = manifest[r].profile
             /\ job'.source = r => job'.target = manifest[r].target
  <2>1. /\ manifest'[r].target = manifest[r].target
        /\ manifest'[r].profile = manifest[r].profile
        /\ manifest'[r].load # "not_started"
    BY <1>1, LoadEffects, MarksOfLoad DEF SameLoad, IInv, Bound, JobsAgreeWithBinding
  <2>2. QED
    BY <1>1, <2>1 DEF IInv, Bound, JobsAgreeWithBinding
<1>2. IInv /\ IInv' /\ [Next]_vars =>
        [\A r \in Runs :
           manifest[r].load # "not_started"
           => /\ manifest'[r].target = manifest[r].target
              /\ manifest'[r].profile = manifest[r].profile
              /\ job'.source = r => job'.target = manifest[r].target]_vars
  BY <1>1
<1>3. QED
  BY <1>2, IInvAlways, PTL DEF Spec, BindingIsFinal

\* A load that was interrupted stays marked, and no later job gets to its tables.
THEOREM InterruptedStays == Spec => InterruptedLoadStays
<1>1. ASSUME IInv, [Next]_vars, NEW r \in Runs, manifest[r].load = "loading", ~Loading(r)
      PROVE  manifest'[r].load = "loading" /\ ~Loading(r)'
  <2>1. manifest'[r].load = "loading"
    BY <1>1, LoadEffects, MarksOfLoad DEF SameLoad
  <2>2. ~Loading(r)'
    BY <1>1, LoadingBegins, MarksOfLoad
  <2>3. QED
    BY <2>1, <2>2
<1>2. IInv /\ [Next]_vars =>
        [\A r \in Runs :
           manifest[r].load = "loading" /\ ~Loading(r)
           => manifest'[r].load = "loading" /\ ~Loading(r)']_vars
  BY <1>1
<1>3. QED
  BY <1>2, IInvAlways, PTL DEF Spec, InterruptedLoadStays

\* The count of the rows says that they are all there, because none of another
\* source is among them.
LEMMA CountedRows ==
  ASSUME NEW r, NEW rows, rows \subseteq RowsOf(r), Cardinality(rows) = Cardinality(Parts)
  PROVE  rows = RowsOf(r)
<1>1. IsFiniteSet({r}) /\ Cardinality({r}) = 1 /\ IsFiniteSet(Parts)
  BY FS_Singleton, PartsAssumption
<1>2. /\ IsFiniteSet(RowsOf(r))
      /\ Cardinality(RowsOf(r)) = Cardinality({r}) * Cardinality(Parts)
  BY <1>1, FS_Product DEF RowsOf
<1>3. Cardinality(Parts) \in Nat
  BY <1>1, FS_CardinalityType
<1>4. Cardinality(RowsOf(r)) = Cardinality(rows)
  BY <1>1, <1>2, <1>3
<1>5. QED
  BY <1>2, <1>4, FS_Subset

\* A run is marked loaded when its tables hold exactly the rows of its files.
THEOREM ReadyIsLoaded == Spec => ReadyMeansLoaded
<1>1. ASSUME IInv, [Next]_vars, NEW r \in Runs, manifest[r].load # "ready",
             manifest'[r].load = "ready"
      PROVE  tables[manifest[r].target][KindOf[r]] = RowsOf(r)
  <2>1. job.source = r /\ FinishLoad
    BY <1>1, LoadEffects, MarksOfLoad DEF SameLoad
  <2>2. /\ manifest[r].load = "loading" /\ job.target = manifest[r].target
        /\ job.kind = KindOf[r]
    BY <1>1, <2>1, MarksOfLoad DEF IInv, Bound, JobsAgreeWithBinding, JobsAreComplete
  <2>3. SourceTable \subseteq RowsOf(r) /\ Cardinality(SourceTable) = Cardinality(Parts)
    BY <1>1, <2>1 DEF IInv, TableIsOwn, FinishLoad
  <2>4. SourceTable = RowsOf(r)
    BY <2>3, CountedRows
  <2>5. QED
    BY <2>2, <2>4 DEF SourceTable
<1>2. IInv /\ [Next]_vars =>
        [\A r \in Runs :
           manifest[r].load # "ready" /\ manifest'[r].load = "ready"
           => tables[manifest[r].target][KindOf[r]] = RowsOf(r)]_vars
  BY <1>1
<1>3. QED
  BY <1>2, IInvAlways, PTL DEF Spec, ReadyMeansLoaded

\* A create job, also one that is run again, keeps off the source tables of a
\* server where a Vector Store of the name exists.
THEOREM SourcesKept == Spec => SourcesUnderIndexKept
<1>1. ASSUME IInv, [Next]_vars, NEW t \in Targets, job.stage \in CreateStages,
             stores[t].state # "absent"
      PROVE  tables'[t] = tables[t]
  <2>1. CASE Aside \/ (\E again \in BOOLEAN : Interrupt(again))
    BY <2>1 DEF Aside, RequestGenerate, RequestLoad, RequestCreate, Ask, Refuse, Repoint,
                Interrupt, vars
  <2>2. CASE CreateStep
    BY <1>1, <2>2, CreateEffects DEF IInv, CreateWrites, NoStoreYet
  <2>3. CASE StartStep
    BY <2>3 DEF StartStep, StartGenerate, StartLoad, StartCreate
  <2>4. ~LoadStep
    BY <1>1 DEF LoadStep, EndGenerate, CleanTables, MarkLoading, Prepare, InsertPart, FinishLoad,
                FailLoad, CreateStages, EarlyStages
  <2>5. CASE ServerStep
    <3>1. \A dropped : ~Destroy(t, dropped)
      BY <1>1 DEF Destroy, Free, CreateStages, EarlyStages
    <3>2. QED
      BY <1>1, <2>5 DEF ServerStep, ServerBuilds, Destroy, Free, CreateStages, EarlyStages
  <2>6. QED
    BY <1>1, <2>1, <2>2, <2>3, <2>4, <2>5, Steps
<1>2. IInv /\ [Next]_vars =>
        [\A t \in Targets :
           /\ job.stage \in {"preprocess", "extract", "upload", "announce", "create", "wait", "verify"}
           /\ stores[t].state # "absent"
           => tables'[t] = tables[t]]_vars
  BY <1>1 DEF CreateStages, EarlyStages
<1>3. QED
  BY <1>2, IInvAlways, PTL DEF Spec, SourcesUnderIndexKept

=============================================================================
