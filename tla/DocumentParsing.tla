--------------------------- MODULE DocumentParsing ---------------------------
(***************************************************************************)
(* One parsing run over the uploads of a session and the CSV generations    *)
(* made from it (services/multi_format.py, both document modes), with the   *)
(* client of the Unstructured service that does the parsing                 *)
(* (services/unstructured_job_runner.py).                                   *)
(*                                                                          *)
(* Every file is parsed by a thread of a pool: it submits one on-demand job,*)
(* polls it until it ends or the poll times out, downloads the output and   *)
(* stores it.  The thread of the handler collects what the pool returns and *)
(* writes the manifest last.  The queue repeats a run that died as a new    *)
(* run, in a directory of its own: that is another behaviour of this module.*)
(***************************************************************************)
EXTENDS Integers, Sequences, FiniteSetsExt

CONSTANTS
  N,            \* uploads of the run
  Workers,      \* threads of the pool
  MaxAttempts,  \* UNSTRUCTURED_JOB_SUBMIT_MAX_ATTEMPTS
  MaxPolls,     \* polls until the timeout has passed
  Payloads,     \* outputs of the service: which elements have text
  None          \* no file, no output

ASSUME SizeAssumption == N \in Nat \ {0}
ASSUME LimitAssumption ==
  Workers \in Nat \ {0} /\ MaxAttempts \in Nat \ {0} /\ MaxPolls \in Nat \ {0}
ASSUME PayloadAssumption == Payloads \subseteq Seq(BOOLEAN) /\ None \notin Payloads

VARIABLES
  stage,     \* what the handler of the parsing run is doing
  source,    \* uploads that are still on disk
  task,      \* what the thread of each upload is doing
  result,    \* the records the handler has collected
  service,   \* the job of each upload at the service
  raw,       \* the raw JSON file of each upload
  manifest,  \* manifest.json of the parsing run
  gen        \* the last CSV generation from the run

vars == <<stage, source, task, result, service, raw, manifest, gen>>
parseVars == <<stage, task, result, service>>

Docs == 1..N                   \* source_index, from 1

Kinds == {"bookrag", "multi_format"}
Record == [ok: BOOLEAN, sha: Payloads \cup {None}, count: Nat]
TaskType == [at: {"queued", "submit", "wait", "download", "returned", "raised"},
             tries: 0..MaxAttempts, polls: 0..MaxPolls]
ServiceType == [accepted: Nat, state: {"none", "running", "completed", "failed"},
                output: Payloads \cup {None}]

\* The type invariant.  A success is recorded only for a thread that returned,
\* and a raw file of another output than the service gave is no longer fresh.
TypeOK ==
  /\ stage \in {"idle", "parsing", "raising", "raised", "ended", "died"}
  /\ source \subseteq Docs
  /\ task \in [Docs -> TaskType]
  /\ result \in [Docs -> {"pending", "success", "failed"}]
  /\ service \in [Docs -> ServiceType]
  /\ raw \in [Docs -> Payloads \cup {None}]
  /\ manifest.status \in {"none", "ready", "failed"}
  /\ manifest.doc \in [Docs -> Record]
  /\ gen.kind \in Kinds
  /\ gen.status \in {"none", "running", "ready", "failed"}
  /\ gen.done \in [Docs -> {"todo", "success", "failed"}]
  /\ \A d \in Docs : gen.rows[d] \subseteq Nat \X Nat
  /\ \A d \in Docs : result[d] = "success" => task[d].at = "returned"

NoRecord == [ok |-> FALSE, sha |-> None, count |-> 0]
NoGeneration == [kind |-> "bookrag", status |-> "none",
                 done |-> [d \in Docs |-> "todo"], rows |-> [d \in Docs |-> {}]]

Init ==
  /\ stage = "idle"
  /\ source = Docs
  /\ task = [d \in Docs |-> [at |-> "queued", tries |-> 0, polls |-> 0]]
  /\ result = [d \in Docs |-> "pending"]
  /\ service = [d \in Docs |-> [accepted |-> 0, state |-> "none", output |-> None]]
  /\ raw = [d \in Docs |-> None]
  /\ manifest = [status |-> "none", doc |-> [d \in Docs |-> NoRecord]]
  /\ gen = NoGeneration

-----------------------------------------------------------------------------
(* The handler and its pool.                                                *)

Running == stage \in {"parsing", "raising"}
At(d, where) == Running /\ task[d].at = where
Go(d, where) == task' = [task EXCEPT ![d].at = where]
Raise(d) == Go(d, "raised")
Busy == {d \in Docs : task[d].at \in {"submit", "wait", "download"}}

\* Nothing is submitted when a path is missing: the run raises before.
StartParse ==
  /\ stage = "idle"
  /\ stage' = IF source = Docs THEN "parsing" ELSE "raised"
  /\ UNCHANGED <<source, task, result, service, raw, manifest, gen>>

\* A thread takes the next upload, in the order of submission to the pool, and
\* waits for its turn at the submission lock.  The upload must be there and
\* below UNSTRUCTURED_ON_DEMAND_MAX_FILE_BYTES.
TakeUp(d, fits) ==
  /\ At(d, "queued") /\ Cardinality(Busy) < Workers
  /\ \A e \in Docs : e < d => task[e].at # "queued"
  /\ IF d \in source /\ fits THEN Go(d, "submit") ELSE Raise(d)
  /\ UNCHANGED <<stage, source, result, service, raw, manifest, gen>>

Accept(d) == service' = [service EXCEPT ![d].accepted = @ + 1, ![d].state = "running"]

\* Mutant: an answer that is lost is followed by another attempt, too.
SubmitAgain(d, answer) ==
  /\ At(d, "submit")
  /\ IF answer \in {"accepted", "lost"} THEN Accept(d) ELSE UNCHANGED service
  /\ CASE answer = "accepted" -> Go(d, "wait")
       [] answer \in {"throttled", "lost"} /\ task[d].tries + 1 < MaxAttempts ->
            task' = [task EXCEPT ![d].tries = @ + 1]
       [] OTHER -> Raise(d)
  /\ UNCHANGED <<stage, source, result, raw, manifest, gen>>

\* create_unstructured_on_demand_job: only an answer 429 is followed by another
\* attempt.  An answer may be lost, or carry no job id, after the service
\* accepted the job.
Submit(d, answer) ==
  /\ At(d, "submit")
  /\ IF answer \in {"accepted", "lost"} THEN Accept(d) ELSE UNCHANGED service
  /\ CASE answer = "accepted" -> Go(d, "wait")
       [] answer = "throttled" /\ task[d].tries + 1 < MaxAttempts ->
            task' = [task EXCEPT ![d].tries = @ + 1]
       [] OTHER -> Raise(d)
  /\ UNCHANGED <<stage, source, result, raw, manifest, gen>>

\* Mutant: the time starts again before it has passed.
PollForever(d, answers) ==
  /\ At(d, "wait")
  /\ CASE answers /\ service[d].state = "completed" -> Go(d, "download")
       [] answers /\ service[d].state = "running" ->
            task' = [task EXCEPT ![d].polls = (@ + 1) % MaxPolls]
       [] OTHER -> Raise(d)
  /\ UNCHANGED <<stage, source, result, service, raw, manifest, gen>>

\* wait_for_unstructured_job: one poll of the status.  The time is looked at
\* after an answer that the job is not over.
Poll(d, answers) ==
  /\ At(d, "wait")
  /\ CASE answers /\ service[d].state = "completed" -> Go(d, "download")
       [] answers /\ service[d].state = "running" /\ task[d].polls + 1 < MaxPolls ->
            task' = [task EXCEPT ![d].polls = @ + 1]
       [] OTHER -> Raise(d)
  /\ UNCHANGED <<stage, source, result, service, raw, manifest, gen>>

\* The raw file of a document, read back as its list of elements.
Store(d, output) == raw' = [raw EXCEPT ![d] = output]

\* The output is downloaded, stored and read back.  The size of the upload is
\* taken last: it raises when the upload is gone, with the output on disk.
Download(d, arrives) ==
  /\ At(d, "download")
  /\ IF arrives THEN Store(d, service[d].output) ELSE UNCHANGED raw
  /\ IF arrives /\ d \in source THEN Go(d, "returned") ELSE Raise(d)
  /\ UNCHANGED <<stage, source, result, service, manifest, gen>>

\* Mutant: a thread that raised is recorded like one that returned.
CollectBlind(d) ==
  /\ stage = "parsing" /\ result[d] = "pending"
  /\ task[d].at \in {"returned", "raised"}
  /\ result' = [result EXCEPT ![d] = "success"]
  /\ UNCHANGED <<stage, source, task, service, raw, manifest, gen>>

\* as_completed: the record of a failed file takes the size of its upload too,
\* outside of any handler: when the upload is gone the run itself raises, as
\* soon as the other threads are done.
Collect(d) ==
  /\ stage = "parsing" /\ result[d] = "pending"
  /\ task[d].at \in {"returned", "raised"}
  /\ IF task[d].at = "raised" /\ d \notin source
     THEN stage' = "raising" /\ UNCHANGED result
     ELSE /\ result' = [result EXCEPT ![d] = IF task[d].at = "raised" THEN "failed" ELSE "success"]
          /\ UNCHANGED stage
  /\ UNCHANGED <<source, task, service, raw, manifest, gen>>

LeavePool ==
  /\ stage = "raising" /\ \A d \in Docs : task[d].at \in {"returned", "raised"}
  /\ stage' = "raised"
  /\ UNCHANGED <<source, task, result, service, raw, manifest, gen>>

\* The manifest names the file of every success, with its checksum.
RecordOf(d) ==
  IF result[d] = "success"
  THEN [ok |-> TRUE, sha |-> raw[d], count |-> Len(raw[d])]
  ELSE NoRecord

\* Mutant: a run counts as ready when any file was parsed.
StatusIfAny(records) == IF \E d \in Docs : records[d].ok THEN "ready" ELSE "failed"
ParseStatus(records) == IF \A d \in Docs : records[d].ok THEN "ready" ELSE "failed"

\* _write_json_atomic: readers find the whole manifest or none.
WriteManifest ==
  /\ stage = "parsing" /\ \A d \in Docs : result[d] # "pending"
  /\ LET records == [d \in Docs |-> RecordOf(d)] IN
     manifest' = [status |-> ParseStatus(records), doc |-> records]
  /\ stage' = "ended"
  /\ UNCHANGED <<source, task, result, service, raw, gen>>

\* The process dies: whatever is on disk and at the service stays.
Die ==
  /\ Running
  /\ stage' = "died"
  /\ UNCHANGED <<source, task, result, service, raw, manifest, gen>>

-----------------------------------------------------------------------------
(* The service, and what becomes of files that are older than the retention.*)

\* A job ends when it likes, also when nobody is waiting for it any more.
ServiceEnds(d, output) ==
  /\ service[d].state = "running"
  /\ service' = [service EXCEPT ![d].state = IF output = None THEN "failed" ELSE "completed",
                                ![d].output = output]
  /\ UNCHANGED <<stage, source, task, result, raw, manifest, gen>>

\* The cleaner of expired artifacts, or an operator, removes an upload.
LoseSource(d) ==
  /\ d \in source
  /\ source' = source \ {d}
  /\ UNCHANGED <<stage, task, result, service, raw, manifest, gen>>

\* The raw file of a finished run is removed, or replaced by another content.
ChangeRaw(d, content) ==
  /\ stage = "ended" /\ raw[d] \notin {None, content}
  /\ raw' = [raw EXCEPT ![d] = content]
  /\ UNCHANGED <<stage, source, task, result, service, manifest, gen>>

-----------------------------------------------------------------------------
(* CSV generation from the run.                                             *)

\* A manifest is found and ready, and all its documents are successes.
Reusable == manifest.status = "ready" /\ \A d \in Docs : manifest.doc[d].ok

StartGenerate(kind) ==
  /\ Reusable /\ gen.status # "running"
  /\ gen' = [NoGeneration EXCEPT !.kind = kind, !.status = "running"]
  /\ UNCHANGED <<source, raw, manifest>> /\ UNCHANGED parseVars

\* Mutant: the offset counts the rows of the earlier documents.
TextCount(d) == Cardinality({i \in 1..manifest.doc[d].count : manifest.doc[d].sha[i]})
OffsetByRows(d) == MapThenSumSet(TextCount, {e \in Docs : e < d})
\* sequence_offsets: documents number their rows one after another.
Count(d) == manifest.doc[d].count
Offset(d) == MapThenSumSet(Count, {e \in Docs : e < d})

\* Elements without text give no chunk row; the numbers of the rows are those
\* of the elements.  BookRAG keeps every element under the document's id.
RowsOf(d, payload) ==
  IF gen.kind = "bookrag"
  THEN {<<i, i>> : i \in 1..Len(payload)}
  ELSE {<<Offset(d) + i, i>> : i \in {j \in 1..Len(payload) : payload[j]}}

\* Mutant: the file is only looked for.
FileOnly(d) == raw[d] # None /\ (gen.kind = "bookrag" => Len(raw[d]) > 0)
\* The file is there, has the checksum of the manifest, and for BookRAG has
\* elements.
Usable(d) ==
  /\ raw[d] # None /\ raw[d] = manifest.doc[d].sha
  /\ gen.kind = "bookrag" => Len(raw[d]) > 0

\* The rows of a usable file fail too if the tree of a BookRAG document does not
\* pass its integrity checks, or its CSV files cannot be written.
Transform(d, built) ==
  /\ gen.status = "running" /\ gen.done[d] = "todo"
  /\ gen' = IF Usable(d) /\ built
            THEN [gen EXCEPT !.done[d] = "success", !.rows[d] = RowsOf(d, raw[d])]
            ELSE [gen EXCEPT !.done[d] = "failed"]
  /\ UNCHANGED <<source, raw, manifest>> /\ UNCHANGED parseVars

\* A Multi-Format run needs a row to load; a BookRAG run is also failed by its
\* relation file.
FinishGenerate(relations) ==
  /\ gen.status = "running" /\ \A d \in Docs : gen.done[d] # "todo"
  /\ LET complete == \A d \in Docs : gen.done[d] = "success"
         loadable == IF gen.kind = "bookrag" THEN relations
                     ELSE \E d \in Docs : gen.rows[d] # {}
     IN gen' = [gen EXCEPT !.status = IF complete /\ loadable THEN "ready" ELSE "failed"]
  /\ UNCHANGED <<source, raw, manifest>> /\ UNCHANGED parseVars

-----------------------------------------------------------------------------
Answers == {"accepted", "lost", "throttled", "refused"}

Thread(d) ==
  \/ \E fits \in BOOLEAN : TakeUp(d, fits)
  \/ \E answer \in Answers : Submit(d, answer)
  \/ \E answers \in BOOLEAN : Poll(d, answers)
  \/ \E arrives \in BOOLEAN : Download(d, arrives)

Handler == StartParse \/ (\E d \in Docs : Collect(d)) \/ LeavePool \/ WriteManifest

Next ==
  \/ Handler \/ Die
  \/ \E d \in Docs : Thread(d) \/ LoseSource(d)
  \/ \E d \in Docs, output \in Payloads \cup {None} :
       ServiceEnds(d, output) \/ ChangeRaw(d, output)
  \/ \E kind \in Kinds : StartGenerate(kind)
  \/ \E d \in Docs, built \in BOOLEAN : Transform(d, built)
  \/ \E relations \in BOOLEAN : FinishGenerate(relations)

Spec == Init /\ [][Next]_vars

\* Threads run and calls return, each with its own timeout; nothing is asked of
\* the service.
FairSpec == Spec /\ WF_vars(Handler) /\ \A d \in Docs : WF_vars(Thread(d))

-----------------------------------------------------------------------------
(* Properties.                                                              *)

\* A run submits a document at most once, whatever becomes of the answers: the
\* service never works twice, and bills twice, for one file of a run.
OneJobPerDocument == \A d \in Docs : service[d].accepted <= 1

\* A run that ends while its uploads are in place leaves a manifest, however many
\* files failed; and the manifest says what the run produced: a document is a
\* success exactly when its thread stored the output of its service job, and the
\* run is ready only if all are.  Output that came too late is nobody's.
ManifestTellsOutcome ==
  /\ stage = "raised" => source # Docs
  /\ manifest.status = "ready" => \A d \in Docs : manifest.doc[d].ok
  /\ \A d \in Docs :
       manifest.doc[d].ok => /\ service[d].state = "completed"
                             /\ manifest.doc[d].sha = service[d].output
                             /\ manifest.doc[d].count = Len(service[d].output)

\* A generation that is ready has a row for every element the service returned
\* (Multi-Format: with text) and no other, whatever happened to the files in
\* between.
GeneratedFromParsed ==
  gen.status = "ready" =>
    \A d \in Docs :
      {row[2] : row \in gen.rows[d]} =
        {i \in DOMAIN service[d].output : gen.kind = "multi_format" => service[d].output[i]}

\* Threads that transform the documents in any order give all chunk rows
\* different ids, which grow with the order of the uploads.
RowIdsFollowSource ==
  gen.kind = "multi_format" =>
    \A d, e \in Docs : d < e =>
      \A row \in gen.rows[d], other \in gen.rows[e] : row[1] < other[1]

\* The handler of every run comes to an end, though the service may never
\* finish a job.
EveryRunEnds == (stage = "parsing") ~> ~Running
=============================================================================
