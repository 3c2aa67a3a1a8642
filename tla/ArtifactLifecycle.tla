-------------------------- MODULE ArtifactLifecycle --------------------------
(***************************************************************************)
(* The retention of files below uploads/ (services/artifact_lifecycle.py,   *)
(* repositories/artifact_repository.py): requests and jobs write files and  *)
(* register them with an expiry day; cleaning passes, of an operations      *)
(* process or of a maintenance job, list what has expired and delete it     *)
(* file by file.  The application and the passes share the table of         *)
(* artifacts and the disk, and nothing else: no lock is held between the    *)
(* steps of either.  Cleaning is enabled; a dry run changes nothing.        *)
(***************************************************************************)
EXTENDS Integers, FiniteSets

CONSTANTS
  Uploads,     \* uploaded documents: each has a path of its own
  Manifests,   \* manifests of CSV runs: later jobs write them again
  Foreign,     \* files whose row names a path that is not below the root now
  Cleaners,    \* cleaning passes that may overlap
  Clients,     \* requests and jobs that may overlap with them
  Retention,   \* EVSUI_ARTIFACT_RETENTION_DAYS
  LastDay,     \* bound on the time
  MaxStops     \* bound on the passes that stop half way

Files == Uploads \cup Manifests

ASSUME FilesAssumption == Uploads \cap Manifests = {} /\ Foreign \subseteq Files
ASSUME DaysAssumption ==
  Retention \in Nat \ {0} /\ LastDay \in Nat /\ MaxStops \in Nat

VARIABLES
  disk,      \* the files there are
  row,       \* the artifact row of each path
  today,     \* the time
  cleaner,   \* what each pass is doing
  client,    \* what each request or job is doing
  stops      \* how many passes have stopped half way

vars == <<disk, row, today, cleaner, client, stops>>

RowType == [state: {"none", "active", "deleted"}, expires: 0..(LastDay + Retention)]
CleanerType == [at: {"idle", "unlink", "mark"}, todo: SUBSET Files, file: SUBSET Files]
ClientType == [at: {"idle", "rewrite", "checked"}, file: SUBSET Files, expires: 0..(LastDay + Retention)]

\* The type invariant: a pass works on files that were registered once.
TypeOK ==
  /\ disk \subseteq Files
  /\ row \in [Files -> RowType]
  /\ today \in 0..LastDay
  /\ cleaner \in [Cleaners -> CleanerType]
  /\ client \in [Clients -> ClientType]
  /\ stops \in 0..MaxStops
  /\ \A c \in Cleaners : cleaner[c].at = "mark" => Cardinality(cleaner[c].file) = 1
  /\ \A c \in Cleaners : \A f \in cleaner[c].todo \cup cleaner[c].file :
       row[f].state # "none"

Idle == [at |-> "idle", todo |-> {}, file |-> {}]
Resting == [at |-> "idle", file |-> {}, expires |-> 0]

\* A row of an earlier deployment may name a path elsewhere.
Init ==
  /\ disk = Foreign
  /\ row = [f \in Files |-> [state |-> IF f \in Foreign THEN "active" ELSE "none", expires |-> 0]]
  /\ today = 0
  /\ cleaner = [c \in Cleaners |-> Idle]
  /\ client = [c \in Clients |-> Resting]
  /\ stops = 0

-----------------------------------------------------------------------------
(* Requests and jobs.                                                       *)

\* An upload gets a directory of its own, a CSV run too: a path is new once.
Write(f) ==
  /\ f \notin disk /\ row[f].state = "none"
  /\ disk' = disk \cup {f}
  /\ UNCHANGED <<row, today, cleaner, client, stops>>

\* A load, or the creation of a store, reads the manifest of its run...
ReadManifest(c, f) ==
  /\ client[c] = Resting /\ f \in (disk \cap Manifests) \ Foreign
  /\ client' = [client EXCEPT ![c] = [at |-> "rewrite", file |-> {f}, expires |-> 0]]
  /\ UNCHANGED <<disk, row, today, cleaner, stops>>

\* ... and replaces it later, whether it is still there or not.
ReplaceManifest(c) ==
  /\ client[c].at = "rewrite"
  /\ disk' = disk \cup client[c].file
  /\ client' = [client EXCEPT ![c] = Resting]
  /\ UNCHANGED <<row, today, cleaner, stops>>

\* What is registered is kept for the retention period from the moment its
\* file is looked at.  Every caller gives a retention: no row is without expiry.
Expiry == today + Retention

\* register_file: the path is below the root and the file is there.  Uploads of
\* the session are registered again by every create request, a manifest by
\* every creation from its run.
CheckFile(c, f) ==
  /\ client[c] = Resting /\ f \in disk \ Foreign
  /\ client' = [client EXCEPT ![c] = [at |-> "checked", file |-> {f}, expires |-> Expiry]]
  /\ UNCHANGED <<disk, row, today, cleaner, stops>>

\* ArtifactRepository.register: one row per path, with the expiry computed
\* before, and never deleted.
Register(c) ==
  /\ client[c].at = "checked"
  /\ row' = [f \in Files |-> IF f \in client[c].file
                             THEN [state |-> "active", expires |-> client[c].expires]
                             ELSE row[f]]
  /\ client' = [client EXCEPT ![c] = Resting]
  /\ UNCHANGED <<disk, today, cleaner, stops>>

-----------------------------------------------------------------------------
(* Cleaning passes.                                                         *)

Expired(f) == row[f].state = "active" /\ row[f].expires <= today

\* Mutant: the pass lists the files there are, not the rows.
ListDisk(c) ==
  /\ cleaner[c].at = "idle" /\ disk # {}
  /\ cleaner' = [cleaner EXCEPT ![c] =
       [at |-> "unlink", todo |-> disk, file |-> {}]]
  /\ UNCHANGED <<disk, row, today, client, stops>>

\* list_expired; with apply refused unless cleaning is enabled.
ListExpired(c) ==
  /\ cleaner[c].at = "idle" /\ \E f \in Files : Expired(f)
  /\ cleaner' = [cleaner EXCEPT ![c] =
       [at |-> "unlink", todo |-> {f \in Files : Expired(f)}, file |-> {}]]
  /\ UNCHANGED <<disk, row, today, client, stops>>

\* _safe_path: a path that is not below the root is reported as blocked.
Skip(c, f) ==
  /\ cleaner[c].at = "unlink" /\ f \in cleaner[c].todo \cap Foreign
  /\ cleaner' = [cleaner EXCEPT ![c].todo = @ \ {f}]
  /\ UNCHANGED <<disk, row, today, client, stops>>

\* Mutant: any error of the unlink counts as a file that is gone.
UnlinkAnyError(c, f) ==
  /\ cleaner[c].at = "unlink" /\ f \in cleaner[c].todo \ Foreign
  /\ disk' \in {disk, disk \ {f}}
  /\ cleaner' = [cleaner EXCEPT ![c] =
       [at |-> "mark", todo |-> @.todo \ {f}, file |-> {f}]]
  /\ UNCHANGED <<row, today, client, stops>>

\* Mutant: a file that is gone already is an error.
UnlinkPresent(c, f) ==
  /\ cleaner[c].at = "unlink" /\ f \in cleaner[c].todo \ Foreign
  /\ disk' = disk \ {f}
  /\ cleaner' = [cleaner EXCEPT ![c] =
       IF f \in disk THEN [at |-> "mark", todo |-> @.todo \ {f}, file |-> {f}] ELSE Idle]
  /\ UNCHANGED <<row, today, client, stops>>

\* The files come in the order of expiry; rows of a day are in any order.  A
\* file that is gone already is as good as deleted.
Unlink(c, f) ==
  /\ cleaner[c].at = "unlink" /\ f \in cleaner[c].todo \ Foreign
  /\ disk' = disk \ {f}
  /\ cleaner' = [cleaner EXCEPT ![c] =
       [at |-> "mark", todo |-> @.todo \ {f}, file |-> {f}]]
  /\ UNCHANGED <<row, today, client, stops>>

\* mark_deleted, by the id of the row, which a later registration keeps.
MarkDeleted(c) ==
  /\ cleaner[c].at = "mark"
  /\ row' = [f \in Files |-> IF f \in cleaner[c].file /\ row[f].state = "active"
                             THEN [row[f] EXCEPT !.state = "deleted"] ELSE row[f]]
  /\ cleaner' = [cleaner EXCEPT ![c] = [@ EXCEPT !.at = "unlink", !.file = {}]]
  /\ UNCHANGED <<disk, today, client, stops>>

EndPass(c) ==
  /\ cleaner[c].at = "unlink" /\ cleaner[c].todo = {}
  /\ cleaner' = [cleaner EXCEPT ![c] = Idle]
  /\ UNCHANGED <<disk, row, today, client, stops>>

\* The process dies, or a file cannot be deleted: the rest of the list waits
\* for another pass.
Stop(c) ==
  /\ cleaner[c].at # "idle" /\ stops < MaxStops
  /\ cleaner' = [cleaner EXCEPT ![c] = Idle]
  /\ stops' = stops + 1
  /\ UNCHANGED <<disk, row, today, client>>

NextDay ==
  /\ today < LastDay
  /\ today' = today + 1
  /\ UNCHANGED <<disk, row, cleaner, client, stops>>

Clean(c) ==
  \/ ListExpired(c) \/ MarkDeleted(c) \/ EndPass(c)
  \/ \E f \in Files : Skip(c, f) \/ Unlink(c, f)

Next ==
  \/ \E f \in Files : Write(f)
  \/ \E c \in Clients, f \in Files : ReadManifest(c, f) \/ CheckFile(c, f)
  \/ \E c \in Clients : ReplaceManifest(c) \/ Register(c)
  \/ \E c \in Cleaners : Clean(c) \/ Stop(c)
  \/ NextDay

Spec == Init /\ [][Next]_vars

\* Passes are started again and again (an operator schedules them), and a pass
\* goes on unless its process dies.
FairSpec == Spec /\ \A c \in Cleaners : WF_vars(Clean(c))

-----------------------------------------------------------------------------
(* Properties.                                                              *)

\* An upload whose row says deleted is not on disk, whichever of the passes and
\* registrations overlap and wherever a pass stops: nothing is left that no
\* later pass looks at.
DeletedUploadsAreGone ==
  \A f \in Uploads : row[f].state = "deleted" => f \notin disk

\* A file whose row has expired goes in the end, unless it is registered again,
\* although passes stop and other passes take files from under them; and so
\* does the row of a file that is gone.
ExpiredFilesGo ==
  \A f \in Files \ Foreign : Expired(f) ~> ~Expired(f)
=============================================================================
