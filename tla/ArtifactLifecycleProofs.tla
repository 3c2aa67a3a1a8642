----------------------- MODULE ArtifactLifecycleProofs -----------------------
(***************************************************************************)
(* Proofs about ArtifactLifecycle, for every number of files, requests and   *)
(* overlapping cleaning passes: the types, and that an upload whose row says  *)
(* deleted is not on disk.                                                   *)
(***************************************************************************)
EXTENDS ArtifactLifecycle, FiniteSetTheorems, TLAPS

-----------------------------------------------------------------------------
(* Types.                                                                    *)

\* The types without what a pass knows of the rows it works on.
Shapes ==
  /\ disk \subseteq Files
  /\ row \in [Files -> RowType]
  /\ today \in 0..LastDay
  /\ cleaner \in [Cleaners -> CleanerType]
  /\ client \in [Clients -> ClientType]
  /\ stops \in 0..MaxStops

\* A pass that has unlinked a file still has to mark that one.
MarksOne ==
  \A c \in Cleaners : cleaner[c].at = "mark" => \E f \in Files : cleaner[c].file = {f}

\* A pass works on files that were registered once.
WorksOnRegistered ==
  \A c \in Cleaners : \A f \in cleaner[c].todo \cup cleaner[c].file : row[f].state # "none"

\* One action of the requests, the jobs or the passes.
Act ==
  \/ \E f \in Files : Write(f)
  \/ \E c \in Clients, f \in Files : ReadManifest(c, f) \/ CheckFile(c, f)
  \/ \E c \in Clients : ReplaceManifest(c) \/ Register(c)
  \/ \E c \in Cleaners : ListExpired(c) \/ MarkDeleted(c) \/ EndPass(c) \/ Stop(c)
  \/ \E c \in Cleaners, f \in Files : Skip(c, f) \/ Unlink(c, f)
  \/ NextDay

LEMMA NextIsAct == Next => Act
BY Zenon DEF Next, Act, Clean

\* Every step keeps the shapes.
LEMMA ShapesStep ==
  ASSUME Shapes, [Next]_vars
  PROVE  Shapes'
<1> USE DEF Shapes
<1>1. ASSUME NEW f \in Files, Write(f) PROVE Shapes'
  BY <1>1 DEF Write
<1>2. ASSUME NEW c \in Clients, NEW f \in Files, ReadManifest(c, f) \/ CheckFile(c, f)
      PROVE  Shapes'
  <2>1. /\ Expiry \in 0..(LastDay + Retention) /\ 0 \in 0..(LastDay + Retention)
        /\ \A at \in {"rewrite", "checked"}, expires \in 0..(LastDay + Retention) :
             [at |-> at, file |-> {f}, expires |-> expires] \in ClientType
    BY DaysAssumption DEF ClientType, Expiry
  <2>2. client' \in [Clients -> ClientType]
    BY <1>2, <2>1 DEF ReadManifest, CheckFile
  <2>3. QED
    BY <1>2, <2>2 DEF ReadManifest, CheckFile
<1>3. ASSUME NEW c \in Clients, ReplaceManifest(c) \/ Register(c) PROVE Shapes'
  <2>1. Resting \in ClientType
    BY DaysAssumption DEF Resting, ClientType
  <2>2. client' \in [Clients -> ClientType] /\ client[c].file \subseteq Files
        /\ client[c].expires \in 0..(LastDay + Retention)
    BY <1>3, <2>1 DEF ReplaceManifest, Register, ClientType
  <2>3. [state |-> "active", expires |-> client[c].expires] \in RowType
    BY <2>2 DEF RowType
  <2>4. QED
    BY <1>3, <2>2, <2>3 DEF ReplaceManifest, Register
<1>4. ASSUME NEW c \in Cleaners, ListExpired(c) \/ EndPass(c) \/ Stop(c) PROVE Shapes'
  <2>1. /\ Idle \in CleanerType
        /\ [at |-> "unlink", todo |-> {f \in Files : Expired(f)}, file |-> {}] \in CleanerType
    BY DEF Idle, CleanerType
  <2>2. cleaner' \in [Cleaners -> CleanerType]
    BY <1>4, <2>1 DEF ListExpired, EndPass, Stop
  <2>3. QED
    BY <1>4, <2>2, DaysAssumption DEF ListExpired, EndPass, Stop
<1>5. ASSUME NEW c \in Cleaners, MarkDeleted(c) PROVE Shapes'
  <2>1. cleaner' \in [Cleaners -> CleanerType]
    BY <1>5 DEF MarkDeleted, CleanerType
  <2>2. \A f \in Files : [row[f] EXCEPT !.state = "deleted"] \in RowType
    BY DEF RowType
  <2>3. QED
    BY <1>5, <2>1, <2>2 DEF MarkDeleted
<1>6. ASSUME NEW c \in Cleaners, NEW f \in Files, Skip(c, f) \/ Unlink(c, f) PROVE Shapes'
  <2>1. cleaner' \in [Cleaners -> CleanerType]
    BY <1>6 DEF Skip, Unlink, CleanerType
  <2>2. QED
    BY <1>6, <2>1 DEF Skip, Unlink
<1>7. ASSUME NextDay PROVE Shapes'
  BY <1>7, DaysAssumption DEF NextDay
<1>8. ASSUME UNCHANGED vars PROVE Shapes'
  BY <1>8 DEF vars
<1>9. QED
  BY <1>1, <1>2, <1>3, <1>4, <1>5, <1>6, <1>7, <1>8, NextIsAct DEF Act

\* A row, once there, is there for good.
LEMMA RowsStay ==
  ASSUME Shapes, [Next]_vars, NEW f \in Files, row[f].state # "none"
  PROVE  row'[f].state # "none"
<1>1. ASSUME NEW c \in Clients, Register(c) PROVE row'[f].state # "none"
  BY <1>1 DEF Register
<1>2. ASSUME NEW c \in Cleaners, MarkDeleted(c) PROVE row'[f].state # "none"
  BY <1>2 DEF MarkDeleted, Shapes, RowType
<1>3. CASE row' = row
  BY <1>3
<1>4. QED
  BY <1>1, <1>2, <1>3, NextIsAct
     DEF Act, Write, ReadManifest, CheckFile, ReplaceManifest, ListExpired, EndPass, Stop,
         Skip, Unlink, NextDay, vars

\* What a pass has in hand comes from the table of artifacts, file by file.
LEMMA PassesStep ==
  ASSUME Shapes, MarksOne, WorksOnRegistered, [Next]_vars
  PROVE  MarksOne' /\ WorksOnRegistered'
<1> DEFINE InHand(c) == cleaner[c].todo \cup cleaner[c].file
<1>1. \A c \in Cleaners : InHand(c) \subseteq Files
  BY DEF Shapes, CleanerType
<1>2. ASSUME NEW c \in Cleaners, cleaner'[c] = cleaner[c] \/ cleaner'[c] = Idle
      PROVE  /\ cleaner'[c].at = "mark" => \E f \in Files : cleaner'[c].file = {f}
             /\ \A f \in cleaner'[c].todo \cup cleaner'[c].file : row'[f].state # "none"
  BY <1>1, <1>2, RowsStay DEF MarksOne, WorksOnRegistered, Idle
<1>3. ASSUME NEW c \in Cleaners,
             ListExpired(c) \/ MarkDeleted(c) \/ \E f \in Files : Skip(c, f) \/ Unlink(c, f)
      PROVE  /\ cleaner'[c].at = "mark" => \E f \in Files : cleaner'[c].file = {f}
             /\ \A f \in cleaner'[c].todo \cup cleaner'[c].file :
                  f \in InHand(c) \/ (f \in Files /\ row[f].state # "none")
             /\ \A e \in Cleaners : e # c => cleaner'[e] = cleaner[e]
  <2>1. CASE ListExpired(c)
    BY <2>1 DEF ListExpired, Expired, Shapes
  <2>2. CASE MarkDeleted(c)
    BY <2>2 DEF MarkDeleted, Shapes, CleanerType
  <2>3. ASSUME NEW f \in Files, Skip(c, f)
        PROVE  /\ cleaner'[c].at = "unlink"
               /\ cleaner'[c].todo \cup cleaner'[c].file \subseteq InHand(c)
               /\ \A e \in Cleaners : e # c => cleaner'[e] = cleaner[e]
    BY <2>3 DEF Skip, Shapes, CleanerType
  <2>4. ASSUME NEW f \in Files, Unlink(c, f)
        PROVE  /\ cleaner'[c].file = {f}
               /\ cleaner'[c].todo \cup cleaner'[c].file \subseteq InHand(c)
               /\ \A e \in Cleaners : e # c => cleaner'[e] = cleaner[e]
    BY <2>4 DEF Unlink, Shapes, CleanerType
  <2>5. QED
    BY <1>3, <2>1, <2>2, <2>3, <2>4
<1>4. ASSUME NEW c \in Cleaners,
             ListExpired(c) \/ MarkDeleted(c) \/ \E f \in Files : Skip(c, f) \/ Unlink(c, f)
      PROVE  MarksOne' /\ WorksOnRegistered'
  <2>1. \A f \in cleaner'[c].todo \cup cleaner'[c].file : row'[f].state # "none"
    BY <1>1, <1>3, <1>4, RowsStay DEF WorksOnRegistered
  <2>2. QED
    BY <1>2, <1>3, <1>4, <2>1 DEF MarksOne, WorksOnRegistered
<1>5. ASSUME NEW c \in Cleaners, EndPass(c) \/ Stop(c) PROVE MarksOne' /\ WorksOnRegistered'
  <2>1. cleaner' = [cleaner EXCEPT ![c] = Idle]
    BY <1>5 DEF EndPass, Stop
  <2>2. \A e \in Cleaners : cleaner'[e] = cleaner[e] \/ cleaner'[e] = Idle
    BY <2>1 DEF Shapes
  <2>3. QED
    BY <1>2, <2>2 DEF MarksOne, WorksOnRegistered
<1>6. CASE cleaner' = cleaner
  BY <1>2, <1>6 DEF MarksOne, WorksOnRegistered
<1>7. QED
  BY <1>4, <1>5, <1>6, NextIsAct
     DEF Act, Write, ReadManifest, CheckFile, ReplaceManifest, Register, NextDay, vars

-----------------------------------------------------------------------------
(* The type invariant.                                                       *)

Typed == Shapes /\ MarksOne /\ WorksOnRegistered

LEMMA TypedAlways == Spec => []Typed
<1>1. Init => Typed
  <2>1. ASSUME Init PROVE Shapes
    <3>1. /\ Idle \in CleanerType /\ Resting \in ClientType
          /\ 0 \in 0..(LastDay + Retention) /\ 0 \in 0..LastDay /\ 0 \in 0..MaxStops
      BY DaysAssumption DEF Idle, CleanerType, Resting, ClientType
    <3>2. QED
      BY <2>1, <3>1, FilesAssumption DEF Init, Shapes, RowType
  <2>2. Init => MarksOne /\ WorksOnRegistered
    BY DEF Init, MarksOne, WorksOnRegistered, Idle
  <2>3. QED
    BY <2>1, <2>2 DEF Typed
<1>2. Typed /\ [Next]_vars => Typed'
  BY ShapesStep, PassesStep DEF Typed
<1>3. QED
  BY <1>1, <1>2, PTL DEF Spec

\* What requests, jobs and passes hold has its type, and a pass works only on files
\* that were registered once.
THEOREM TypeCorrect == Spec => []TypeOK
<1>1. Typed => TypeOK
  BY FS_Singleton DEF Typed, Shapes, MarksOne, WorksOnRegistered, TypeOK
<1>2. QED
  BY <1>1, TypedAlways, PTL

-----------------------------------------------------------------------------
(* Deleted uploads are gone.                                                 *)

\* What a job has read, and will write again, is a manifest.
RewritesManifests ==
  \A c \in Clients : client[c].at = "rewrite" => client[c].file \subseteq Manifests

\* The upload a pass is about to mark is not on disk, and nobody puts it back: its path
\* is registered, so it is not new, and it is no manifest.
MarkedUploadsAreGone ==
  \A c \in Cleaners : cleaner[c].at = "mark" =>
    \A f \in cleaner[c].file \cap Uploads : f \notin disk

\* The invariant that is inductive: no matter how many passes have the same file.
Gone == RewritesManifests /\ MarkedUploadsAreGone /\ DeletedUploadsAreGone

\* A file comes to disk only as a new path or as a manifest.
LEMMA OnlyNewOrManifest ==
  ASSUME Typed, RewritesManifests, [Next]_vars,
         NEW f \in Uploads, f \notin disk, row[f].state # "none"
  PROVE  f \notin disk'
<1>1. ASSUME NEW g \in Files, Write(g) PROVE f \notin disk'
  BY <1>1 DEF Write
<1>2. ASSUME NEW c \in Clients, ReplaceManifest(c) PROVE f \notin disk'
  BY <1>2, FilesAssumption DEF ReplaceManifest, RewritesManifests
<1>3. CASE disk' \subseteq disk
  BY <1>3
<1>4. QED
  BY <1>1, <1>2, <1>3, NextIsAct
     DEF Act, ReadManifest, CheckFile, Register, ListExpired, EndPass, Stop, MarkDeleted,
         Skip, Unlink, NextDay, vars

LEMMA RewritesStep ==
  ASSUME Typed, RewritesManifests, [Next]_vars
  PROVE  RewritesManifests'
<1>1. client \in [Clients -> ClientType]
  BY DEF Typed, Shapes
<1>2. ASSUME NEW c \in Clients, NEW f \in Files, ReadManifest(c, f) \/ CheckFile(c, f)
      PROVE  RewritesManifests'
  BY <1>1, <1>2 DEF ReadManifest, CheckFile, RewritesManifests
<1>3. ASSUME NEW c \in Clients, ReplaceManifest(c) \/ Register(c) PROVE RewritesManifests'
  BY <1>1, <1>3 DEF ReplaceManifest, Register, RewritesManifests, Resting
<1>4. CASE client' = client
  BY <1>4 DEF RewritesManifests
<1>5. QED
  BY <1>2, <1>3, <1>4, NextIsAct
     DEF Act, Write, ListExpired, EndPass, Stop, MarkDeleted, Skip, Unlink, NextDay, vars

\* A pass that marks an upload has just taken it from the disk itself.
LEMMA MarkedStep ==
  ASSUME Typed, RewritesManifests, MarkedUploadsAreGone, [Next]_vars
  PROVE  MarkedUploadsAreGone'
<1> DEFINE GoneFor(c) == cleaner[c].at = "mark" =>
                           \A f \in cleaner[c].file \cap Uploads : f \notin disk
<1>0. cleaner \in [Cleaners -> CleanerType]
  BY DEF Typed, Shapes
<1>1. ASSUME NEW c \in Cleaners, cleaner'[c] = cleaner[c] PROVE GoneFor(c)'
  <2>1. ASSUME cleaner[c].at = "mark", NEW f \in cleaner[c].file \cap Uploads
        PROVE  f \notin disk'
    <3>1. f \notin disk /\ row[f].state # "none"
      BY <2>1 DEF MarkedUploadsAreGone, Typed, WorksOnRegistered
    <3>2. QED
      BY <3>1, OnlyNewOrManifest
  <2>2. QED
    BY <1>1, <2>1
<1>2. ASSUME NEW c \in Cleaners, cleaner'[c].at # "mark" PROVE GoneFor(c)'
  BY <1>2
<1>3. ASSUME NEW c \in Cleaners, NEW f \in Files, Unlink(c, f) PROVE MarkedUploadsAreGone'
  <2>1. GoneFor(c)'
    BY <1>0, <1>3 DEF Unlink
  <2>2. \A e \in Cleaners : e # c => cleaner'[e] = cleaner[e]
    BY <1>0, <1>3 DEF Unlink
  <2>3. QED
    BY <1>1, <2>1, <2>2 DEF MarkedUploadsAreGone
<1>4. ASSUME NEW c \in Cleaners,
             ListExpired(c) \/ MarkDeleted(c) \/ EndPass(c) \/ Stop(c)
               \/ \E f \in Files : Skip(c, f)
      PROVE  MarkedUploadsAreGone'
  <2>1. \A e \in Cleaners : e # c => cleaner'[e] = cleaner[e]
    BY <1>0, <1>4 DEF ListExpired, MarkDeleted, EndPass, Stop, Skip
  <2>2. cleaner'[c].at # "mark"
    <3>1. ASSUME ListExpired(c) \/ EndPass(c) \/ Stop(c) PROVE cleaner'[c].at # "mark"
      BY <1>0, <3>1 DEF ListExpired, EndPass, Stop, Idle
    <3>2. ASSUME MarkDeleted(c) PROVE cleaner'[c].at # "mark"
      BY <1>0, <3>2 DEF MarkDeleted, CleanerType
    <3>3. ASSUME NEW f \in Files, Skip(c, f) PROVE cleaner'[c].at # "mark"
      BY <1>0, <3>3 DEF Skip, CleanerType
    <3>4. QED
      BY <1>4, <3>1, <3>2, <3>3
  <2>3. QED
    BY <1>1, <1>2, <2>1, <2>2 DEF MarkedUploadsAreGone
<1>5. CASE cleaner' = cleaner
  BY <1>1, <1>5 DEF MarkedUploadsAreGone
<1>6. QED
  BY <1>3, <1>4, <1>5, NextIsAct
     DEF Act, Write, ReadManifest, CheckFile, ReplaceManifest, Register, NextDay, vars

\* A row becomes deleted by the pass that has taken the file from the disk.
LEMMA DeletedStep ==
  ASSUME Typed, Gone, [Next]_vars
  PROVE  DeletedUploadsAreGone'
<1> SUFFICES ASSUME NEW f \in Uploads, row'[f].state = "deleted" PROVE f \notin disk'
  BY DEF DeletedUploadsAreGone
<1>0. f \in Files /\ row \in [Files -> RowType]
  BY DEF Files, Typed, Shapes
<1>1. CASE row[f].state = "deleted"
  BY <1>1, OnlyNewOrManifest DEF Gone, DeletedUploadsAreGone
<1>2. CASE row[f].state # "deleted"
  <2>1. \E c \in Cleaners : MarkDeleted(c) /\ f \in cleaner[c].file
    <3>1. ASSUME NEW c \in Cleaners, MarkDeleted(c) PROVE f \in cleaner[c].file
      BY <1>0, <1>2, <3>1 DEF MarkDeleted
    <3>2. ASSUME NEW c \in Clients, Register(c) PROVE FALSE
      BY <1>0, <1>2, <3>2 DEF Register
    <3>3. row' # row
      BY <1>2
    <3>4. QED
      BY <3>1, <3>2, <3>3, NextIsAct
         DEF Act, Write, ReadManifest, CheckFile, ReplaceManifest, ListExpired, EndPass, Stop,
             Skip, Unlink, NextDay, vars
  <2>2. PICK c \in Cleaners : MarkDeleted(c) /\ f \in cleaner[c].file
    BY <2>1
  <2>3. f \notin disk /\ disk' = disk
    BY <2>2 DEF MarkDeleted, Gone, MarkedUploadsAreGone
  <2>4. QED
    BY <2>3
<1>3. QED
  BY <1>1, <1>2

\* Whichever passes, registrations and rewritten manifests overlap, and wherever a pass
\* stops, an upload whose row says deleted is not on disk.
THEOREM NothingLeftBehind == Spec => []DeletedUploadsAreGone
<1>1. Init => Gone
  BY DEF Init, Gone, RewritesManifests, MarkedUploadsAreGone, DeletedUploadsAreGone, Idle,
         Resting, Files
<1>2. Typed /\ Gone /\ [Next]_vars => Gone'
  BY RewritesStep, MarkedStep, DeletedStep DEF Gone
<1>3. Gone => DeletedUploadsAreGone
  BY DEF Gone
<1>4. QED
  BY <1>1, <1>2, <1>3, TypedAlways, PTL DEF Spec

=============================================================================
