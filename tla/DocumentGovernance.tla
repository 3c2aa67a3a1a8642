------------------------- MODULE DocumentGovernance -------------------------
(***************************************************************************)
(* The governance of the documents of a BookRAG store: publication metadata *)
(* (services/bookrag_document_metadata.py), relations between documents     *)
(* (services/bookrag_document_relations.py), the view of effective          *)
(* documents (services/bookrag_schema.py), and the requests of              *)
(* administrators that change them (routers/web.py).                        *)
(*                                                                          *)
(* Each request is a series of SQL statements that are committed one by one *)
(* and any of which may fail; requests do not overlap, because their        *)
(* handlers never await between two statements.                             *)
(***************************************************************************)
EXTENDS Integers, FiniteSets, Sequences

CONSTANTS
  Docs,            \* documents of the store
  Derived,         \* what the rules find out about a document
  Statuses,        \* statuses the policy admits to retrieval
  Keys,            \* relations anybody may ask for: <<from, type, to>>
  Values,          \* metadata an administrator may enter
  MaxEdits         \* bound on requests

VARIABLES
  meta,            \* metadata columns of the documents
  table,           \* whether the relation table exists
  relations,       \* keys of its rows
  op,              \* the request under way
  said,            \* what an administrator last entered for a document
  edits            \* requests so far

governance == <<meta, table, relations, op, said, edits>>

MetaType == [dated: BOOLEAN, source: {"none", "content", "filename", "manual"},
             status: {"none", "confirmed", "review", "missing"}]

ASSUME GovernanceAssumption ==
  /\ IsFiniteSet(Docs) /\ MaxEdits \in Nat
  /\ Derived \in [Docs -> MetaType] /\ Values \subseteq MetaType
  /\ \A d \in Docs : Derived[d].source # "manual"
  /\ \A v \in Values : v.source = "manual"

\* Columns added to a table of an earlier version are empty.
Unfilled == [dated |-> FALSE, source |-> "none", status |-> "none"]
NoEntry == [dated |-> FALSE, source |-> "none", status |-> "missing"]
Idle == [kind |-> "idle", rows |-> <<>>, stage |-> "write"]

GovernanceInit ==
  /\ meta \in {Derived, [d \in Docs |-> Unfilled]}
  /\ table \in BOOLEAN
  /\ relations = {} /\ op = Idle /\ edits = 0
  /\ said = [d \in Docs |-> NoEntry]

-----------------------------------------------------------------------------
(* The retrieval view.                                                      *)

Obsolete(d) == \E k \in relations : k[2] = "updates" /\ k[3] = d

\* The rows of the view: dated documents that no other one updates.
Effective == {d \in Docs : meta[d].dated /\ ~Obsolete(d)}

\* Those whose metadata has a status the policy admits.
Governed == {d \in Effective : meta[d].status \in Statuses}

-----------------------------------------------------------------------------
(* Requests.                                                                *)

Begin(kind, rows) ==
  /\ op = Idle /\ edits < MaxEdits
  /\ op' = [kind |-> kind, rows |-> rows, stage |-> "write"]
  /\ edits' = edits + 1

\* A row is done; the request ends after the last one.
Advance ==
  op' = IF Len(op.rows) > 1 THEN [op EXCEPT !.rows = Tail(@), !.stage = "write"] ELSE Idle

\* A statement fails: the request ends with what it has written.
Fail ==
  /\ op # Idle /\ op' = Idle
  /\ UNCHANGED <<meta, table, relations, said, edits>>

Distinct(values) == \A i, j \in DOMAIN values : i # j => values[i] # values[j]

\* validate_document_metadata_import_rows: every document known, none twice.
ValidValues(rows) ==
  /\ \A i \in DOMAIN rows : rows[i].doc \in Docs
  /\ Distinct([i \in DOMAIN rows |-> rows[i].doc])

\* The form is an import of one row.
EnterValues(rows) ==
  /\ ValidValues(rows) /\ Begin("values", rows)
  /\ UNCHANGED <<meta, table, relations, said>>

WriteValues ==
  /\ op.kind = "values"
  /\ LET row == Head(op.rows) IN
       /\ meta' = [meta EXCEPT ![row.doc] = row.value]
       /\ said' = [said EXCEPT ![row.doc] = row.value]
  /\ Advance
  /\ UNCHANGED <<table, relations, edits>>

\* Mutant: every document is filled.
FillsAll == Docs
\* backfill_document_metadata leaves out what was entered by hand.
Fills == {d \in Docs : meta[d].source # "manual"}

Autofill(order) ==
  /\ order \in [1..Len(order) -> Fills] /\ Distinct(order) /\ Fills = {order[i] : i \in DOMAIN order}
  /\ order # <<>> /\ Begin("fill", [i \in DOMAIN order |-> [doc |-> order[i]]])
  /\ UNCHANGED <<meta, table, relations, said>>

WriteFill ==
  /\ op.kind = "fill"
  /\ LET d == Head(op.rows).doc IN meta' = [meta EXCEPT ![d] = Derived[d]]
  /\ Advance
  /\ UNCHANGED <<table, relations, said, edits>>

\* initialize_document_relations_admin
Initialize ==
  /\ op = Idle /\ ~table /\ Docs # {} /\ table' = TRUE
  /\ UNCHANGED <<meta, relations, op, said, edits>>

\* validate_document_relations: known documents, not one with itself, no
\* relation twice.
ValidRelations(rows) ==
  /\ \A i \in DOMAIN rows : LET k == rows[i].key IN
       /\ {k[1], k[3]} \subseteq Docs /\ k[1] # k[3]
  /\ Distinct([i \in DOMAIN rows |-> rows[i].key])

\* The form names the relation it replaces, an import replaces nothing.
EnterRelations(rows) ==
  /\ ValidRelations(rows) /\ Begin("relations", rows)
  /\ UNCHANGED <<meta, table, relations, said>>

\* Mutant: the old row makes room for the new one first.
DeleteFirst ==
  /\ op.kind = "relations" /\ op.stage = "write" /\ table' = TRUE
  /\ LET row == Head(op.rows) IN
       IF row.key # row.original /\ row.key \in relations
       THEN op' = Idle /\ UNCHANGED relations
       ELSE IF row.original \in relations \ {row.key}
       THEN op' = op /\ relations' = relations \ {row.original}
       ELSE Advance /\ relations' = relations \cup {row.key}
  /\ UNCHANGED <<meta, said, edits>>
\* save_document_relation: a key that is there is updated in place, one that
\* another row would be renamed to is refused, a new one is inserted before
\* the old one is deleted.
SaveRelation ==
  /\ op.kind = "relations" /\ op.stage = "write" /\ table' = TRUE
  /\ LET row == Head(op.rows) IN
       IF row.key # row.original /\ row.key \in relations
       THEN op' = Idle /\ UNCHANGED relations
       ELSE /\ relations' = relations \cup {row.key}
            /\ IF row.original \in relations \ {row.key}
               THEN op' = [op EXCEPT !.stage = "delete"] ELSE Advance
  /\ UNCHANGED <<meta, said, edits>>

DeleteOriginal ==
  /\ op.kind = "relations" /\ op.stage = "delete"
  /\ relations' = relations \ {Head(op.rows).original}
  /\ Advance
  /\ UNCHANGED <<meta, table, said, edits>>

DeleteRelation(key) ==
  /\ op = Idle /\ edits < MaxEdits /\ table
  /\ relations' = relations \ {key} /\ edits' = edits + 1
  /\ UNCHANGED <<meta, table, op, said>>

\* Files and forms: up to two rows.
Entries == UNION {[1..n -> [doc: Docs, value: Values]] : n \in 1..2}
Imports == UNION {[1..n -> {[key |-> k, original |-> k] : k \in Keys}] : n \in 1..2}
Edits == {<<[key |-> k, original |-> o]>> : k \in Keys, o \in Keys}

Administer ==
  \/ \E rows \in Entries : EnterValues(rows)
  \/ \E n \in 1..Cardinality(Docs) : \E order \in [1..n -> Docs] : Autofill(order)
  \/ \E rows \in Imports \cup Edits : EnterRelations(rows)
  \/ \E key \in Keys : DeleteRelation(key)
  \/ Initialize \/ WriteValues \/ WriteFill \/ SaveRelation \/ DeleteOriginal \/ Fail

-----------------------------------------------------------------------------
(* Properties.                                                              *)

GovernanceTypeOK ==
  /\ meta \in [Docs -> MetaType] /\ said \in [Docs -> MetaType]
  /\ table \in BOOLEAN /\ relations \subseteq Keys /\ edits \in 0..MaxEdits
  /\ op.kind \in {"idle", "values", "fill", "relations"} /\ op.stage \in {"write", "delete"}
  /\ op = Idle <=> op.rows = <<>>

\* What an administrator entered stands until he enters something else, and
\* decides whether the document may be used
\* (docs/bookrag_latest_document_governance.md: manual values are preserved by
\* later auto-fill runs).
ManualValuesStay ==
  \A d \in Docs : said[d].source = "manual" => meta[d] = said[d]

\* A relation goes only when it is deleted by request, or when the one that
\* replaces it is stored: no failure between the statements of an edit loses
\* it, and no moment of an edit shows an obsolete document as effective.
RelationsAreNotLost ==
  [][\A k \in relations \ relations' :
       \/ op = Idle
       \/ Head(op.rows).original = k /\ Head(op.rows).key \in relations']_governance
=============================================================================
