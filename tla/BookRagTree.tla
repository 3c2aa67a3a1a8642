----------------------------- MODULE BookRagTree -----------------------------
(***************************************************************************)
(* How one parsed document becomes the rows of a BookRAG dataset: blocks and  *)
(* the node tree (services/bookrag_tree.py), entities, links and relations    *)
(* (services/bookrag_graph.py), and the validation that precedes the CSV      *)
(* files (services/bookrag_integrity.py), in the order of                     *)
(* _build_bookrag_rows_from_raw_elements (services/multi_format.py).          *)
(*                                                                           *)
(* The environment hands over elements one at a time; an element says what    *)
(* the classifiers (regular expressions over its text, type and HTML) make of *)
(* it, what its text measures, and which entities and relations the parsing   *)
(* service found in it.  Blocks are built together with their nodes: nodes    *)
(* read no later block.  Two node ids, which are hashes, are equal exactly    *)
(* when what is hashed is equal.                                              *)
(***************************************************************************)
EXTENDS Naturals, LeafSegments, EntityRegistry

CONSTANTS
  Major, Group, Enum,  \* families of headings, as the section rules list them
  Generic,             \* the family of any other heading
  Ids,                 \* element ids the parsing service gives
  NoId,                \* no id, or no heading family
  Elements,            \* what may occur in a document
  MaxElements,         \* bound: elements of a document
  GraphEnabled         \* whether entities were asked for

Families == Major \cup Group \cup Enum \cup {Generic}
Kinds == {"dropped", "section", "leaf"}

\* A level, depth or page of 0 is one the element does not carry.
ElementType ==
  [kind: Kinds, id: Ids \cup {NoId}, page: Nat, family: Families \cup {NoId}, level: Nat,
   depth: Nat, attachment: BOOLEAN, text: Seq(Nat), items: Seq([name: Names, type: Types]),
   relations: Seq([from: Names, by: {"owns", "files"}, to: Names])]

ASSUME ElementsAssumption ==
  \A e \in Elements :
    /\ e \in ElementType
    /\ e.kind = "section" => e.family \in Families
    /\ e.kind = "section" /\ e.level = 0 => e.depth = 0 /\ e.family = Generic
ASSUME IdsAssumption == NoId \notin Ids \cup Families /\ Ids \cap Nat = {}
ASSUME BoundAssumption == MaxElements \in Nat /\ MaxElements < 10000 /\ GraphEnabled \in BOOLEAN

VARIABLES
  raw,       \* the elements read so far
  nodes,     \* the bnode rows; the first is the document
  stack,     \* section_stack: places in nodes, innermost last
  lastPage,  \* last_page
  phase,     \* which part of the build is running, or how it ended
  registry,  \* the bent rows and what they are called
  todo,      \* links and relations that still look for their section
  walk,      \* the one that is looking, or the empty sequence
  at,        \* _nearest_section_node's current: a place in nodes
  links,     \* the belnk rows
  relations, \* the brel rows
  place      \* how many relations of the element have been looked at

vars == <<raw, nodes, stack, lastPage, phase, registry, todo, walk, at, links, relations, place>>
tree == <<raw, nodes, stack, lastPage>>
graph == <<registry, todo, walk, at, links, relations, place>>

LastIn(S) == IF S = {} THEN 0 ELSE CHOOSE k \in S : \A j \in S : j <= k
Larger(a, b) == IF a < b THEN b ELSE a

ElementId(e, n) == IF e.id = NoId THEN n ELSE e.id
SegmentId(eid, segment) == <<0, segment>> \* Mutant: the element is not hashed.
NodeId(eid, segment) == <<eid, segment>>
RootId == NodeId(0, 0)
Root == [id |-> RootId, parent |-> NodeId(NoId, 0), element |-> NoId, kind |-> "document",
         family |-> NoId, level |-> 0, ordinal |-> 0, first |-> 1, last |-> 1, content |-> <<>>]

\* The section at place k of the stack; below all of them lies the document.
Open(k) == IF k = 0 THEN nodes[1] ELSE nodes[stack[k]]
OpenSections == 1 .. Len(stack)

\* What becomes of the stack when a heading arrives: the sections that stay
\* open, the one it goes under, and its level.
Plan(keep, parent, level) == [keep |-> keep, parent |-> parent, level |-> level]
ByLevel(level) ==
  LET k == LastIn({j \in OpenSections : Open(j).level < level})
  IN Plan(k, k, level)
UnderAny(level) == ByLevel(level) \* Mutant: any section of a smaller level will do.
UnderMajor(level) ==
  LET k == LastIn({j \in OpenSections : Open(j).family \in Major /\ Open(j).level < level})
  IN Plan(k, k, level)
Under(k) == Plan(LastIn({j \in OpenSections : Open(j).id = Open(k).id}), k, Open(k).level + 1)
Innermost(families) == LastIn({j \in OpenSections : Open(j).family \in families})

BaseLevel(e) ==
  IF e.level > 0 THEN e.level ELSE IF stack = <<>> THEN 1 ELSE Open(Len(stack)).level + 1

\* The early returns of _resolve_section_parent, in their order.
ResolvedParent(e) ==
  LET level == BaseLevel(e)
      major == Innermost(Major)
      enum == Innermost(Enum)
      byDepth == e.depth > 0 /\ \/ e.family = Generic /\ e.depth = level
                                \/ e.family \in Group /\ e.attachment
  IN IF e.family \in Major THEN UnderMajor(level)
     ELSE IF e.family \in Enum /\ major # 0 THEN Under(major)
     ELSE IF byDepth THEN ByLevel(e.depth)
     ELSE IF e.family \in Group /\ major # 0 THEN Under(major)
     ELSE IF e.family = Generic /\ enum # 0 THEN Under(enum)
     ELSE ByLevel(level)

PageOf(e) == IF e.page > 0 THEN e.page ELSE lastPage

\* The document and the open sections reach as far as the page now read.
Reaching(page) ==
  [i \in DOMAIN nodes |->
     IF i = 1 \/ \E k \in OpenSections : stack[k] = i
     THEN [nodes[i] EXCEPT !.last = Larger(@, page)] ELSE nodes[i]]

NewNode(e, parent, segment, ordinal, level, content) ==
  [id |-> NodeId(ElementId(e, Len(raw) + 1), segment), parent |-> parent.id,
   element |-> ElementId(e, Len(raw) + 1), kind |-> e.kind,
   family |-> IF e.kind = "section" THEN e.family ELSE NoId,
   level |-> level, ordinal |-> ordinal, first |-> PageOf(e), last |-> PageOf(e),
   content |-> content]

Cut == [e \in Elements |-> Segments(e.text)]

\* A whole block is segment 0; the pieces of a cut one count from 1.
Pieces(e, parent) ==
  LET n == Len(raw) + 1
      level == parent.level + 1
      segments == Cut[e]
  IN IF Len(segments) = 1 THEN <<NewNode(e, parent, 0, n, level, segments[1])>>
     ELSE [i \in DOMAIN segments |-> NewNode(e, parent, i, n * 10000 + i, level, segments[i])]

Read(e) == phase = "reading" /\ Len(raw) < MaxElements /\ raw' = Append(raw, e)
Idle == UNCHANGED phase /\ UNCHANGED graph

\* Running headers, and containers without visible content: no block, no node.
Drop(e) ==
  /\ e.kind = "dropped"
  /\ Read(e)
  /\ UNCHANGED <<nodes, stack, lastPage>> /\ Idle

AddSection(e) ==
  /\ e.kind = "section"
  /\ Read(e)
  /\ LET p == ResolvedParent(e)
     IN /\ nodes' = Append(Reaching(PageOf(e)),
                           NewNode(e, Open(p.parent), 0, Len(raw) + 1, p.level, Units(e.text)))
        /\ stack' = Append(SubSeq(stack, 1, p.keep), Len(nodes) + 1)
  /\ lastPage' = PageOf(e)
  /\ Idle

AddLeaf(e) ==
  /\ e.kind = "leaf"
  /\ Read(e)
  /\ nodes' = Reaching(PageOf(e)) \o Pieces(e, Open(Len(stack)))
  /\ lastPage' = PageOf(e)
  /\ UNCHANGED stack /\ Idle

\* nodes_by_source_element: an element without an id of its own has no nodes there.
LinkedNodes(e) == {i \in DOMAIN nodes : e.id # NoId /\ nodes[i].element = e.id}
PrimaryNode(e) == {i \in LinkedNodes(e) : \A j \in LinkedNodes(e) : nodes[i].ordinal <= nodes[j].ordinal}

MentionedBy(e) == UNION {EntityFor(e.items[i].name, e.items[i].type) : i \in DOMAIN e.items}

\* The entities made by the mentions before item i of element n, and what the
\* mentions of the element add to the names.
MadeBefore(n, i) ==
  UNION {MentionedBy(raw[m]) : m \in 1 .. n - 1}
  \cup UNION {EntityFor(raw[n].items[j].name, raw[n].items[j].type) : j \in 1 .. i - 1}
NamedBy(n) ==
  UNION {Entered(MadeBefore(n, i), raw[n].items[i].name, raw[n].items[i].type) : i \in DOMAIN raw[n].items}

\* Links first, then relations, each in the order of the elements.  A relation's
\* section is looked up before it is known whether the element has any.
LinkWalks ==
  UNION {{<<1, n, i>> : i \in LinkedNodes(raw[n])} : n \in {m \in DOMAIN raw : MentionedBy(raw[m]) # {}}}
RelationWalks == UNION {{<<2, n, i>> : i \in PrimaryNode(raw[n])} : n \in DOMAIN raw}
Before(v, w) ==
  \/ v[1] < w[1]
  \/ v[1] = w[1] /\ v[2] < w[2]
  \/ v[1] = w[1] /\ v[2] = w[2] /\ nodes[v[3]].ordinal <= nodes[w[3]].ordinal

\* Nothing that files links reads the names: all mentions are entered here.
EndDocument ==
  /\ phase = "reading"
  /\ phase' = IF GraphEnabled THEN "linking" ELSE "validating"
  /\ IF GraphEnabled
     THEN todo' = LinkWalks \cup RelationWalks /\ registry' = UNION {NamedBy(n) : n \in DOMAIN raw}
     ELSE UNCHANGED <<todo, registry>>
  /\ UNCHANGED <<walk, at, links, relations, place>> /\ UNCHANGED tree

BeginWalk ==
  /\ phase = "linking" /\ walk = <<>>
  /\ \E w \in todo :
       /\ \A v \in todo : Before(w, v)
       /\ walk' = w /\ at' = w[3]
       /\ todo' = todo \ {w}
  /\ UNCHANGED <<phase, registry, links, relations, place>> /\ UNCHANGED tree

\* node_map: of several nodes with one id, the last.
NodeNamed(id) == LastIn({i \in DOMAIN nodes : nodes[i].id = id})

WalkUp ==
  /\ phase = "linking" /\ walk # <<>>
  /\ nodes[at].kind = "leaf"
  /\ at' = NodeNamed(nodes[at].parent)
  /\ UNCHANGED <<phase, registry, todo, walk, links, relations, place>> /\ UNCHANGED tree

\* A walk ends at a section, or at the document, which counts as none.
SectionAt == IF nodes[at].kind = "section" THEN at ELSE 0

EndLinkWalk ==
  /\ phase = "linking" /\ walk # <<>> /\ walk[1] = 1
  /\ nodes[at].kind # "leaf"
  /\ links' = links \cup [ordinal : {walk[2]}, node : {walk[3]}, section : {SectionAt},
                          entity : MentionedBy(raw[walk[2]])]
  /\ walk' = <<>> /\ at' = 1
  /\ UNCHANGED <<phase, registry, todo, relations, place>> /\ UNCHANGED tree

Stated == raw[walk[2]].relations

\* Both ends are found or made, or there is no row; what was made stays.
\* A relation the element has stated before is not looked at again.
AddRelation ==
  /\ phase = "linking" /\ walk # <<>> /\ walk[1] = 2
  /\ nodes[at].kind # "leaf"
  /\ place < Len(Stated)
  /\ place' = place + 1
  /\ LET r == Stated[place']
         from == EndOf(registry, r.from)
         between == After(registry, r.from)
     IN IF \/ \E row \in relations : row.ordinal = walk[2] /\ Stated[row.place] = r
           \/ from = {}
        THEN UNCHANGED <<registry, relations>>
        ELSE /\ registry' = After(between, r.to)
             /\ relations' = relations \cup
                  [ordinal : {walk[2]}, place : {place'}, node : {walk[3]}, section : {SectionAt},
                   from : from, to : EndOf(between, r.to)]
  /\ UNCHANGED <<phase, todo, walk, at, links>> /\ UNCHANGED tree

EndRelationWalk ==
  /\ phase = "linking" /\ walk # <<>> /\ walk[1] = 2
  /\ nodes[at].kind # "leaf"
  /\ place = Len(Stated)
  /\ walk' = <<>> /\ at' = 1 /\ place' = 0
  /\ UNCHANGED <<phase, registry, todo, links, relations>> /\ UNCHANGED tree

EndGraphEarly == \* Mutant: the last walk is not waited for.
  /\ phase = "linking" /\ todo = {}
  /\ phase' = "validating"
  /\ UNCHANGED tree /\ UNCHANGED graph

EndGraph ==
  /\ phase = "linking" /\ walk = <<>> /\ todo = {}
  /\ phase' = "validating"
  /\ UNCHANGED tree /\ UNCHANGED graph

Blocks == {n \in DOMAIN raw : raw[n].kind # "dropped"}
BlockId(n) == ElementId(raw[n], n)
BlockIds == {BlockId(n) : n \in Blocks}
NodeIds == {nodes[i].id : i \in DOMAIN nodes}

BlockKeysDiffer == \A m, n \in Blocks : BlockId(m) = BlockId(n) => m = n
NodeKeysDiffer == \A i, j \in DOMAIN nodes : nodes[i].id = nodes[j].id => i = j
TargetsExist ==
  /\ \A i \in DOMAIN nodes \ {1} : nodes[i].parent \in NodeIds /\ nodes[i].element \in BlockIds
  /\ \A l \in links : nodes[l.node].id \in NodeIds /\ l.entity \in EntitiesOf(registry)
  /\ \A r \in relations : /\ nodes[r.node].id \in NodeIds /\ BlockId(r.ordinal) \in BlockIds
                         /\ {r.from, r.to} \subseteq EntitiesOf(registry)

Validate ==
  /\ phase = "validating"
  /\ phase' = IF BlockKeysDiffer /\ NodeKeysDiffer /\ TargetsExist THEN "accepted" ELSE "rejected"
  /\ UNCHANGED tree /\ UNCHANGED graph

Init ==
  /\ raw = <<>> /\ nodes = <<Root>> /\ stack = <<>> /\ lastPage = 1
  /\ phase = "reading"
  /\ registry = {} /\ todo = {} /\ walk = <<>> /\ at = 1
  /\ links = {} /\ relations = {} /\ place = 0

Next ==
  \/ \E e \in Elements : Drop(e) \/ AddSection(e) \/ AddLeaf(e)
  \/ EndDocument \/ BeginWalk \/ WalkUp \/ EndLinkWalk \/ AddRelation \/ EndRelationWalk
  \/ EndGraph \/ Validate

\* The build is one function call: it goes on until it returns.
Spec == Init /\ [][Next]_vars /\ WF_vars(Next)

-----------------------------------------------------------------------------
Places == DOMAIN nodes
NodeType ==
  [id: (Nat \cup Ids) \X Nat, parent: (Nat \cup Ids \cup {NoId}) \X Nat,
   element: Nat \cup Ids \cup {NoId}, kind: {"document", "section", "leaf"},
   family: Families \cup {NoId}, level: Nat, ordinal: Nat, first: Nat \ {0}, last: Nat \ {0},
   content: Seq(Nat \X Nat)]
Entities == Names \X Types

\* The type invariant: the stack holds sections in the order they were read, a
\* row of the graph names a node, and a walk only goes on while the graph is built.
TypeOK ==
  /\ raw \in Seq(Elements) /\ Len(raw) <= MaxElements
  /\ nodes \in Seq(NodeType) /\ nodes # <<>>
  /\ stack \in Seq(Places)
  /\ \A k \in OpenSections : Open(k).kind = "section" /\ (k > 1 => stack[k - 1] < stack[k])
  /\ lastPage \in Nat \ {0}
  /\ phase \in {"reading", "linking", "validating", "accepted", "rejected"}
  /\ todo \subseteq (1 .. 2) \X (DOMAIN raw) \X Places
  /\ walk # <<>> => phase = "linking" /\ walk \in (1 .. 2) \X (DOMAIN raw) \X Places
  /\ at \in Places
  /\ registry \subseteq Names \X Entities
  /\ links \subseteq [ordinal: DOMAIN raw, node: Places, section: Places \cup {0},
                     entity: EntitiesOf(registry)]
  /\ place \in Nat /\ (place > 0 => walk # <<>>)
  /\ relations \subseteq [ordinal: DOMAIN raw, place: Nat, node: Places, section: Places \cup {0},
                         from: EntitiesOf(registry), to: EntitiesOf(registry)]

\* Where the parent a node names is found.
ParentOf(i) == NodeNamed(nodes[i].parent)

\* Each open section is the parent of the next and has a smaller level.
StackDescends ==
  \A k \in OpenSections \ {1} : /\ Open(k).parent = Open(k - 1).id
                               /\ Open(k - 1).level < Open(k).level

\* No chapter or numbered heading lies inside a bracketed, enumerated or plain
\* one, although those anchor themselves to it by rules of their own.
MajorsAreOutermost ==
  \A k \in OpenSections \ {1} : Open(k).family \in Major => Open(k - 1).family \in Major

\* The node rows are a preorder of the tree: what lies under a section follows it
\* without a gap, so that once a node is added outside, nothing is added inside.
SubtreesAreContiguous ==
  \A j, k \in Places \ {1} : j < k /\ ParentOf(k) < j => ParentOf(k) <= ParentOf(j)

\* A node's pages lie within its parent's: the end always, the beginning as long
\* as the pages of the document do not go back.
PagesNest ==
  LET forward == \A i, j \in Places \ {1} : i < j => nodes[i].first <= nodes[j].first
  IN \A i \in Places \ {1} :
       /\ nodes[i].last <= nodes[ParentOf(i)].last
       /\ forward => nodes[ParentOf(i)].first <= nodes[i].first

\* The rows of a leaf, which follow each other, hold its text: see LeafSegments for what that means of
\* pieces that overlap, may be over the limit, and cut long words.
LeavesHoldText ==
  \A n \in DOMAIN raw :
    LET rows == {i \in Places : nodes[i].kind = "leaf" /\ nodes[i].element = BlockId(n)}
        pieces == [k \in 1 .. Cardinality(rows) |-> nodes[Min(rows) + k - 1].content]
    IN raw[n].kind = "leaf" => (CoversText(raw[n].text, pieces) /\ LimitsText(pieces))

\* The section a link or relation is filed under, found by climbing the rows
\* after the whole tree was built, is the section that was open when its
\* element was read.
RowsKeepTheirSection ==
  \A l \in links \cup relations :
    l.section = LastIn({i \in Places : i <= l.node /\ nodes[i].kind = "section"})

\* In a document whose element ids differ, whatever headings come in whatever
\* order, popping to an anchor, popping by level and the depth hints never leave
\* the stack with a section above one it does not belong to; the rows nest as
\* the sections do, the graph rows are filed where they were read, and the rows
\* of a leaf hold its text however it is cut.
\* The rows are looked at when all are made; each beginning of a document is a
\* document.
RowsMirrorDocument ==
  /\ phase = "reading" => MajorsAreOutermost /\ (BlockKeysDiffer => StackDescends)
  /\ phase = "validating" /\ BlockKeysDiffer =>
       SubtreesAreContiguous /\ PagesNest /\ LeavesHoldText /\ RowsKeepTheirSection

\* The ends of the relations that have been looked up.
EndsOf(row) ==
  {[at |-> <<row.ordinal, row.place, 1>>, name |-> raw[row.ordinal].relations[row.place].from, entity |-> row.from],
   [at |-> <<row.ordinal, row.place, 2>>, name |-> raw[row.ordinal].relations[row.place].to, entity |-> row.to]}
Ends == UNION {EndsOf(row) : row \in relations}

\* Relations that name an end alike refer to one entity, although every relation
\* may add entities and names to those a name is looked up in, and none is taken
\* away.  There are two exceptions: an end that has become ambiguous gets an entity
\* of its own, and an end that was only found without its numbering goes to an
\* entity that by now has the name as it is written.
NamesKeepTheirEntity ==
  [][/\ registry \subseteq registry'
     /\ \A x \in Ends, y \in Ends' \ Ends :
          x.name = y.name =>
            \/ y.entity = x.entity
            \/ {y.entity} = EntityFor(y.name, Guess[y.name])
            \/ x.entity \notin Spelled(registry, x.name) /\ y.entity \in Spelled(registry', y.name)]_vars

\* The climb has come to a leaf that repeats the id of its heading: node_map
\* takes it for its own parent.
ClimbsForever == walk # <<>> /\ nodes[at].kind = "leaf" /\ ParentOf(at) = at

\* A document whose element ids differ is built, and the validator finds nothing
\* to reject in what the builders made: segments, fallback ids and parents never
\* clash.  One in which ids repeat is never accepted: it is rejected, except
\* that the graph of some is never finished, and this for one reason only.
BuildSucceeds ==
  <>(\/ phase = "accepted" /\ BlockKeysDiffer
     \/ (phase = "rejected" \/ ClimbsForever) /\ ~BlockKeysDiffer)
=============================================================================
