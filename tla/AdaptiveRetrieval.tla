-------------------------- MODULE AdaptiveRetrieval --------------------------
(***************************************************************************)
(* One question to the evidence API of a BookRAG store (routers/api.py): the*)
(* governed scope of documents (services/bookrag_document_metadata.py), the *)
(* searches of the current and the background track, ranking, diversity,    *)
(* coverage and the final selection                                         *)
(* (services/bookrag_adaptive_retrieval.py), the resolution of search rows  *)
(* to nodes (services/bookrag_retrieval.py), and the reply with the answer  *)
(* of a language model.                                                     *)
(*                                                                          *)
(* What a search returns is any sequence of rows its filter admits.  A row  *)
(* need not be in the node table: it stands for a node with its text, of its *)
(* own document if it carries the document's id, or it vanishes.            *)
(***************************************************************************)
EXTENDS DocumentGovernance, FiniteSetsExt, SequencesExt, TLC

CONSTANTS
  Nodes,           \* rows of the node table
  Strays,          \* rows of the vector store that the node table has not
  DocOf,           \* the document of a row
  SameText,        \* pairs of a row and a node with its content
  Date,            \* publication date of a document, if it has one, in months
  Name,            \* place of a document in the order of file names
  Series,          \* document series, or ""
  Role,            \* document role
  EligibleSeries,  \* series that may become background
  EligibleRoles,   \* roles that may become background
  Bonus,           \* role and series bonus, in units of Score
  Required,        \* terms that a planned facet requires
  Terms,           \* terms in the text of a node
  Size,            \* characters of the text of a node
  Facets,          \* planned facets, in order
  Discovered,      \* facets that discovery adds, in order
  Windows,         \* time scopes a question may name
  Requests,        \* numbers of packages a request may name
  Policy           \* bookrag_retrieval_policy.json

\* parse_temporal_scope: no condition, the newest quarter, or a set of months.
WindowType == [kind: {"latest_available", "latest_quarter", "dates"}, dates: SUBSET Nat]

\* Bounds that _parse_policy enforces.
PolicyType ==
  [per_track: 1..20, maximum_final: 1..100, rrf: Nat \ {0},
   semantic: Nat, freshness: Nat, keep: 0..20, fraction: Nat \X (Nat \ {0}),
   per_document: 1..20, minimum_packages: Nat \ {0}, minimum_documents: Nat \ {0},
   minimum_characters: Nat]

Stored == Nodes \cup Strays

ASSUME StoreAssumption ==
  /\ DocOf \in [Stored -> Docs]
  /\ Date \in [Docs -> Nat \ {0}] /\ Name \in [Docs -> Nat]
  /\ Bonus \in [Docs -> Nat] /\ Size \in [Nodes -> Nat]
  /\ \A d, e \in Docs : d # e => Name[d] # Name[e]
  /\ SameText \subseteq Stored \X Nodes
ASSUME PlanAssumption ==
  /\ Windows \subseteq WindowType
  /\ \A window \in Windows : window.kind = "dates" <=> window.dates # {}
  /\ Facets \in Seq(ToSet(Facets)) /\ Facets # <<>>
  /\ Discovered \in Seq(ToSet(Discovered))
  /\ Requests \subseteq Int
ASSUME PolicyAssumption ==
  /\ Policy \in PolicyType /\ Policy.fraction[1] <= Policy.fraction[2]

VARIABLES
  at,          \* how far the answer has come
  governed,    \* documents the view showed when the scope was read
  current,     \* documents of the current track
  background,  \* documents of the background track
  top_k,       \* packages the request asks for
  limit,       \* packages the answer may have
  facets,      \* facets that are still to be searched in this track
  found,       \* candidates of each track
  first,       \* rows of the first search
  coverage,    \* of the current evidence
  final,       \* the packages of the answer
  read         \* rows the language model answers from

answer == <<at, governed, current, background, top_k, limit, facets, found, first, coverage, final, read>>
vars == <<governance, answer>>

Tracks == {"current", "background"}
AllFacets == ToSet(Facets) \cup ToSet(Discovered)
MaxTopK == 20
Package == [node: Nodes, named: BOOLEAN, rank: Nat \ {0}, facets: SUBSET AllFacets]

\* The type invariant: ranks count from one.
TypeOK ==
  /\ GovernanceTypeOK
  /\ at \in {"asked", "searching", "discovered", "supplementing",
             "selecting", "selected", "answered", "refused"}
  /\ governed \subseteq Docs /\ current \subseteq Docs /\ background \subseteq Docs
  /\ top_k \in 0..MaxTopK /\ limit \in 0..Policy.maximum_final
  /\ ToSet(facets) \subseteq AllFacets
  /\ \A track \in Tracks : ToSet(found[track]) \subseteq Package
  /\ coverage \in [sufficient: BOOLEAN, missing: SUBSET AllFacets]
  /\ ToSet(final) \subseteq Package
  /\ first \subseteq Stored /\ read \subseteq Stored

NoCoverage == [sufficient |-> FALSE, missing |-> {}]

NothingFound == [track \in Tracks |-> <<>>]

Init ==
  /\ GovernanceInit
  /\ at = "asked" /\ governed = {}
  /\ current = {} /\ background = {}
  /\ top_k = 0 /\ limit = 0
  /\ facets = <<>> /\ found = NothingFound /\ first = {}
  /\ coverage = NoCoverage
  /\ final = <<>> /\ read = {}

\* Administrators change the documents until the scope is read.  What they do
\* later does not concern this answer.
Edit == /\ at = "asked" /\ Administer
        /\ UNCHANGED answer

-----------------------------------------------------------------------------
(* The scope.                                                               *)

\* The quarter of the newest governed document.
LatestQuarter ==
  LET newest == Max({Date[d] : d \in Governed})
  IN {d \in Governed : (Date[d] - 1) \div 3 = (newest - 1) \div 3}

\* fetch_effective_document_scope
InWindow(window) ==
  CASE window.kind = "latest_available" -> Governed
    [] window.kind = "latest_quarter" -> IF Governed = {} THEN {} ELSE LatestQuarter
    [] window.kind = "dates" -> {d \in Governed : Date[d] \in window.dates}

\* _document_is_background_eligible
Recurring(d) == Series[d] \in EligibleSeries \/ Role[d] \in EligibleRoles

\* Its series, or its role if it has none.
Group(d) == IF Series[d] # "" THEN <<"series", Series[d]>> ELSE <<"role", Role[d]>>

\* Mutant: the oldest documents are in front.
Older(d, scope) == {e \in scope : Recurring(e) /\ Group(e) = Group(d) /\ Date[e] < Date[d]}
\* Documents of its group in front of d: later ones, then by file name.
Newer(d, scope) ==
  {e \in scope : Recurring(e) /\ Group(e) = Group(d) /\
     (Date[e] > Date[d] \/ (Date[e] = Date[d] /\ Name[e] > Name[d]))}

\* partition_document_scope: the newest eligible documents of a group stay
\* current, the others are background.
Periodic(scope) ==
  {d \in scope : Recurring(d) /\ Cardinality(Newer(d, scope)) >= Policy.keep}

Between(low, high, n) == Max({low, Min({high, n})})
FinalLimit(requested) == Between(1, Policy.maximum_final, requested)

\* Without current documents the background ones take their place; without any
\* document, or without the table the view reads, the question is refused.
Scope(window, requested) ==
  /\ at = "asked" /\ op = Idle
  /\ LET scope == InWindow(window)
         older == Periodic(scope)
         none == scope = older
     IN /\ current' = IF none THEN older ELSE scope \ older
        /\ background' = IF none THEN {} ELSE older
        /\ at' = IF scope = {} \/ ~table THEN "refused" ELSE "searching"
  /\ top_k' = Between(1, MaxTopK, requested) /\ limit' = FinalLimit(top_k')
  /\ facets' = Facets /\ governed' = Governed
  /\ UNCHANGED <<governance, found, first, coverage, final, read>>

-----------------------------------------------------------------------------
(* Searches.                                                                *)

\* The filter doc_id IN docs.
Inside(docs) == {r \in Stored : DocOf[r] \in docs}

\* _resolve_match_node: with its document's id a row stands for itself or for a
\* node of that document with its content; without one, for a node of another
\* document with its content.
Own(r) == ({r} \cap Nodes) \cup {n \in Nodes : <<r, n>> \in SameText /\ DocOf[n] = DocOf[r]}
Others(r) == {n \in Nodes : <<r, n>> \in SameText /\ DocOf[n] # DocOf[r]}

\* What the rows of a filtered search may stand for, and those that stand for
\* nothing.
Hits(docs) ==
  UNION {{[from |-> r, node |-> n, named |-> TRUE] : n \in Own(r)}
           \cup {[from |-> r, node |-> n, named |-> FALSE] : n \in Others(r)} : r \in Inside(docs)}
Unmatched(docs) == {r \in Inside(docs) : Own(r) \cup Others(r) = {}}

\* No row comes twice; two rows may stand for one node.
Results(docs) ==
  UNION {{hits \in [1..k -> Hits(docs)] : IsInjective([i \in 1..k |-> hits[i].from])} :
           k \in 0..Policy.per_track}

\* Mutant: ranks are positions from zero.
MarkFromZero(hits, facet) ==
  [i \in 1..Len(hits) |-> [node |-> hits[i].node, named |-> hits[i].named,
                           rank |-> i - 1, facets |-> {facet}]]
\* _mark_candidates
Mark(hits, facet) ==
  [i \in 1..Len(hits) |-> [node |-> hits[i].node, named |-> hits[i].named,
                           rank |-> i, facets |-> {facet}]]

Search(track, docs, hits, lost) ==
  /\ facets # <<>> /\ hits \in Results(docs) /\ lost \subseteq Unmatched(docs)
  /\ Len(hits) + Cardinality(lost) <= Policy.per_track
  /\ found' = [found EXCEPT ![track] = @ \o Mark(hits, Head(facets))]
  /\ facets' = Tail(facets)

RowsOf(hits, lost) == {hit.from : hit \in ToSet(hits)} \cup lost

SearchCurrent(hits, lost) ==
  /\ at \in {"searching", "discovered"} /\ Search("current", current, hits, lost)
  /\ first' = IF at = "searching" /\ facets = Facets THEN RowsOf(hits, lost) ELSE first
  /\ UNCHANGED <<governance, at, governed, current, background, top_k, limit, coverage, final, read>>

\* discover_facets_from_candidates: titles of what was found become facets of
\* their own, if the question asks for each of something.
Discover(more) ==
  /\ at = "searching" /\ facets = <<>>
  /\ more => found["current"] # <<>>
  /\ at' = "discovered"
  /\ facets' = IF more THEN Discovered ELSE <<>>
  /\ UNCHANGED <<governance, governed, current, background, top_k, limit, found, first, coverage, final, read>>

-----------------------------------------------------------------------------
(* Ranking and selection.                                                   *)

Merge(p, q) == [p EXCEPT !.rank = Min({@, q.rank}), !.facets = @ \cup q.facets]

See(seen, p) ==
  IF \E q \in ToSet(seen) : q.node = p.node
  THEN [i \in 1..Len(seen) |-> IF seen[i].node = p.node THEN Merge(seen[i], p) ELSE seen[i]]
  ELSE Append(seen, p)

\* _combine_candidates: one package for each node, in the order of first sight.
Combine(packages) == FoldLeft(See, <<>>, packages)

DocumentOf(p) == DocOf[p.node]

\* Distinct newer dates among the candidates, and one.
Freshness(p, candidates) ==
  1 + Cardinality({d \in {Date[DocumentOf(q)] : q \in ToSet(candidates)} :
                     d > Date[DocumentOf(p)]})

\* Weights are tenths, scores count in 1e-5.
Share(weight, rank) == (10000 * weight) \div (Policy.rrf + rank)

Score(p, candidates, fresh) ==
  Share(Policy.semantic, p.rank) + Bonus[DocumentOf(p)]
    + (IF fresh THEN Share(Policy.freshness, Freshness(p, candidates)) ELSE 0)

Key(candidates, fresh, i) ==
  LET p == candidates[i]
  IN <<Score(p, candidates, fresh), Date[DocumentOf(p)], -p.rank, -i>>

Before(candidates, fresh, i, j) ==
  \E k \in 1..4 : /\ Key(candidates, fresh, i)[k] > Key(candidates, fresh, j)[k]
                  /\ \A l \in 1..(k - 1) : Key(candidates, fresh, i)[l] = Key(candidates, fresh, j)[l]

Place(candidates, fresh, i) ==
  1 + Cardinality({j \in DOMAIN candidates : Before(candidates, fresh, j, i)})

\* rerank_packages: a stable sort by score, date and rank.
Rerank(packages, fresh) ==
  LET candidates == Combine(packages)
  IN [k \in DOMAIN candidates |->
        candidates[CHOOSE i \in DOMAIN candidates : Place(candidates, fresh, i) = k]]

OfDocument(packages, d) == {i \in DOMAIN packages : DocumentOf(packages[i]) = d}

TakeUp(room, selected, p) ==
  IF \/ selected # <<>> /\ Len(selected) >= room
     \/ Cardinality(OfDocument(selected, DocumentOf(p))) >= Policy.per_document
  THEN selected ELSE Append(selected, p)

\* diversify_packages
Diversify(packages, room) ==
  FoldLeft(LAMBDA selected, p : TakeUp(room, selected, p), <<>>, packages)

\* The nodes of packages, the facets their text answers, and its length.
NodesOf(packages) == {p.node : p \in ToSet(packages)}
Text(nodes) == [terms |-> UNION {Terms[n] : n \in nodes},
                size |-> MapThenSumSet(LAMBDA n : Size[n], nodes)]

\* evaluate_evidence_coverage: discovered facets require no terms.
Cover(packages) ==
  LET nodes == NodesOf(packages)
      missing == {f \in ToSet(Facets) : ~(Required[f] \subseteq Text(nodes).terms)}
  IN [missing |-> missing,
      sufficient |-> /\ missing = {}
                     /\ Len(packages) >= Policy.minimum_packages
                     /\ Cardinality({DocOf[n] : n \in nodes}) >= Policy.minimum_documents
                     /\ Text(nodes).size >= Policy.minimum_characters]

RankedCurrent == Rerank(found["current"], TRUE)

LeaveOpen(missing, open, f) == IF f \in missing THEN Append(open, f) ELSE open

OpenFacets(missing) == FoldLeft(LAMBDA fs, f : LeaveOpen(missing, fs, f), <<>>, Facets)

\* Background is searched for the missing facets, or for all of the plan.
BackgroundFacets(missing, extended) ==
  LET open == OpenFacets(missing)
  IN IF open # <<>> THEN open
     ELSE IF extended THEN Facets \o Discovered ELSE Facets

Evaluate(extended) ==
  /\ at = "discovered" /\ facets = <<>>
  /\ coverage' = Cover(Diversify(RankedCurrent, limit))
  /\ at' = IF coverage'.sufficient \/ background = {} THEN "selecting" ELSE "supplementing"
  /\ facets' = IF at' = "selecting" THEN <<>> ELSE BackgroundFacets(coverage'.missing, extended)
  /\ UNCHANGED <<governance, governed, current, background, top_k, limit, found, first, final, read>>

SearchBackground(hits, lost) ==
  /\ at = "supplementing" /\ Search("background", background, hits, lost)
  /\ at' = IF facets' = <<>> THEN "selecting" ELSE at
  /\ UNCHANGED <<governance, governed, current, background, top_k, limit, first, coverage, final, read>>

\* round(): halves go to the even number.
Rounded(n, d) ==
  LET q == n \div d IN
  IF 2 * (n % d) > d \/ (2 * (n % d) = d /\ q % 2 = 1) THEN q + 1 ELSE q

MaximumBackground == Max({1, Rounded(limit * Policy.fraction[1], Policy.fraction[2])})

\* Mutant: every place may go to the background.
CapacityOfAll(ranked) == limit
\* A place is kept for the current documents if they have anything.
Capacity(ranked) == IF ranked = <<>> THEN limit ELSE limit - 1

\* Current packages take the places that background leaves.
PlacesLeft(supplement) == limit - Len(supplement)

Select ==
  /\ at = "selecting"
  /\ LET ranked == RankedCurrent
         others == Rerank(found["background"], FALSE)
         supplement ==
           IF others # <<>> /\ (limit > 1 \/ ranked = <<>>)
           THEN Diversify(others, Min({MaximumBackground, Capacity(ranked)}))
           ELSE <<>>
     IN final' = Combine(Diversify(ranked, PlacesLeft(supplement)) \o supplement)
  /\ at' = "selected"
  /\ UNCHANGED <<governance, governed, current, background, top_k, limit, facets, found, first, coverage, read>>

-----------------------------------------------------------------------------
(* The reply.                                                               *)

First(n, packages) == SubSeq(packages, 1, Min({n, Len(packages)}))

\* The evidence of the reply, and what its answer cites.
Shown == First(top_k, final)
Cited == First(3, Shown)

\* What a search for exactly these nodes may return.
Lock(packages) == SUBSET NodesOf(packages)

\* response_similarity_result: the last search is confined to the nodes of the
\* answer.  Without packages there is no last search, and the rows of the first
\* one stay.
ResponseRows == IF final # <<>> THEN Lock(final) ELSE {first}

\* The language model answers from these rows.
Answer(rows) ==
  /\ at = "selected" /\ rows \in ResponseRows
  /\ read' = rows /\ at' = "answered"
  /\ UNCHANGED <<governance, governed, current, background, top_k, limit, facets, found, first, coverage, final>>

\* A search, the reading of nodes or the language model fails.
Refuse ==
  /\ at \in {"searching", "discovered", "supplementing", "selected"}
  /\ at' = "refused" /\ governed' = {} /\ current' = {} /\ background' = {}
  /\ top_k' = 0 /\ limit' = 0 /\ facets' = <<>> /\ found' = NothingFound /\ first' = {}
  /\ coverage' = NoCoverage /\ final' = <<>> /\ read' = {}
  /\ UNCHANGED governance

Next ==
  \/ Edit
  \/ \E window \in Windows, requested \in Requests : Scope(window, requested)
  \/ \E hits \in Results(current), lost \in SUBSET Unmatched(current) : SearchCurrent(hits, lost)
  \/ \E hits \in Results(background), lost \in SUBSET Unmatched(background) : SearchBackground(hits, lost)
  \/ \E more \in BOOLEAN : Discover(more) \/ Evaluate(more)
  \/ Select \/ (\E rows \in SUBSET Stored : Answer(rows)) \/ Refuse

Spec == Init /\ [][Next]_vars

-----------------------------------------------------------------------------
(* Properties.                                                              *)

Answered == at \in {"selected", "answered"}
Selected(track) == {p \in ToSet(final) : DocumentOf(p) \in (IF track = "current" THEN current ELSE background)}
AllNamed == \A track \in Tracks : \A p \in ToSet(found[track]) : p.named

\* A package of another document than the governed ones, or of the other track,
\* comes only from a row without a document id; without such packages the
\* language model reads of governed documents only, also when the answer is
\* empty.  And what an administrator entered decides about the scope: no
\* auto-fill brings back a document he put under review.
EvidenceInScope ==
  /\ ManualValuesStay
  /\ \A p \in ToSet(final) : p.named => DocumentOf(p) \in governed
  /\ \A track \in Tracks : \A p \in ToSet(found[track]) :
       p.named => DocumentOf(p) \in (IF track = "current" THEN current ELSE background)
  /\ (\A p \in ToSet(final) : p.named) => \A r \in read : DocOf[r] \in governed

\* Periodic documents only supplement: what is in the background is older than
\* what was kept of its series or role, none of it is used when the current evidence
\* is sufficient, it never takes more than its share, nor the last place of
\* the current documents.
BackgroundSupplements ==
  /\ Policy.keep > 0 => \A d \in background : \E e \in current :
       Group(e) = Group(d) /\ Date[e] >= Date[d]
  /\ Answered /\ AllNamed =>
       /\ Selected("background") # {} => ~coverage.sufficient
       /\ Cardinality(Selected("background")) <= MaximumBackground
       /\ found["current"] # <<>> => Selected("current") # {}

\* The answer holds at most limit packages, each node once and no document
\* more often than the policy allows; a candidate of the current track is left
\* out only if the answer is full or its document is.  All of it is shown: the
\* limit that the policy sets never exceeds what the request asks for.  The
\* language model reads, and the answer cites, nothing that is not shown, as long
\* as anything is: without evidence it is given the rows of the first search.
SelectionIsComplete ==
  Answered =>
    /\ Len(final) <= limit
    /\ IsInjective([i \in DOMAIN final |-> final[i].node])
    /\ AllNamed =>
         /\ \A d \in Docs : Cardinality(OfDocument(final, d)) <= Policy.per_document
         /\ Len(final) < limit =>
              \A p \in ToSet(found["current"]) :
                \/ \E q \in ToSet(final) : q.node = p.node
                \/ Cardinality(OfDocument(final, DocumentOf(p))) = Policy.per_document
    /\ Shown = final
    /\ final # <<>> => read \cup NodesOf(Cited) \subseteq NodesOf(Shown)
=============================================================================
