------------------------ MODULE MCAdaptiveRetrieval ------------------------
(* Small instances of AdaptiveRetrieval for TLC.                            *)
EXTENDS AdaptiveRetrieval

\* Three issues of a periodic series, whose dates stand in their text, and one
\* document without a series, whose date was taken from its file name; the middle
\* issue and the other document share a passage.  Of the last issue the vector
\* store has two rows from an earlier state of the node table: the content of
\* one is in a node of today, that of the other is not.
CONSTANTS april, may, june, spot, gone, a1, m1, j1, j2, s1, j0, z0, f1, x1, t1

MCDocs == {april, may, june, spot}
MCDerived ==
  [d \in MCDocs |-> [dated |-> TRUE,
     source |-> IF d = spot THEN "filename" ELSE "content",
     status |-> IF d = spot THEN "review" ELSE "confirmed"]]
MCValues == {[dated |-> TRUE, source |-> "manual", status |-> status] : status \in {"confirmed", "review"}}
\* A cycle of updates, one relation that does not concern the view, and two
\* that are never accepted.
MCKeys == {<<june, "updates", may>>, <<may, "updates", june>>, <<spot, "updates", may>>,
           <<june, "next_issue_of", may>>, <<may, "updates", may>>, <<gone, "updates", spot>>}

MCNodes == {a1, m1, j1, j2, s1}
MCStrays == {j0, z0}
MCDocOf == a1 :> april @@ m1 :> may @@ j1 :> june @@ j2 :> june @@ s1 :> spot
             @@ j0 :> june @@ z0 :> june
MCSameText == {<<s1, m1>>, <<j0, j2>>}
MCDate == april :> 4 @@ may :> 5 @@ june :> 6 @@ spot :> 3
MCName == april :> 0 @@ may :> 1 @@ june :> 2 @@ spot :> 3
MCSeries == april :> "monthly" @@ may :> "monthly" @@ june :> "monthly" @@ spot :> ""
MCRole == [d \in MCDocs |-> IF d = spot THEN "brief" ELSE "report"]
MCBonus == april :> 600 @@ may :> 600 @@ june :> 600 @@ spot :> 1200
MCRequired == f1 :> {t1}
MCTerms == a1 :> {} @@ m1 :> {t1} @@ j1 :> {t1} @@ j2 :> {} @@ s1 :> {t1}
MCSize == a1 :> 1 @@ m1 :> 2 @@ j1 :> 2 @@ j2 :> 1 @@ s1 :> 1
MCFacets == <<f1>>
MCDiscovered == <<x1>>
MCWindows == {[kind |-> "latest_available", dates |-> {}], [kind |-> "latest_quarter", dates |-> {}],
              [kind |-> "dates", dates |-> {5}]}

\* The shipped share of background is 2/5; with 4/5 the place kept for current
\* documents matters too.
MCPolicy == [per_track |-> 2, maximum_final |-> 4, rrf |-> 60,
             semantic |-> 10, freshness |-> 5, keep |-> 1, fraction |-> <<4, 5>>,
             per_document |-> 1, minimum_packages |-> 2, minimum_documents |-> 2,
             minimum_characters |-> 3]

\* Once the scope is read nothing depends on how the documents got there, and
\* once a row has become a package nothing depends on the first rows.
MCView ==
  <<IF at = "asked" THEN governance ELSE <<>>,
    IF found["current"] = <<>> THEN first ELSE {},
    at, governed, current, background, top_k, limit, facets, found, coverage, final, read>>
=============================================================================
