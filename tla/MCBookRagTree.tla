---------------------------- MODULE MCBookRagTree ----------------------------
(* Small instances of BookRagTree for TLC.  MCElements has at least one        *)
(* heading for every early return of the parent rules, leaves of no, one and   *)
(* more segments (with overlaps, a segment over the limit, a cut word), pages  *)
(* that go forward and back, and ids that may repeat.                          *)
EXTENDS BookRagTree

MCHeading(family, level, depth) ==
  [kind |-> "section", id |-> NoId, page |-> 0, family |-> family, level |-> level,
   depth |-> depth, attachment |-> FALSE, text |-> <<1>>, items |-> <<>>, relations |-> <<>>]
MCLeaf(id, page, text) ==
  [kind |-> "leaf", id |-> id, page |-> page, family |-> NoId, level |-> 0, depth |-> 0,
   attachment |-> FALSE, text |-> text, items |-> <<>>, relations |-> <<>>]
MCHeader(id) == [MCLeaf(id, 2, <<>>) EXCEPT !.kind = "dropped"]

\* "1 acme" is a numbered "acme"; "1acme", which differs from it by a space, is
\* a name of its own; "ORG" only names a type; "2026" is a date; nothing is left of "(1)".
MCNames == {"acme", "1 acme", "1acme", "2026", "(1)", "ORG"}
MCTypes == {"ORG", "PRODUCT", "UNKNOWN", "DATE"}
MCDated == {"DATE"}
MCNormal == [n \in MCNames |-> IF n = "1 acme" THEN "acme" ELSE IF n = "(1)" THEN NoName ELSE n]
MCCompact == [n \in MCNames |-> IF n = "1 acme" THEN "1acme" ELSE n]
MCLabels == [t \in MCTypes |-> {"ORG"}]
MCGuess == [n \in MCNames |-> IF n = "2026" THEN "DATE" ELSE "UNKNOWN"]
Item(name, type) == [name |-> name, type |-> type]
Owns(from, to) == [from |-> from, by |-> "owns", to |-> to]

\* Its second relation makes an entity of its own for "acme", which the first
\* and, where "acme" is not ambiguous before, the third refer to.
MCRelations == <<Owns("acme", "2026"), Owns("1 acme", "acme"), Owns("acme", "2026"),
                 [Owns("acme", "2026") EXCEPT !.by = "files"], Owns("1acme", "ORG")>>

MCElements ==
  LET m == CHOOSE f \in Major : TRUE
      g == CHOOSE f \in Group : TRUE
      n == CHOOSE f \in Enum : TRUE
      a == CHOOSE i \in Ids : TRUE
  IN {MCHeading(m, 1, 0), MCHeading(g, 3, 0), MCHeading(n, 3, 0),
      MCHeading(Generic, 0, 0), MCHeading(Generic, 1, 1),
      [MCHeading(g, 3, 2) EXCEPT !.attachment = TRUE],
      [MCHeading(m, 2, 0) EXCEPT !.id = a, !.page = 3, !.items = <<Item("1 acme", "ORG")>>,
                                 !.relations = MCRelations],
      [MCHeading(n, 3, 0) EXCEPT !.id = a, !.page = 1, !.relations = <<Owns("1 acme", "2026"), Owns("2026", "(1)"), Owns("1acme", "1 acme")>>],
      [MCLeaf(a, 2, <<2, 0, 1>>) EXCEPT !.items = <<Item("acme", "ORG"), Item("1acme", "ORG")>>,
                                          !.relations = <<Owns("1acme", "acme")>>],
      [MCLeaf(NoId, 2, <<1, 0, 7, 2, 2>>) EXCEPT !.items = <<Item("acme", "PRODUCT"), Item("ORG", "ORG")>>],
      MCLeaf(NoId, 1, <<>>), MCHeader(a)}
     \cup {[MCLeaf(b, 2, <<1, 3, 0, 1>>) EXCEPT !.items = <<Item("1acme", "PRODUCT")>>,
                                             !.relations = MCRelations] : b \in Ids \ {a}}
=============================================================================
