-------------------------- MODULE MCDocumentParsing --------------------------
(* Small instances of DocumentParsing for TLC.                              *)
EXTENDS DocumentParsing

\* An empty output, elements with text, and one whose first element has none.
MCPayloads == {<<>>, <<TRUE>>, <<FALSE, TRUE>>}
=============================================================================
