---------------------------- MODULE MCCsvWorkflow ----------------------------
(* Small instances of CsvWorkflow for TLC.                                  *)
EXTENDS CsvWorkflow, TLC

CONSTANTS b1, b2, m1

\* Two BookRAG runs that compete for the same tables.
MCTwoBookRag == [r \in {b1, b2} |-> "bookrag"]
\* One run, whose profile may be pointed elsewhere.
MCOneMultiFormat == m1 :> "multi_format"
=============================================================================
