----------------------------- MODULE MCJobQueue -----------------------------
(* Small instances of JobQueue for TLC.                                     *)
EXTENDS JobQueue

\* A value below the range of progress, one inside and one above it.
MCReports == {-5, 50, 120}
=============================================================================
