------------------------- MODULE MCArtifactLifecycle -------------------------
(* Small instances of ArtifactLifecycle for TLC.                            *)
EXTENDS ArtifactLifecycle

\* Model values, declared here so that two configurations can share them.
CONSTANTS u1, m1, f1, c1, c2, w1, w2
=============================================================================
