-------------------------- MODULE MCSessionRuntime --------------------------
(* Small instances of SessionRuntime for TLC.  Sessions and hosts may be      *)
(* exchanged; profiles may not, their ids are compared.                      *)
EXTENDS SessionRuntime, TLC

MCProfiles == 1 .. 2
MCSymmetry == Permutations(Sessions) \cup Permutations(Hosts)
=============================================================================
