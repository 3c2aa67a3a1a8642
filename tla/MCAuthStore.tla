----------------------------- MODULE MCAuthStore -----------------------------
(* A small instance of AuthStore for TLC.                                   *)
EXTENDS AuthStore, TLC

CONSTANTS a, b, old, new

E(u, role, on, p) == [user |-> u, role |-> role, enabled |-> on, password |-> p]

\* Files that hand the administration over in either order, that change a
\* password, that disable everybody, and that name one user twice.
MCImports ==
  {<<E(u, "viewer", TRUE, p), E(v, "admin", on, p)>> :
     u \in Users, v \in Users, p \in Passwords, on \in BOOLEAN}
  \cup {<<E(u, "admin", on, p)>> : u \in Users, p \in Passwords, on \in BOOLEAN}

MCSymmetry == Permutations(Sids)

\* The bootstrap administrator and one account of the former user file.
MCBootUsers == <<E(a, "admin", TRUE, old), E(b, "viewer", TRUE, old)>>
=============================================================================
