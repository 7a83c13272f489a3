-------------------------- MODULE MCConfiguration --------------------------
(* Configuration for TLC.                                                   *)
EXTENDS Configuration

\* What may happen without breaking the invariants.
Usual == {"badWrite", "upgrade", "shrinkTorn"}
=============================================================================
