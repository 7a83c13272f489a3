----------------------------- MODULE MCSession -----------------------------
(* Session for TLC.                                                         *)
EXTENDS Session

\* Every trouble but a clock that goes back, under which a session may begin in
\* silence.
AllButClock == FaultKinds \ {"clockBack"}
=============================================================================
