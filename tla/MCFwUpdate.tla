------------------------------- MODULE MCFwUpdate -------------------------------
(* Environments for FwUpdate *)
EXTENDS FwUpdate

\* Faults after which object 5 is still what its server may read
HarmlessFaults ==
  FaultKinds \ {"software", "interrupt", "dwlErase", "abortState", "errState", "outcome"}

\* Power losses after which no download is resumed over an installation
Losses == Writes \ {"dwlErase"}

AllFaults == FaultKinds
=================================================================================
