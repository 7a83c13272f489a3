-------------------------------- MODULE Object5 --------------------------------
(***************************************************************************)
(* What the firmware update object promises to a server that reads its     *)
(* state (/5/0/3) and its result (/5/0/5): the states and the results of    *)
(* src/include/lwm2mcore/update.h, in the order of the FOTA sequence of     *)
(* src/doc/lwm2mcore.dox.                                                  *)
(***************************************************************************)
CONSTANT DownloadErrors    \* the results that tell why a download failed

VARIABLES
  state,     \* resource 3
  result,    \* resource 5
  due        \* an installation has ended and its result is not shown yet

vars == <<state, result, due>>

Init == state = "IDLE" /\ result = "NORMAL" /\ due = FALSE

\* A new URL forgets the previous update
NewPackage ==
  /\ state' = "IDLE" /\ result' = "NORMAL" /\ due' = FALSE

\* The update is given up, its last result stays
Abandon ==
  /\ state' = "IDLE" /\ due' = FALSE /\ UNCHANGED result

Start ==
  /\ state = "IDLE" /\ result = "NORMAL" /\ ~due
  /\ state' = "DOWNLOADING" /\ UNCHANGED <<result, due>>

Fail ==
  /\ state \in {"IDLE", "DOWNLOADING"} /\ ~due
  /\ result' \in DownloadErrors /\ UNCHANGED <<state, due>>

\* A download that failed may be resumed
Retry ==
  /\ state = "DOWNLOADING"
  /\ result' = "NORMAL" /\ UNCHANGED <<state, due>>

\* Only a download without an error ends in DOWNLOADED
Complete ==
  /\ state = "DOWNLOADING" /\ result = "NORMAL"
  /\ state' = "DOWNLOADED" /\ UNCHANGED <<result, due>>

Update ==
  /\ state = "DOWNLOADED" /\ result = "NORMAL"
  /\ state' = "UPDATING" /\ UNCHANGED <<result, due>>

EndUpdate ==
  /\ state = "UPDATING" /\ result = "NORMAL"
  /\ state' = "IDLE" /\ due' = TRUE /\ UNCHANGED result

\* The result of an installation is shown once, and only after UPDATING
Report ==
  /\ due /\ result' \in {"INSTALLED_SUCCESSFUL", "INSTALL_FAILURE"}
  /\ due' = FALSE /\ UNCHANGED state

Next == \/ NewPackage \/ Abandon \/ Start \/ Fail \/ Retry \/ Complete
        \/ Update \/ EndUpdate \/ Report

Spec == Init /\ [][Next]_vars
=============================================================================
