----------------------------- MODULE FwUpdateProofs -----------------------------
(***************************************************************************)
(* Proofs about module FwUpdate.  The types hold for every set of faults.  *)
(* Object 5 is implemented if object 9 is not used and the URL of a         *)
(* package that was downloaded is erased; the result of an installation is *)
(* reported if nothing interrupts it either.                               *)
(***************************************************************************)
EXTENDS FwUpdate, TLAPS

\* The URL of a package that was downloaded is erased, and is that of object 5
NoLostErase == Faults \cap {"software", "dwlErase"} = {}

\* The state follows a URL that is erased
NoLostUrl == NoLostErase /\ Faults \cap {"abortState", "errState"} = {}

\* The server waits for an update to end
NoInterrupt == NoLostErase /\ "interrupt" \notin Faults

\* An installation is not interrupted
NoLostOutcome == NoLostErase /\ Faults \cap {"interrupt", "outcome"} = {}

-----------------------------------------------------------------------------
(* Types *)

NewUrlWrites == {"abortInfo", "abortState", "clean", "init"}

\* The argument is a URL or an error, a URL has a type
ArgInv ==
  /\ pc \in NewUrlWrites => arg \in Urls \cup {NoUrl}
  /\ pc \in {"errState", "errResult"} => arg \in DownloadErrors
  /\ ws.url # NoUrl \/ pc \in {"clean", "init"} \/ (pc \in NewUrlWrites /\ arg # NoUrl)
       => ws.updateType # "NONE"

TypeInv == TypeOK /\ ArgInv

-----------------------------------------------------------------------------
(* Object 5 *)

\* No URL of a downloaded package is left
Quiet == pc # "dwlErase"

\* Only firmware packages are downloaded
FirmwareInv ==
  /\ ws.updateType # "SW"
  /\ thread # "SW" /\ (thread # "none" => FwType)
  /\ pc \in {"errState", "errResult"} => FwType

\* A stored URL is that of a package to be downloaded
UrlInv ==
  /\ ws.url # NoUrl /\ Quiet => ws.fwState \in {"IDLE", "DOWNLOADING"}
  /\ ws.url # NoUrl /\ Quiet /\ ~ws.sized => ws.fwState = "IDLE"
  /\ ws.fwState \in {"DOWNLOADED", "UPDATING"} => ws.fwResult = "NORMAL"

\* The timer and the thread belong to the stored URL
ThreadInv ==
  /\ timer => ws.fwState = "IDLE" /\ thread = "none"
  /\ thread # "none" /\ Quiet => ws.url # NoUrl /\ ws.sized
  /\ thread = "FW" /\ Quiet /\ pc # "dwlIdle"
       => ws.fwResult = "NORMAL" /\ (ws.fwState = "DOWNLOADING" \/ pc = "downloading")

\* What each of the next writes finds
WriteInv ==
  /\ pc \in {"abortState", "clean", "init", "errState", "errResult"}
       => ws.url = NoUrl /\ thread = "none"
  /\ pc \in {"clean", "init"} => arg # NoUrl
  /\ pc \in {"timerError", "sizeErase", "errResult", "outcome"} => ws.fwState = "IDLE"
  /\ pc = "outcome" => ws.fwResult = "NORMAL" /\ ws.url = NoUrl
  /\ pc \in {"timerError", "sizeErase"} => thread = "none"
  /\ pc \in {"downloading", "dwlIdle"}
       => ws.fwState \in {"IDLE", "DOWNLOADING"} /\ thread = "FW"
  /\ pc = "dwlErase" => ws.fwState \in {"IDLE", "DOWNLOADED"} /\ thread = "FW"

Object5Inv == TypeInv /\ FirmwareInv /\ UrlInv /\ ThreadInv /\ WriteInv

-----------------------------------------------------------------------------
(* The result of an installation *)

\* An installation is on-going, or its result is stored
InstallInv ==
  /\ pc = "accepted" => IsFwUpdateOnGoing
  /\ pc \in {"outcome", "reported"} => Installed
  /\ request = "installing" => IsFwUpdateOnGoing /\ Idle
  /\ Installed => /\ pc \in {"idle", "outcome", "reported"}
                  /\ ~online /\ ~timer /\ thread = "none"
                  /\ \/ pc = "idle" /\ IsFwUpdateOnGoing
                     \/ pc = "outcome"
                     \/ ws.fwState = "IDLE" /\ ws.fwResult = Outcome

-----------------------------------------------------------------------------
(* What lasts *)

\* A download loses its URL before its state in two calls only: AbortDownload and
\* SetDownloadError, which have the write of the state still to do
UrlLostInv ==
  ws.fwState = "DOWNLOADING" => FwType /\ (ws.url = NoUrl => pc \in {"abortState", "errState"})

\* The client has noted the update, no call that could drop its note runs, and the
\* note is given up after the state was
UpdatingInv ==
  /\ ws.fwState = "UPDATING" => FwType /\ request # "none" /\ pc \notin NewUrlWrites
  /\ pc = "reported" => ws.fwState = "IDLE"

\* The lemmas on steps have one step per action
LEMMA TypeStep == TypeInv /\ [Next]_vars => TypeInv'
<1> SUFFICES ASSUME TypeInv, [Next]_vars PROVE TypeInv'
  OBVIOUS
<1> USE ValuesAssumption DEF TypeInv, TypeOK, ArgInv, Workspace, Writes, NewUrlWrites, FwType,
        Idle, Stored, Urls, FwStates, FwResults, Outcomes, Requests, Installed
<1>1. ASSUME NEW u \in FwUrls \cup {NoUrl}, SetUpdatePackageUri("FW", u) PROVE TypeInv'
  BY <1>1 DEF SetUpdatePackageUri
<1>2. ASSUME NEW u \in SwUrls \cup {NoUrl}, SetUpdatePackageUri("SW", u) PROVE TypeInv'
  BY <1>2 DEF SetUpdatePackageUri
<1>3. CASE ClientAborts
  BY <1>3 DEF ClientAborts
<1>4. CASE AbortInfo
  BY <1>4 DEF AbortInfo
<1>5. CASE AbortState
  BY <1>5 DEF AbortState
<1>6. CASE CleanStaleData
  BY <1>6 DEF CleanStaleData
<1>7. CASE InitializeDownload
  <2>1. ws' \in Workspace
    BY <1>7 DEF InitializeDownload
  <2>2. registered' \in BOOLEAN /\ timer' \in BOOLEAN /\ online' \in BOOLEAN
    BY <1>7 DEF InitializeDownload
  <2>3. request' \in Requests /\ thread' \in {"none", "ready", "FW", "SW"}
    BY <1>7 DEF InitializeDownload
  <2>4. pc' \in Writes \cup {"idle"} /\ arg' \in Urls \cup {NoUrl} \cup DownloadErrors
    BY <1>7 DEF InitializeDownload
  <2>5. ArgInv'
    BY <1>7 DEF InitializeDownload
  <2> QED
    BY <2>1, <2>2, <2>3, <2>4, <2>5 DEF TypeInv, TypeOK
<1>8. CASE TimerError
  BY <1>8 DEF TimerError
<1>9. CASE PackageDownloadHandler
  <2>1. ws' \in Workspace
    <3>1. CASE ws' = [ws EXCEPT !.sized = TRUE]
      BY <3>1
    <3>2. CASE \E e \in DownloadErrors : ws' = IF FwType THEN [ws EXCEPT !.fwResult = e] ELSE ws
      BY <3>2
    <3>3. CASE ws' = Stored(ws)
      BY <3>3
    <3> QED
      BY <1>9, <3>1, <3>2, <3>3, Zenon DEF PackageDownloadHandler
  <2>2. registered' \in BOOLEAN /\ timer' \in BOOLEAN /\ online' \in BOOLEAN
    BY <1>9 DEF PackageDownloadHandler
  <2>3. request' \in Requests /\ thread' \in {"none", "ready", "FW", "SW"}
    BY <1>9 DEF PackageDownloadHandler
  <2>4. pc' \in Writes \cup {"idle"} /\ arg' \in Urls \cup {NoUrl} \cup DownloadErrors
    <3>1. arg' = arg /\ (pc' = pc \/ pc' = "sizeErase")
      BY <1>9, Zenon DEF PackageDownloadHandler
    <3> QED
      BY <3>1
  <2>5. ArgInv'
    BY <1>9 DEF PackageDownloadHandler
  <2> QED
    BY <2>1, <2>2, <2>3, <2>4, <2>5 DEF TypeInv, TypeOK
<1>10. CASE SizeErase
  <2>1. /\ ws' = [ws EXCEPT !.url = NoUrl, !.sized = FALSE] /\ pc' = "idle"
        /\ UNCHANGED <<registered, request, arg, timer, thread, online>>
    BY <1>10, Zenon DEF SizeErase
  <2>2. ws' \in Workspace
    BY <2>1
  <2>3. ArgInv'
    BY <2>1, <2>2
  <2> QED
    BY <2>1, <2>2, <2>3
<1>11. CASE StartPackageDownloader
  BY <1>11 DEF StartPackageDownloader
<1>12. CASE Downloading
  BY <1>12 DEF Downloading
<1>13. CASE DownloadSucceeds
  BY <1>13 DEF DownloadSucceeds
<1>14. CASE DownloadFails
  BY <1>14 DEF DownloadFails
<1>15. CASE DwlIdle
  BY <1>15 DEF DwlIdle
<1>16. CASE DwlErase
  BY <1>16 DEF DwlErase
<1>17. CASE SuspendDownload
  BY <1>17 DEF SuspendDownload
<1>18. CASE SetDownloadError
  BY <1>18 DEF SetDownloadError
<1>19. CASE ErrState
  BY <1>19 DEF ErrState
<1>20. CASE ErrResult
  BY <1>20 DEF ErrResult
<1>21. CASE ExecFwUpdate
  BY <1>21 DEF ExecFwUpdate
<1>22. CASE DeleteRegistrationID
  <2>1. ws' \in Workspace
    BY <1>22 DEF DeleteRegistrationID
  <2>2. registered' \in BOOLEAN /\ timer' \in BOOLEAN /\ online' \in BOOLEAN
    BY <1>22 DEF DeleteRegistrationID
  <2>3. request' \in Requests /\ thread' \in {"none", "ready", "FW", "SW"}
    BY <1>22 DEF DeleteRegistrationID
  <2>4. pc' \in Writes \cup {"idle"} /\ arg' \in Urls \cup {NoUrl} \cup DownloadErrors
    BY <1>22 DEF DeleteRegistrationID
  <2>5. ArgInv'
    BY <1>22 DEF DeleteRegistrationID
  <2> QED
    BY <2>1, <2>2, <2>3, <2>4, <2>5 DEF TypeInv, TypeOK
<1>23. CASE SetUpdateAccepted
  BY <1>23 DEF SetUpdateAccepted
<1>24. CASE Accepted
  BY <1>24 DEF Accepted
<1>25. CASE Install
  <2>1. ws' \in Workspace
    BY <1>25 DEF Install
  <2>2. registered' \in BOOLEAN /\ timer' \in BOOLEAN /\ online' \in BOOLEAN
    BY <1>25 DEF Install
  <2>3. request' \in Requests /\ thread' \in {"none", "ready", "FW", "SW"}
    BY <1>25 DEF Install
  <2>4. pc' \in Writes \cup {"idle"} /\ arg' \in Urls \cup {NoUrl} \cup DownloadErrors
    BY <1>25 DEF Install
  <2>5. ArgInv'
    BY <1>25 DEF Install
  <2> QED
    BY <2>1, <2>2, <2>3, <2>4, <2>5 DEF TypeInv, TypeOK
<1>26. CASE SetUpdateResult
  BY <1>26 DEF SetUpdateResult
<1>27. CASE SetOutcome
  <2>1. ws' \in Workspace
    BY <1>27 DEF SetOutcome, Outcome
  <2>2. registered' \in BOOLEAN /\ timer' \in BOOLEAN /\ online' \in BOOLEAN
    BY <1>27 DEF SetOutcome
  <2>3. request' \in Requests /\ thread' \in {"none", "ready", "FW", "SW"}
    BY <1>27 DEF SetOutcome
  <2>4. pc' \in Writes \cup {"idle"} /\ arg' \in Urls \cup {NoUrl} \cup DownloadErrors
    BY <1>27 DEF SetOutcome
  <2>5. ArgInv'
    BY <1>27 DEF SetOutcome
  <2> QED
    BY <2>1, <2>2, <2>3, <2>4, <2>5 DEF TypeInv, TypeOK
<1>28. CASE Reported
  BY <1>28 DEF Reported
<1>29. CASE Connect
  <2>1. ws' \in Workspace
    BY <1>29 DEF Connect
  <2>2. registered' \in BOOLEAN /\ timer' \in BOOLEAN /\ online' \in BOOLEAN
    BY <1>29 DEF Connect
  <2>3. request' \in Requests /\ thread' \in {"none", "ready", "FW", "SW"}
    BY <1>29 DEF Connect
  <2>4. pc' \in Writes \cup {"idle"} /\ arg' \in Urls \cup {NoUrl} \cup DownloadErrors
    BY <1>29 DEF Connect
  <2>5. ArgInv'
    BY <1>29 DEF Connect
  <2> QED
    BY <2>1, <2>2, <2>3, <2>4, <2>5 DEF TypeInv, TypeOK
<1>30. CASE Disconnect
  <2>1. ws' \in Workspace
    BY <1>30 DEF Disconnect
  <2>2. registered' \in BOOLEAN /\ timer' \in BOOLEAN /\ online' \in BOOLEAN
    BY <1>30 DEF Disconnect
  <2>3. request' \in Requests /\ thread' \in {"none", "ready", "FW", "SW"}
    BY <1>30 DEF Disconnect
  <2>4. pc' \in Writes \cup {"idle"} /\ arg' \in Urls \cup {NoUrl} \cup DownloadErrors
    BY <1>30 DEF Disconnect
  <2>5. ArgInv'
    BY <1>30 DEF Disconnect
  <2> QED
    BY <2>1, <2>2, <2>3, <2>4, <2>5 DEF TypeInv, TypeOK
<1>31. CASE PowerLoss
  <2>1. ws' = ws /\ pc' = "idle" /\ arg' = NoUrl
    BY <1>31 DEF PowerLoss
  <2>2. registered' \in BOOLEAN /\ timer' \in BOOLEAN /\ online' \in BOOLEAN
    BY <1>31 DEF PowerLoss
  <2>3. request' \in Requests /\ thread' \in {"none", "ready", "FW", "SW"}
    BY <1>31 DEF PowerLoss
  <2>4. ArgInv'
    BY <2>1
  <2> QED
    BY <2>1, <2>2, <2>3, <2>4 DEF TypeInv, TypeOK
<1>32. CASE UNCHANGED vars
  BY <1>32 DEF vars
<1> QED
  BY <1>1, <1>2, <1>3, <1>4, <1>5, <1>6, <1>7, <1>8, <1>9, <1>10, <1>11, <1>12, <1>13, <1>14,
     <1>15, <1>16, <1>17, <1>18, <1>19, <1>20, <1>21, <1>22, <1>23, <1>24, <1>25, <1>26, <1>27,
     <1>28, <1>29, <1>30, <1>31, <1>32
     DEF Next, ServerWrites, Continue, Download, Client

LEMMA TypeInit == Init => TypeInv
<1> SUFFICES ASSUME Init PROVE TypeInv
  OBVIOUS
<1>1. ws \in Workspace
  BY DEF Init, Workspace, FwStates, FwResults
<1>2. registered \in BOOLEAN /\ timer \in BOOLEAN /\ online \in BOOLEAN
  BY DEF Init
<1>3. ArgInv
  BY DEF Init, ArgInv, NewUrlWrites
<1> QED
  BY <1>1, <1>2, <1>3 DEF Init, TypeInv, TypeOK, Requests

\* Every variable keeps its type, whatever faults happen: the argument of a call in
\* progress is what its next write stores.
THEOREM TypeCorrect == Spec => []TypeOK
<1>1. Init => TypeInv
  BY TypeInit
<1>2. TypeInv /\ [Next]_vars => TypeInv'
  BY TypeStep
<1> QED
  BY <1>1, <1>2, PTL DEF Spec, TypeInv

LEMMA Object5Step ==
  NoLostErase /\ Object5Inv /\ [Next]_vars
    => (FirmwareInv /\ UrlInv /\ ThreadInv /\ WriteInv)'
<1> SUFFICES ASSUME NoLostErase, Object5Inv, [Next]_vars
             PROVE  (FirmwareInv /\ UrlInv /\ ThreadInv /\ WriteInv)'
  OBVIOUS
<1> USE ValuesAssumption DEF Object5Inv, TypeInv, TypeOK, ArgInv, Workspace, NewUrlWrites, FwType,
        Idle, Stored, Urls, FwStates, Quiet, FirmwareInv, UrlInv, ThreadInv, WriteInv
<1>1. ASSUME NEW u \in FwUrls \cup {NoUrl}, SetUpdatePackageUri("FW", u)
      PROVE  (FirmwareInv /\ UrlInv /\ ThreadInv /\ WriteInv)'
  BY <1>1 DEF SetUpdatePackageUri
<1>2. "software" \notin Faults
  BY DEF NoLostErase
<1>3. CASE ClientAborts
  BY <1>3 DEF ClientAborts
<1>4. CASE AbortInfo
  BY <1>4 DEF AbortInfo
<1>5. CASE AbortState
  BY <1>5 DEF AbortState
<1>6. CASE CleanStaleData
  BY <1>6 DEF CleanStaleData
<1>7. CASE InitializeDownload
  BY <1>7 DEF InitializeDownload, NoLostErase
<1>8. CASE TimerError
  BY <1>8 DEF TimerError
<1>9. CASE PackageDownloadHandler
  <2>1. ws.fwState = "IDLE" /\ thread = "none" /\ timer' = FALSE /\ pc = "idle"
    BY <1>9 DEF PackageDownloadHandler
  <2>2. CASE ws.url # NoUrl /\ ws' = [ws EXCEPT !.sized = TRUE] /\ thread' \in {thread, "ready"}
             /\ pc' = pc
    BY <1>9, <2>1, <2>2 DEF PackageDownloadHandler
  <2>3. CASE (\E e \in DownloadErrors : ws' = IF FwType THEN [ws EXCEPT !.fwResult = e] ELSE ws)
             /\ pc' = "sizeErase" /\ thread' = thread
    BY <2>1, <2>3
  <2>4. CASE ws' = Stored(ws) /\ pc' = pc /\ thread' = thread
    BY <2>1, <2>4
  <2> QED
    BY <1>9, <2>2, <2>3, <2>4, Zenon DEF PackageDownloadHandler
<1>10. CASE SizeErase
  BY <1>10 DEF SizeErase
<1>11. CASE StartPackageDownloader
  BY <1>11 DEF StartPackageDownloader
<1>12. CASE Downloading
  BY <1>12 DEF Downloading
<1>13. CASE DownloadSucceeds
  BY <1>13 DEF DownloadSucceeds
<1>14. CASE DownloadFails
  BY <1>14 DEF DownloadFails
<1>15. CASE DwlIdle
  BY <1>15 DEF DwlIdle
<1>16. CASE DwlErase
  BY <1>16 DEF DwlErase
<1>17. CASE SuspendDownload
  BY <1>17 DEF SuspendDownload
<1>18. CASE SetDownloadError
  BY <1>18 DEF SetDownloadError
<1>19. CASE ErrState
  BY <1>19 DEF ErrState
<1>20. CASE ErrResult
  BY <1>20 DEF ErrResult
<1>21. CASE ExecFwUpdate
  BY <1>21 DEF ExecFwUpdate
<1>22. CASE DeleteRegistrationID
  BY <1>22 DEF DeleteRegistrationID
<1>23. CASE SetUpdateAccepted
  BY <1>23 DEF SetUpdateAccepted, IsFwUpdateInstallWaited, NothingToAccept, IsFwUpdateOnGoing
<1>24. CASE Accepted
  BY <1>24 DEF Accepted
<1>25. CASE Install
  BY <1>25 DEF Install
<1>26. CASE SetUpdateResult
  BY <1>26 DEF SetUpdateResult, IsFwUpdateOnGoing
<1>27. CASE SetOutcome
  BY <1>27 DEF SetOutcome, Outcome
<1>28. CASE Reported
  BY <1>28 DEF Reported
<1>29. CASE Connect
  BY <1>29 DEF Connect
<1>30. CASE Disconnect
  BY <1>30 DEF Disconnect
<1>31. CASE PowerLoss
  BY <1>31 DEF PowerLoss, NoLostErase
<1>32. CASE UNCHANGED vars
  BY <1>32 DEF vars
<1> QED
  BY <1>1, <1>2, <1>3, <1>4, <1>5, <1>6, <1>7, <1>8, <1>9, <1>10, <1>11, <1>12, <1>13, <1>14,
     <1>15, <1>16, <1>17, <1>18, <1>19, <1>20, <1>21, <1>22, <1>23, <1>24, <1>25, <1>26, <1>27,
     <1>28, <1>29, <1>30, <1>31, <1>32
     DEF Next, ServerWrites, Continue, Download, Client

LEMMA AbstractStep == NoLostErase /\ Object5Inv /\ [Next]_vars => [Abstract!Next]_Abstract!vars
<1> SUFFICES ASSUME NoLostErase, Object5Inv, [Next]_vars PROVE [Abstract!Next]_Abstract!vars
  OBVIOUS
<1> USE ValuesAssumption DEF Object5Inv, TypeInv, TypeOK, ArgInv, Workspace, FwType, Idle, Stored,
        Quiet, FirmwareInv, UrlInv, ThreadInv, WriteInv, Abstract!Next, Abstract!vars,
        Abstract!NewPackage, Abstract!Abandon, Abstract!Start, Abstract!Fail, Abstract!Retry,
        Abstract!Complete, Abstract!Update, Abstract!EndUpdate, Abstract!Report
<1>1. ASSUME NEW u \in FwUrls \cup {NoUrl}, SetUpdatePackageUri("FW", u)
      PROVE  [Abstract!Next]_Abstract!vars
  BY <1>1 DEF SetUpdatePackageUri
<1>2. "software" \notin Faults
  BY DEF NoLostErase
<1>3. CASE ClientAborts
  BY <1>3 DEF ClientAborts
<1>4. CASE AbortInfo
  BY <1>4 DEF AbortInfo
<1>5. CASE AbortState
  BY <1>5 DEF AbortState
<1>6. CASE CleanStaleData
  BY <1>6 DEF CleanStaleData
<1>7. CASE InitializeDownload
  BY <1>7 DEF InitializeDownload
<1>8. CASE TimerError
  BY <1>8 DEF TimerError
<1>9. CASE PackageDownloadHandler
  <2>1. ws'.fwState = ws.fwState /\ ws'.fwResult \in {ws.fwResult} \cup DownloadErrors
        /\ timer /\ pc = "idle" /\ pc' \in {pc, "sizeErase"}
    <3>1. CASE ws' = [ws EXCEPT !.sized = TRUE]
      BY <1>9, <3>1 DEF PackageDownloadHandler
    <3>2. ASSUME NEW e \in DownloadErrors, ws' = IF FwType THEN [ws EXCEPT !.fwResult = e] ELSE ws
          PROVE  ws'.fwState = ws.fwState /\ ws'.fwResult \in {ws.fwResult} \cup DownloadErrors
      BY <3>2
    <3>3. CASE ws' = Stored(ws)
      BY <1>9, <3>3 DEF PackageDownloadHandler
    <3>4. timer /\ pc = "idle" /\ pc' \in {pc, "sizeErase"}
      BY <1>9, Zenon DEF PackageDownloadHandler
    <3>5. \/ ws' = [ws EXCEPT !.sized = TRUE] \/ ws' = Stored(ws)
          \/ \E e \in DownloadErrors : ws' = IF FwType THEN [ws EXCEPT !.fwResult = e] ELSE ws
      BY <1>9, Zenon DEF PackageDownloadHandler
    <3> QED
      BY <3>1, <3>2, <3>3, <3>4, <3>5
  <2> QED
    BY <2>1
<1>10. CASE SizeErase
  BY <1>10 DEF SizeErase
<1>11. CASE StartPackageDownloader
  BY <1>11 DEF StartPackageDownloader
<1>12. CASE Downloading
  BY <1>12 DEF Downloading
<1>13. CASE DownloadSucceeds
  BY <1>13 DEF DownloadSucceeds
<1>14. CASE DownloadFails
  BY <1>14 DEF DownloadFails
<1>15. CASE DwlIdle
  BY <1>15 DEF DwlIdle
<1>16. CASE DwlErase
  BY <1>16 DEF DwlErase
<1>17. CASE SuspendDownload
  BY <1>17 DEF SuspendDownload
<1>18. CASE SetDownloadError
  BY <1>18 DEF SetDownloadError
<1>19. CASE ErrState
  BY <1>19 DEF ErrState
<1>20. CASE ErrResult
  BY <1>20 DEF ErrResult
<1>21. CASE ExecFwUpdate
  BY <1>21 DEF ExecFwUpdate
<1>22. CASE DeleteRegistrationID
  BY <1>22 DEF DeleteRegistrationID
<1>23. CASE SetUpdateAccepted
  BY <1>23 DEF SetUpdateAccepted, IsFwUpdateInstallWaited, NothingToAccept, IsFwUpdateOnGoing
<1>24. CASE Accepted
  BY <1>24 DEF Accepted
<1>25. CASE Install
  BY <1>25 DEF Install
<1>26. CASE SetUpdateResult
  BY <1>26 DEF SetUpdateResult, IsFwUpdateOnGoing
<1>27. CASE SetOutcome
  BY <1>27 DEF SetOutcome, Outcome
<1>28. CASE Reported
  BY <1>28 DEF Reported
<1>29. CASE Connect
  BY <1>29 DEF Connect
<1>30. CASE Disconnect
  BY <1>30 DEF Disconnect
<1>31. CASE PowerLoss
  BY <1>31 DEF PowerLoss, NoLostErase
<1>32. CASE UNCHANGED vars
  BY <1>32 DEF vars
<1> QED
  BY <1>1, <1>2, <1>3, <1>4, <1>5, <1>6, <1>7, <1>8, <1>9, <1>10, <1>11, <1>12, <1>13, <1>14,
     <1>15, <1>16, <1>17, <1>18, <1>19, <1>20, <1>21, <1>22, <1>23, <1>24, <1>25, <1>26, <1>27,
     <1>28, <1>29, <1>30, <1>31, <1>32
     DEF Next, ServerWrites, Continue, Download, Client

LEMMA InstallStep == NoLostOutcome /\ Object5Inv /\ InstallInv /\ [Next]_vars => InstallInv'
<1> SUFFICES ASSUME NoLostOutcome, Object5Inv, InstallInv, [Next]_vars PROVE InstallInv'
  OBVIOUS
<1> USE ValuesAssumption DEF Object5Inv, TypeInv, TypeOK, ArgInv, Workspace, NewUrlWrites, FwType,
        Idle, Stored, Quiet, FirmwareInv, UrlInv, ThreadInv, WriteInv, InstallInv, Installed,
        Outcome, IsFwUpdateOnGoing, Requests
<1>1. ASSUME NEW u \in FwUrls \cup {NoUrl}, SetUpdatePackageUri("FW", u) PROVE InstallInv'
  BY <1>1 DEF SetUpdatePackageUri, NoLostOutcome
<1>2. "software" \notin Faults
  BY DEF NoLostOutcome, NoLostErase
<1>3. CASE ClientAborts
  BY <1>3 DEF ClientAborts
<1>4. CASE AbortInfo
  BY <1>4 DEF AbortInfo
<1>5. CASE AbortState
  BY <1>5 DEF AbortState
<1>6. CASE CleanStaleData
  BY <1>6 DEF CleanStaleData
<1>7. CASE InitializeDownload
  BY <1>7 DEF InitializeDownload, NoLostOutcome, NoLostErase
<1>8. CASE TimerError
  BY <1>8 DEF TimerError
<1>9. CASE PackageDownloadHandler
  BY <1>9 DEF PackageDownloadHandler
<1>10. CASE SizeErase
  BY <1>10 DEF SizeErase
<1>11. CASE StartPackageDownloader
  BY <1>11 DEF StartPackageDownloader
<1>12. CASE Downloading
  BY <1>12 DEF Downloading
<1>13. CASE DownloadSucceeds
  BY <1>13 DEF DownloadSucceeds
<1>14. CASE DownloadFails
  BY <1>14 DEF DownloadFails
<1>15. CASE DwlIdle
  BY <1>15 DEF DwlIdle
<1>16. CASE DwlErase
  BY <1>16 DEF DwlErase
<1>17. CASE SuspendDownload
  BY <1>17 DEF SuspendDownload
<1>18. CASE SetDownloadError
  BY <1>18 DEF SetDownloadError
<1>19. CASE ErrState
  BY <1>19 DEF ErrState
<1>20. CASE ErrResult
  BY <1>20 DEF ErrResult
<1>21. CASE ExecFwUpdate
  BY <1>21 DEF ExecFwUpdate, NoLostOutcome
<1>22. CASE DeleteRegistrationID
  BY <1>22 DEF DeleteRegistrationID
<1>23. CASE SetUpdateAccepted
  BY <1>23 DEF SetUpdateAccepted, IsFwUpdateInstallWaited, NothingToAccept
<1>24. CASE Accepted
  BY <1>24 DEF Accepted
<1>25. CASE Install
  BY <1>25 DEF Install
<1>26. CASE SetUpdateResult
  BY <1>26 DEF SetUpdateResult
<1>27. CASE SetOutcome
  BY <1>27 DEF SetOutcome
<1>28. CASE Reported
  BY <1>28 DEF Reported
<1>29. CASE Connect
  BY <1>29 DEF Connect
<1>30. CASE Disconnect
  BY <1>30 DEF Disconnect
<1>31. CASE PowerLoss
  BY <1>31 DEF PowerLoss, NoLostOutcome
<1>32. CASE UNCHANGED vars
  BY <1>32 DEF vars
<1> QED
  BY <1>1, <1>2, <1>3, <1>4, <1>5, <1>6, <1>7, <1>8, <1>9, <1>10, <1>11, <1>12, <1>13, <1>14,
     <1>15, <1>16, <1>17, <1>18, <1>19, <1>20, <1>21, <1>22, <1>23, <1>24, <1>25, <1>26, <1>27,
     <1>28, <1>29, <1>30, <1>31, <1>32
     DEF Next, ServerWrites, Continue, Download, Client

LEMMA ReportStep ==
  Object5Inv /\ InstallInv /\ [Next]_vars
    => [Installed /\ request' = "none" => ws'.fwState = "IDLE" /\ ws'.fwResult = Outcome]_vars
<1> SUFFICES ASSUME Object5Inv, InstallInv, Next, Installed, request' = "none"
             PROVE  ws'.fwState = "IDLE" /\ ws'.fwResult = Outcome
  BY DEF vars
<1> USE DEF InstallInv, Installed, Idle
<1>1. Installed /\ ~online /\ thread = "none" /\ ~timer
  OBVIOUS
<1>2. SetUpdateResult \/ Reported
  BY <1>1 DEF Next, ServerWrites, Continue, Download, Client, SetUpdatePackageUri, ExecFwUpdate,
     ClientAborts, AbortInfo, AbortState, CleanStaleData, InitializeDownload, TimerError,
     PackageDownloadHandler, SizeErase, StartPackageDownloader, Downloading, DownloadSucceeds,
     DownloadFails, DwlIdle, DwlErase, SuspendDownload, SetDownloadError, ErrState, ErrResult,
     DeleteRegistrationID, SetUpdateAccepted, Accepted, Install, SetOutcome, Connect, Disconnect,
     PowerLoss
<1>3. CASE SetUpdateResult
  BY <1>3 DEF SetUpdateResult
<1>4. CASE Reported
  BY <1>4 DEF Reported
<1> QED
  BY <1>2, <1>3, <1>4

LEMMA UrlLostStep ==
  NoLostUrl /\ Object5Inv /\ UrlLostInv /\ [Next]_vars => UrlLostInv'
<1> SUFFICES ASSUME NoLostUrl, Object5Inv, UrlLostInv, [Next]_vars PROVE UrlLostInv'
  OBVIOUS
<1> USE ValuesAssumption DEF Object5Inv, TypeInv, TypeOK, ArgInv, Workspace, NewUrlWrites, FwType,
        Idle, Stored, Quiet, FirmwareInv, UrlInv, ThreadInv, WriteInv, UrlLostInv, NoLostUrl
<1>1. ASSUME NEW u \in FwUrls \cup {NoUrl}, SetUpdatePackageUri("FW", u)
      PROVE  UrlLostInv'
  BY <1>1 DEF SetUpdatePackageUri
<1>2. "software" \notin Faults
  BY DEF NoLostErase
<1>3. CASE ClientAborts
  BY <1>3 DEF ClientAborts
<1>4. CASE AbortInfo
  BY <1>4 DEF AbortInfo
<1>5. CASE AbortState
  BY <1>5 DEF AbortState
<1>6. CASE CleanStaleData
  BY <1>6 DEF CleanStaleData
<1>7. CASE InitializeDownload
  BY <1>7 DEF InitializeDownload, NoLostErase
<1>8. CASE TimerError
  BY <1>8 DEF TimerError
<1>9. CASE PackageDownloadHandler
  <2>1. ws.fwState = "IDLE" /\ thread = "none" /\ timer' = FALSE /\ pc = "idle"
    BY <1>9 DEF PackageDownloadHandler
  <2>2. CASE ws.url # NoUrl /\ ws' = [ws EXCEPT !.sized = TRUE] /\ thread' \in {thread, "ready"}
             /\ pc' = pc
    BY <1>9, <2>1, <2>2 DEF PackageDownloadHandler
  <2>3. CASE (\E e \in DownloadErrors : ws' = IF FwType THEN [ws EXCEPT !.fwResult = e] ELSE ws)
             /\ pc' = "sizeErase" /\ thread' = thread
    BY <2>1, <2>3
  <2>4. CASE ws' = Stored(ws) /\ pc' = pc /\ thread' = thread
    BY <2>1, <2>4
  <2> QED
    BY <1>9, <2>2, <2>3, <2>4, Zenon DEF PackageDownloadHandler
<1>10. CASE SizeErase
  BY <1>10 DEF SizeErase
<1>11. CASE StartPackageDownloader
  BY <1>11 DEF StartPackageDownloader
<1>12. CASE Downloading
  BY <1>12 DEF Downloading
<1>13. CASE DownloadSucceeds
  BY <1>13 DEF DownloadSucceeds
<1>14. CASE DownloadFails
  BY <1>14 DEF DownloadFails
<1>15. CASE DwlIdle
  BY <1>15 DEF DwlIdle
<1>16. CASE DwlErase
  BY <1>16 DEF DwlErase
<1>17. CASE SuspendDownload
  BY <1>17 DEF SuspendDownload
<1>18. CASE SetDownloadError
  BY <1>18 DEF SetDownloadError
<1>19. CASE ErrState
  BY <1>19 DEF ErrState
<1>20. CASE ErrResult
  BY <1>20 DEF ErrResult
<1>21. CASE ExecFwUpdate
  BY <1>21 DEF ExecFwUpdate
<1>22. CASE DeleteRegistrationID
  BY <1>22 DEF DeleteRegistrationID
<1>23. CASE SetUpdateAccepted
  BY <1>23 DEF SetUpdateAccepted, IsFwUpdateInstallWaited, NothingToAccept, IsFwUpdateOnGoing
<1>24. CASE Accepted
  BY <1>24 DEF Accepted
<1>25. CASE Install
  BY <1>25 DEF Install
<1>26. CASE SetUpdateResult
  BY <1>26 DEF SetUpdateResult, IsFwUpdateOnGoing
<1>27. CASE SetOutcome
  BY <1>27 DEF SetOutcome, Outcome
<1>28. CASE Reported
  BY <1>28 DEF Reported
<1>29. CASE Connect
  BY <1>29 DEF Connect
<1>30. CASE Disconnect
  BY <1>30 DEF Disconnect
<1>31. CASE PowerLoss
  BY <1>31 DEF PowerLoss, NoLostErase
<1>32. CASE UNCHANGED vars
  BY <1>32 DEF vars
<1> QED
  BY <1>1, <1>2, <1>3, <1>4, <1>5, <1>6, <1>7, <1>8, <1>9, <1>10, <1>11, <1>12, <1>13, <1>14,
     <1>15, <1>16, <1>17, <1>18, <1>19, <1>20, <1>21, <1>22, <1>23, <1>24, <1>25, <1>26, <1>27,
     <1>28, <1>29, <1>30, <1>31, <1>32
     DEF Next, ServerWrites, Continue, Download, Client

LEMMA UpdatingStep ==
  NoInterrupt /\ Object5Inv /\ UpdatingInv /\ [Next]_vars => UpdatingInv'
<1> SUFFICES ASSUME NoInterrupt, Object5Inv, UpdatingInv, [Next]_vars PROVE UpdatingInv'
  OBVIOUS
<1> USE ValuesAssumption DEF Object5Inv, TypeInv, TypeOK, ArgInv, Workspace, NewUrlWrites, FwType,
        Idle, Stored, Quiet, FirmwareInv, UrlInv, ThreadInv, WriteInv, UpdatingInv, NoInterrupt, Installed,
        IsFwUpdateOnGoing
<1>1. ASSUME NEW u \in FwUrls \cup {NoUrl}, SetUpdatePackageUri("FW", u)
      PROVE  UpdatingInv'
  BY <1>1 DEF SetUpdatePackageUri
<1>2. "software" \notin Faults
  BY DEF NoLostErase
<1>3. CASE ClientAborts
  BY <1>3 DEF ClientAborts
<1>4. CASE AbortInfo
  BY <1>4 DEF AbortInfo
<1>5. CASE AbortState
  BY <1>5 DEF AbortState
<1>6. CASE CleanStaleData
  BY <1>6 DEF CleanStaleData
<1>7. CASE InitializeDownload
  BY <1>7 DEF InitializeDownload, NoLostErase
<1>8. CASE TimerError
  BY <1>8 DEF TimerError
<1>9. CASE PackageDownloadHandler
  <2>1. ws.fwState = "IDLE" /\ thread = "none" /\ timer' = FALSE /\ pc = "idle"
    BY <1>9 DEF PackageDownloadHandler
  <2>2. CASE ws.url # NoUrl /\ ws' = [ws EXCEPT !.sized = TRUE] /\ thread' \in {thread, "ready"}
             /\ pc' = pc
    BY <1>9, <2>1, <2>2 DEF PackageDownloadHandler
  <2>3. CASE (\E e \in DownloadErrors : ws' = IF FwType THEN [ws EXCEPT !.fwResult = e] ELSE ws)
             /\ pc' = "sizeErase" /\ thread' = thread
    BY <2>1, <2>3
  <2>4. CASE ws' = Stored(ws) /\ pc' = pc /\ thread' = thread
    BY <2>1, <2>4
  <2> QED
    BY <1>9, <2>2, <2>3, <2>4, Zenon DEF PackageDownloadHandler
<1>10. CASE SizeErase
  BY <1>10 DEF SizeErase
<1>11. CASE StartPackageDownloader
  BY <1>11 DEF StartPackageDownloader
<1>12. CASE Downloading
  BY <1>12 DEF Downloading
<1>13. CASE DownloadSucceeds
  BY <1>13 DEF DownloadSucceeds
<1>14. CASE DownloadFails
  BY <1>14 DEF DownloadFails
<1>15. CASE DwlIdle
  BY <1>15 DEF DwlIdle
<1>16. CASE DwlErase
  BY <1>16 DEF DwlErase
<1>17. CASE SuspendDownload
  BY <1>17 DEF SuspendDownload
<1>18. CASE SetDownloadError
  BY <1>18 DEF SetDownloadError
<1>19. CASE ErrState
  BY <1>19 DEF ErrState
<1>20. CASE ErrResult
  BY <1>20 DEF ErrResult
<1>21. CASE ExecFwUpdate
  BY <1>21 DEF ExecFwUpdate
<1>22. CASE DeleteRegistrationID
  BY <1>22 DEF DeleteRegistrationID
<1>23. CASE SetUpdateAccepted
  BY <1>23 DEF SetUpdateAccepted, IsFwUpdateInstallWaited, NothingToAccept, IsFwUpdateOnGoing
<1>24. CASE Accepted
  BY <1>24 DEF Accepted
<1>25. CASE Install
  BY <1>25 DEF Install
<1>26. CASE SetUpdateResult
  BY <1>26 DEF SetUpdateResult, IsFwUpdateOnGoing
<1>27. CASE SetOutcome
  BY <1>27 DEF SetOutcome, Outcome
<1>28. CASE Reported
  BY <1>28 DEF Reported
<1>29. CASE Connect
  BY <1>29 DEF Connect
<1>30. CASE Disconnect
  BY <1>30 DEF Disconnect
<1>31. CASE PowerLoss
  BY <1>31 DEF PowerLoss, NoLostErase
<1>32. CASE UNCHANGED vars
  BY <1>32 DEF vars
<1> QED
  BY <1>1, <1>2, <1>3, <1>4, <1>5, <1>6, <1>7, <1>8, <1>9, <1>10, <1>11, <1>12, <1>13, <1>14,
     <1>15, <1>16, <1>17, <1>18, <1>19, <1>20, <1>21, <1>22, <1>23, <1>24, <1>25, <1>26, <1>27,
     <1>28, <1>29, <1>30, <1>31, <1>32
     DEF Next, ServerWrites, Continue, Download, Client

-----------------------------------------------------------------------------
(* Results *)

LEMMA Object5Holds ==
  ASSUME NoLostErase
  PROVE  Spec => []Object5Inv
<1>1. Init => Object5Inv
  <2>1. Init => TypeInv
    BY TypeInit
  <2> QED
    BY <2>1 DEF Init, Object5Inv, FwType, Quiet, FirmwareInv, UrlInv, ThreadInv, WriteInv
<1>2. Object5Inv /\ [Next]_vars => Object5Inv'
  BY TypeStep, Object5Step DEF Object5Inv
<1> QED
  BY <1>1, <1>2, PTL DEF Spec

\* A package that is reported as downloaded can be installed, for every set of URLs
\* and errors, though the writes of the downloads that failed before may be lost.
THEOREM InstallableCorrect ==
  ASSUME NoLostErase
  PROVE  Spec => []DownloadedIsInstallable
<1>1. Object5Inv => DownloadedIsInstallable
  BY DEF Object5Inv, UrlInv, DownloadedIsInstallable
<1> QED
  BY <1>1, Object5Holds, PTL

\* A URL that is stored between two calls, and would be resumed, is that of a
\* package still to be downloaded, whatever writes of other calls were lost.
THEOREM StoredUrlCorrect ==
  ASSUME NoLostErase
  PROVE  Spec => []StoredUrlIsWanted
<1>1. Object5Inv => StoredUrlIsWanted
  BY DEF Object5Inv, UrlInv, Quiet, Idle, StoredUrlIsWanted
<1> QED
  BY <1>1, Object5Holds, PTL

\* Between two calls a server that reads DOWNLOADING has a download that runs or can
\* be resumed, if the power leaves the two calls alone that erase a URL first.
THEOREM DownloadingCorrect ==
  ASSUME NoLostUrl
  PROVE  Spec => []DownloadingHasUrl
<1>1. NoLostErase
  BY DEF NoLostUrl
<1>2. Init => UrlLostInv
  BY DEF Init, UrlLostInv
<1>3. Object5Inv /\ UrlLostInv /\ [Next]_vars => UrlLostInv'
  BY UrlLostStep
<1>4. UrlLostInv => DownloadingHasUrl
  BY DEF UrlLostInv, DownloadingHasUrl, Idle
<1> QED
  BY <1>1, <1>2, <1>3, <1>4, Object5Holds, PTL DEF Spec

\* The client knows of an update that is on-going, and its result will be accepted,
\* wherever the power was lost, if the server leaves the update alone.
THEOREM UpdatingCorrect ==
  ASSUME NoInterrupt
  PROVE  Spec => []UpdatingCanEnd
<1>1. NoLostErase
  BY DEF NoInterrupt
<1>2. Init => UpdatingInv
  BY DEF Init, UpdatingInv
<1>3. Object5Inv /\ UpdatingInv /\ [Next]_vars => UpdatingInv'
  BY UpdatingStep
<1>4. Object5Inv /\ UpdatingInv => UpdatingCanEnd
  BY DEF Object5Inv, UrlInv, UpdatingInv, UpdatingCanEnd
<1> QED
  BY <1>1, <1>2, <1>3, <1>4, Object5Holds, PTL DEF Spec

\* Every write of the state and of the result, whichever function does it, is a step
\* of object 5, or none.
THEOREM Object5Implemented ==
  ASSUME NoLostErase
  PROVE  Spec => ImplementsObject5
<1>1. Init => Abstract!Init
  BY DEF Init, Abstract!Init
<1>2. Object5Inv /\ [Next]_vars => [Abstract!Next]_Abstract!vars
  BY AbstractStep
<1> QED
  BY <1>1, <1>2, Object5Holds, PTL DEF Spec, ImplementsObject5, Abstract!Spec

\* The server can read the result of the installation that the client reported, if the
\* server and the power leave the installation alone.
THEOREM OutcomeCorrect ==
  ASSUME NoLostOutcome
  PROVE  Spec => OutcomeReported
<1>1. NoLostErase
  BY DEF NoLostOutcome
<1>2. Init => InstallInv
  BY DEF Init, InstallInv, Installed, Idle
<1>3. Object5Inv /\ InstallInv /\ [Next]_vars => InstallInv'
  BY InstallStep
<1>4. Object5Inv /\ InstallInv /\ [Next]_vars
        => [Installed /\ request' = "none" => ws'.fwState = "IDLE" /\ ws'.fwResult = Outcome]_vars
  BY ReportStep
<1> QED
  BY <1>1, <1>2, <1>3, <1>4, Object5Holds, PTL DEF Spec, OutcomeReported

=============================================================================
