-------------------------------- MODULE FwUpdate --------------------------------
(***************************************************************************)
(* The firmware update object (object 5) over a whole update: a package    *)
(* URL, the download, the installation and its result.                     *)
(*                                                                         *)
(* The state and the result of object 5 are two fields of the workspace    *)
(* (src/packageDownloader/workspace.h), which object 9, the package        *)
(* downloader and the client write too.  Each function below reads the     *)
(* workspace, changes a field and writes it, several times in a row: each  *)
(* write is an action here, pc tells which one comes next, and a power     *)
(* loss may fall before it when Faults has its name.                       *)
(*                                                                         *)
(* Calls do not overlap; threads that do, third-party FOTA, file transfers *)
(* and failing writes are left out.  A download is what it writes here:    *)
(* its own states are those of module PackageDownloader.                   *)
(***************************************************************************)

CONSTANTS
  FwUrls, SwUrls,   \* URLs the server writes to objects 5 and 9
  NoUrl,            \* the empty URL
  DownloadErrors,   \* the results that tell why a download failed
  Faults            \* faults the environment may inject, see FaultKinds

\* The writes that follow another one in the same call
Writes == {"abortInfo", "abortState", "clean", "init", "timerError", "sizeErase", "downloading",
           "dwlIdle", "dwlErase", "errState", "errResult", "accepted", "outcome", "reported",
           "deleteId"}

\* A power loss before a write, or:
\*   "software"    object 9 is used as well
\*   "interrupt"   the server writes a URL or executes an update while UPDATING
\*   "timerFails"  the download timer cannot be launched
FaultKinds == Writes \cup {"software", "interrupt", "timerFails"}

Urls      == FwUrls \cup SwUrls
FwStates  == {"IDLE", "DOWNLOADING", "DOWNLOADED", "UPDATING"}
Outcomes  == {"INSTALLED_SUCCESSFUL", "INSTALL_FAILURE"}
FwResults == {"NORMAL"} \cup Outcomes \cup DownloadErrors

\* The URLs of the two objects differ, the timer error is a download error
ASSUME ValuesAssumption ==
  /\ NoUrl \notin Urls /\ FwUrls \cap SwUrls = {}
  /\ "COMMUNICATION_ERROR" \in DownloadErrors
  /\ DownloadErrors \cap ({"NORMAL"} \cup Outcomes) = {}
  /\ Urls \cap DownloadErrors = {} /\ NoUrl \notin DownloadErrors
  /\ Faults \subseteq FaultKinds

VARIABLES
  ws,           \* the workspace: type, URL, size known, state and result of object 5
  registered,   \* the registration IDs are stored (persisted)
  request,      \* what the client noted about the installation (persisted)
  pc,           \* the next write of the running call, "idle" if none runs
  arg,          \* its argument: the new URL or the error
  timer,        \* LWM2MCORE_TIMER_DOWNLOAD runs
  thread,       \* the download thread: none, to be started, or the type it downloads
  online        \* a session with the device management server is open

vars == <<ws, registered, request, pc, arg, timer, thread, online>>

Workspace ==
  [updateType : {"FW", "SW", "NONE"}, url : Urls \cup {NoUrl}, sized : BOOLEAN,
   fwState : FwStates, fwResult : FwResults]

Requests == {"none", "received", "installing", "succeeded", "failed"}

\* The workspace is read at the beginning of each call
FwType    == ws.updateType = "FW"
Idle      == pc = "idle"
Installed == request \in {"succeeded", "failed"}
Stored(w) == [w EXCEPT !.url = NoUrl, !.sized = FALSE]

Init ==
  /\ ws = [updateType |-> "NONE", url |-> NoUrl, sized |-> FALSE, fwState |-> "IDLE",
           fwResult |-> "NORMAL"]
  /\ registered = FALSE /\ request = "none"
  /\ pc = "idle" /\ arg = NoUrl
  /\ timer = FALSE /\ thread = "none" /\ online = FALSE

-----------------------------------------------------------------------------
(* The server writes a package URL *)

\* omanager_SetUpdatePackageUri up to the first write.  An empty URL aborts; so
\* does another one than the stored one; the stored one changes nothing.
SetUpdatePackageUri(t, u) ==
  /\ Idle /\ online
  /\ ws.fwState = "UPDATING" /\ t = "FW" => "interrupt" \in Faults
  /\ ws' = [ws EXCEPT !.updateType = t]
  /\ arg' = u
  /\ pc' = IF u # NoUrl /\ t = "FW" /\ u = ws.url THEN "idle"
            ELSE IF u # NoUrl /\ ws.url = NoUrl THEN "clean"
            ELSE "abortInfo"
  /\ UNCHANGED <<registered, request, timer, thread, online>>

\* The client aborts the download
ClientAborts ==
  /\ Idle /\ thread # "none"
  /\ pc' = "abortInfo" /\ arg' = NoUrl
  /\ UNCHANGED <<ws, registered, request, timer, thread, online>>

\* lwm2mcore_AbortDownload: the download stops, its resume information is erased
AbortInfo ==
  /\ pc = "abortInfo"
  /\ ws' = Stored(ws) /\ thread' = "none" /\ pc' = "abortState"
  /\ UNCHANGED <<registered, request, arg, timer, online>>

\* Mutant: the abort stops the download only
AbortState_StateKept ==
  /\ pc = "abortState"
  /\ pc' = IF arg = NoUrl THEN "idle" ELSE "clean"
  /\ UNCHANGED <<ws, registered, request, arg, timer, thread, online>>

\* The result is set only if the state cannot be
AbortState ==
  /\ pc = "abortState"
  /\ ws' = IF FwType THEN [ws EXCEPT !.fwState = "IDLE"] ELSE ws
  /\ pc' = IF arg = NoUrl THEN "idle" ELSE "clean"
  /\ UNCHANGED <<registered, request, arg, timer, thread, online>>

\* lwm2mcore_CleanStaleData of the client drops the installation that was
\* requested.  No resume information is left to delete here.
CleanStaleData ==
  /\ pc = "clean"
  /\ request' = IF FwType /\ ~Installed THEN "none" ELSE request
  /\ pc' = "init"
  /\ UNCHANGED <<ws, registered, arg, timer, thread, online>>

\* downloader_InitializeDownload, and the timer that leads to the download
InitializeDownload ==
  /\ pc = "init"
  /\ ws' = IF FwType THEN [ws EXCEPT !.url = arg, !.fwState = "IDLE", !.fwResult = "NORMAL"]
                     ELSE [ws EXCEPT !.url = arg]
  /\ \/ timer' = TRUE /\ pc' = "idle"
     \/ "timerFails" \in Faults /\ timer' = FALSE
        /\ pc' = IF FwType THEN "timerError" ELSE "idle"
  /\ UNCHANGED <<registered, request, arg, thread, online>>

TimerError ==
  /\ pc = "timerError"
  /\ ws' = [ws EXCEPT !.fwResult = "COMMUNICATION_ERROR"] /\ pc' = "idle"
  /\ UNCHANGED <<registered, request, arg, timer, thread, online>>

-----------------------------------------------------------------------------
(* The download *)

\* downloader_PackageDownloadHandler: the size is known and the client starts the
\* download, or not yet; or the request fails, with an update result or without
PackageDownloadHandler ==
  /\ Idle /\ timer /\ timer' = FALSE
  /\ \/ /\ ws.url # NoUrl
        /\ ws' = [ws EXCEPT !.sized = TRUE]
        /\ thread' \in {thread, "ready"}
        /\ UNCHANGED pc
     \/ /\ \E e \in DownloadErrors :
             ws' = IF FwType THEN [ws EXCEPT !.fwResult = e] ELSE ws
        /\ pc' = "sizeErase"
        /\ UNCHANGED thread
     \/ /\ ws' = Stored(ws)
        /\ UNCHANGED <<pc, thread>>
  /\ UNCHANGED <<registered, request, arg, online>>

SizeErase ==
  /\ pc = "sizeErase"
  /\ ws' = Stored(ws) /\ pc' = "idle"
  /\ UNCHANGED <<registered, request, arg, timer, thread, online>>

\* Mutant: a download goes on with the result of the last one
StartPackageDownloader_ResultKept ==
  /\ Idle /\ thread = "ready" /\ ws.url # NoUrl
  /\ thread' = ws.updateType /\ pc' = "downloading"
  /\ UNCHANGED <<ws, registered, request, arg, timer, online>>

\* The client starts or resumes the download; the type is that of the workspace.
\* PkgDwlInit resets the result, PkgDwlDownload sets the state.
StartPackageDownloader ==
  /\ Idle /\ thread = "ready" /\ ws.url # NoUrl
  /\ thread' = ws.updateType /\ pc' = "downloading"
  /\ ws' = IF FwType THEN [ws EXCEPT !.fwResult = "NORMAL"] ELSE ws
  /\ UNCHANGED <<registered, request, arg, timer, online>>

Downloading ==
  /\ pc = "downloading"
  /\ ws' = IF thread = "FW" THEN [ws EXCEPT !.fwState = "DOWNLOADING"] ELSE ws
  /\ pc' = "idle"
  /\ UNCHANGED <<registered, request, arg, timer, thread, online>>

\* PkgDwlEnd of a good package.  The result is taken to be NORMAL.
DownloadSucceeds ==
  /\ Idle /\ thread \in {"FW", "SW"}
  /\ ws' = IF thread = "FW" THEN [ws EXCEPT !.fwState = "DOWNLOADED"] ELSE ws
  /\ pc' = "dwlErase"
  /\ UNCHANGED <<registered, request, arg, timer, thread, online>>

\* PkgDwlEnd of a download that failed, maybe before it was set DOWNLOADING: the
\* result, then the state
DownloadFails ==
  /\ Idle \/ pc = "downloading"
  /\ thread \in {"FW", "SW"}
  /\ \E e \in DownloadErrors :
       ws' = IF thread = "FW" THEN [ws EXCEPT !.fwResult = e] ELSE ws
  /\ pc' = IF thread = "FW" THEN "dwlIdle" ELSE "dwlErase"
  /\ UNCHANGED <<registered, request, arg, timer, thread, online>>

DwlIdle ==
  /\ pc = "dwlIdle"
  /\ ws' = [ws EXCEPT !.fwState = "IDLE"] /\ pc' = "dwlErase"
  /\ UNCHANGED <<registered, request, arg, timer, thread, online>>

\* Mutant: the download end event keeps the resume information
DwlErase_UrlKept ==
  /\ pc = "dwlErase"
  /\ thread' = "none" /\ pc' = "idle"
  /\ UNCHANGED <<ws, registered, request, arg, timer, online>>

\* The download end event erases the resume information
DwlErase ==
  /\ pc = "dwlErase"
  /\ ws' = Stored(ws) /\ thread' = "none" /\ pc' = "idle"
  /\ UNCHANGED <<registered, request, arg, timer, online>>

SuspendDownload ==
  /\ Idle /\ thread # "none" /\ thread' = "none"
  /\ UNCHANGED <<ws, registered, request, pc, arg, timer, online>>

\* lwm2mcore_SetDownloadError: the client gives up a download or the
\* installation it was asked for
SetDownloadError ==
  /\ Idle
  /\ thread # "none" \/ (request = "received" /\ FwType)
  /\ ws' = Stored(ws) /\ thread' = "none"
  /\ arg' \in DownloadErrors
  /\ pc' = IF FwType THEN "errState" ELSE "idle"
  /\ UNCHANGED <<registered, request, timer, online>>

ErrState ==
  /\ pc = "errState"
  /\ ws' = [ws EXCEPT !.fwState = "IDLE"] /\ pc' = "errResult"
  /\ UNCHANGED <<registered, request, arg, timer, thread, online>>

ErrResult ==
  /\ pc = "errResult"
  /\ ws' = [ws EXCEPT !.fwResult = arg] /\ pc' = "idle"
  /\ request' = IF request = "received" THEN "none" ELSE request
  /\ UNCHANGED <<registered, arg, timer, thread, online>>

-----------------------------------------------------------------------------
(* The installation *)

\* omanager_ExecFwUpdate: lwm2mcore_LaunchUpdate of the client notes the request
ExecFwUpdate ==
  /\ Idle /\ online /\ request \in {"none", "received"}
  /\ ws.fwState = "UPDATING" => "interrupt" \in Faults
  /\ request' = "received" /\ pc' = "deleteId"
  /\ UNCHANGED <<ws, registered, arg, timer, thread, online>>

DeleteRegistrationID ==
  /\ pc = "deleteId"
  /\ registered' = FALSE /\ pc' = "idle"
  /\ UNCHANGED <<ws, request, arg, timer, thread, online>>

\* Mutant: the state is not checked
IsFwUpdateInstallWaited_AnyState == FwType

IsFwUpdateInstallWaited == FwType /\ ws.fwState = "DOWNLOADED" /\ ws.fwResult = "NORMAL"

\* Mutant: the wrong state is compared
IsFwUpdateOnGoing_Downloaded == FwType /\ ws.fwState = "DOWNLOADED" /\ ws.fwResult = "NORMAL"

IsFwUpdateOnGoing == FwType /\ ws.fwState = "UPDATING" /\ ws.fwResult = "NORMAL"

\* Mutant: a repeated call is refused
NothingToAccept_Refused == ws.updateType = "SW"

\* Accepted before, or a software update
NothingToAccept == IsFwUpdateOnGoing \/ ws.updateType = "SW"

\* lwm2mcore_SetUpdateAccepted.  The client forgets a request that is refused.
SetUpdateAccepted ==
  /\ Idle /\ request = "received"
  /\ \/ /\ IsFwUpdateInstallWaited
        /\ ws' = [ws EXCEPT !.fwState = "UPDATING"]
        /\ pc' = "accepted" /\ UNCHANGED request
     \/ /\ NothingToAccept
        /\ request' = "installing" /\ UNCHANGED <<ws, pc>>
     \/ /\ ~IsFwUpdateInstallWaited /\ ~NothingToAccept
        /\ request' = "none" /\ UNCHANGED <<ws, pc>>
  /\ UNCHANGED <<registered, arg, timer, thread, online>>

\* The call returns, the client notes that it may install
Accepted ==
  /\ pc = "accepted"
  /\ request' = "installing" /\ pc' = "idle"
  /\ UNCHANGED <<ws, registered, arg, timer, thread, online>>

\* The platform resets and installs the package
Install ==
  /\ Idle /\ request = "installing"
  /\ request' \in {"succeeded", "failed"}
  /\ timer' = FALSE /\ thread' = "none" /\ online' = FALSE
  /\ UNCHANGED <<ws, registered, pc, arg>>

\* Mutant: nothing is answered when no update is on-going
SetUpdateResult_Silent ==
  /\ Idle /\ Installed /\ ~online /\ IsFwUpdateOnGoing
  /\ ws' = [ws EXCEPT !.fwState = "IDLE"] /\ pc' = "outcome"
  /\ UNCHANGED <<registered, request, arg, timer, thread, online>>

\* lwm2mcore_SetUpdateResult, called at platform initialization: the state, then
\* the result.  The client forgets the installation when the call returns.
SetUpdateResult ==
  /\ Idle /\ Installed /\ ~online
  /\ \/ /\ IsFwUpdateOnGoing
        /\ ws' = [ws EXCEPT !.fwState = "IDLE"]
        /\ pc' = "outcome" /\ UNCHANGED request
     \/ /\ ~IsFwUpdateOnGoing
        /\ request' = "none" /\ UNCHANGED <<ws, pc>>
  /\ UNCHANGED <<registered, arg, timer, thread, online>>

Outcome == IF request = "succeeded" THEN "INSTALLED_SUCCESSFUL" ELSE "INSTALL_FAILURE"

\* Mutant: the result is not stored
SetOutcome_Dropped ==
  /\ pc = "outcome" /\ pc' = "reported"
  /\ UNCHANGED <<ws, registered, request, arg, timer, thread, online>>

SetOutcome ==
  /\ pc = "outcome"
  /\ ws' = [ws EXCEPT !.fwResult = Outcome] /\ pc' = "reported"
  /\ UNCHANGED <<registered, request, arg, timer, thread, online>>

Reported ==
  /\ pc = "reported"
  /\ request' = "none" /\ pc' = "idle"
  /\ UNCHANGED <<ws, registered, arg, timer, thread, online>>

-----------------------------------------------------------------------------
(* Sessions and power *)

\* The device registers, and a stored download is taken up: by the timer when its
\* size is not known or it never started, else by the download thread.  A thread
\* that still runs then is left out.
Connect ==
  /\ Idle /\ ~online /\ ~Installed /\ thread = "none"
  /\ online' = TRUE /\ registered' = TRUE
  /\ \/ /\ ws.url = NoUrl
        /\ UNCHANGED <<timer, thread>>
     \/ /\ ws.url # NoUrl /\ (~ws.sized \/ (FwType /\ ws.fwState = "IDLE"))
        /\ timer' = TRUE /\ UNCHANGED thread
     \/ /\ ws.url # NoUrl /\ ws.sized /\ ~(FwType /\ ws.fwState = "IDLE")
        /\ thread' = "ready" /\ UNCHANGED timer
  /\ UNCHANGED <<ws, request, pc, arg>>

\* The client suspends the download when the session is closed
Disconnect ==
  /\ Idle /\ online
  /\ online' = FALSE /\ thread' = "none"
  /\ UNCHANGED <<ws, registered, request, pc, arg, timer>>

PowerLoss ==
  /\ pc \in Faults \cup {"idle"}
  /\ pc' = "idle" /\ arg' = NoUrl
  /\ timer' = FALSE /\ thread' = "none" /\ online' = FALSE
  /\ UNCHANGED <<ws, registered, request>>

-----------------------------------------------------------------------------

ServerWrites ==
  \/ \E u \in FwUrls \cup {NoUrl} : SetUpdatePackageUri("FW", u)
  \/ \E u \in SwUrls \cup {NoUrl} : "software" \in Faults /\ SetUpdatePackageUri("SW", u)

\* The remaining writes of the running call
Continue ==
  \/ AbortInfo \/ AbortState \/ CleanStaleData \/ InitializeDownload \/ TimerError
  \/ SizeErase \/ Downloading \/ DwlIdle \/ DwlErase \/ ErrState \/ ErrResult
  \/ DeleteRegistrationID \/ Accepted \/ SetOutcome \/ Reported

Download ==
  \/ PackageDownloadHandler \/ StartPackageDownloader
  \/ DownloadSucceeds \/ DownloadFails \/ SuspendDownload

Client ==
  \/ ClientAborts \/ SetDownloadError
  \/ SetUpdateAccepted \/ Install \/ SetUpdateResult

Next ==
  \/ ServerWrites \/ ExecFwUpdate
  \/ Continue \/ Download \/ Client
  \/ Connect \/ Disconnect \/ PowerLoss

Spec == Init /\ [][Next]_vars

\* The power is not lost in every call, and the client treats the request it
\* noted: it accepts it, installs, and tells the result.
FairSpec ==
  /\ Spec
  /\ SF_vars(Continue) /\ SF_vars(Accepted)
  /\ SF_vars(SetUpdateAccepted) /\ SF_vars(Install) /\ SF_vars(SetUpdateResult)

-----------------------------------------------------------------------------
(* Properties *)

TypeOK ==
  /\ ws \in Workspace /\ registered \in BOOLEAN /\ request \in Requests
  /\ pc \in Writes \cup {"idle"} /\ arg \in Urls \cup {NoUrl} \cup DownloadErrors
  /\ timer \in BOOLEAN /\ online \in BOOLEAN
  /\ thread \in {"none", "ready", "FW", "SW"}

\* A downloaded package can be installed: lwm2mcore_SetUpdateAccepted refuses a
\* package whose state is DOWNLOADED with another result than NORMAL, which
\* PkgDwlEnd takes for granted, whatever error an interrupted session has left.
DownloadedIsInstallable == ws.fwState = "DOWNLOADED" => ws.fwResult = "NORMAL"

\* A server that reads DOWNLOADING can wait: the URL from which the download runs
\* or can be resumed is stored.  The two are erased by different writes.
DownloadingHasUrl == Idle /\ ws.fwState = "DOWNLOADING" => ws.url # NoUrl

\* A stored URL is that of a package that is still to be downloaded: it is resumed
\* at the next registration, over whatever state the update is in then.
StoredUrlIsWanted == Idle /\ ws.url # NoUrl => ws.fwState \in {"IDLE", "DOWNLOADING"}

\* An update in the state UPDATING comes to an end: the client still knows of it,
\* and lwm2mcore_SetUpdateResult will not refuse its result.
UpdatingCanEnd == ws.fwState = "UPDATING" => request # "none" /\ ws.fwResult = "NORMAL"

\* When the client has reported an installation, the server can read its result
OutcomeReported ==
  [][Installed /\ request' = "none" => ws'.fwState = "IDLE" /\ ws'.fwResult = Outcome]_vars

\* The state UPDATING does not last, whatever power is lost
UpdatingEnds == ws.fwState = "UPDATING" ~> ws.fwState # "UPDATING"

\* An execution that was noted is installed or refused, whatever happens
RequestSettles == request # "none" ~> request = "none"

\* The server reads object 5 as the abstract specification allows
Abstract == INSTANCE Object5 WITH
  state <- ws.fwState, result <- ws.fwResult, due <- pc = "outcome"
ImplementsObject5 == Abstract!Spec
=============================================================================
