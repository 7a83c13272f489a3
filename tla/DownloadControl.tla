-------------------------- MODULE DownloadControl --------------------------
(***************************************************************************)
(* A firmware download and the two threads it takes: the main thread, in   *)
(* which the server's writes of /5/0/1, the download timer, the            *)
(* registrations and the calls of the client run                           *)
(* (lwm2mcorePackageDownloader.c, handlers.c), and the download thread     *)
(* that the client creates (examples/linux/update.c, downloader.c).  They  *)
(* share, without a lock, the workspace in the storage, its copy           *)
(* PkgDwlWorkspace and the status that tells the transfer to stop.         *)
(*                                                                         *)
(* PackageDownloader.tla models what the download thread does with the     *)
(* data.  Here a package is a list of Chunks buffers of binary data,       *)
(* followed by a signature, and what matters is whose data it is:          *)
(* <<u, i>> is the i-th buffer of package u.                               *)
(***************************************************************************)
EXTENDS Integers, Sequences

CONSTANTS
  Urls, NoUrl,
  Chunks,       \* buffers of a package
  Overlaps,     \* orders of steps that the instance allows, see OverlapKinds
  MaxRequests,  \* bound: URLs that the server writes
  MaxStops,     \* bound: suspensions by the client and broken transfers
  MaxCrashes    \* bound: power losses

\* "handler": a step of one thread falls between two accesses to the workspace
\*    of the other one;
\* "late": a URL is written while the download thread has not ended, be it that
\*    it was told to stop;
\* "torn": the power is lost between two writes of one handler, or between the
\*    one to the file and the one to the workspace.
OverlapKinds == {"handler", "late", "torn"}

ASSUME DownloadControlAssumption ==
  /\ NoUrl \notin Urls
  /\ Urls \cap {"stop", "clear", "copy", "clean", "idle"} = {}
  /\ Chunks \in Nat \ {0}
  /\ Overlaps \subseteq OverlapKinds
  /\ MaxRequests \in Nat /\ MaxStops \in Nat /\ MaxCrashes \in Nat

VARIABLES
  ws,       \* the workspace in the storage
  cache,    \* PkgDwlWorkspace
  status,   \* DownloadStatus
  timer,    \* LWM2MCORE_TIMER_DOWNLOAD runs
  main,     \* what is left of the handler that runs in the main thread
  erased,   \* the copy of the workspace that the main thread erased
  pc,       \* where the download thread is
  request,  \* the package it asked the server for
  offset,   \* PkgDwlObj.offset
  parsed,   \* what the hash context has digested
  resumed,  \* PkgDwl.data.isResume
  failed,   \* PkgDwlObj.updateResult is an error
  file,     \* download.bin
  wanted,   \* the URL that the server asked for and did not take back
  aborted,  \* a download was aborted and no URL was written since
  requests, stops, crashes

threadVars == <<pc, request, offset, parsed, resumed, failed>>
bounds == <<requests, stops, crashes>>
vars == <<ws, cache, status, timer, main, erased, threadVars, file, wanted, aborted, bounds>>

----------------------------------------------------------------------------
(* The workspace *)

Package(u) == [i \in 1..Chunks |-> <<u, i>>]

NoDownload == [url |-> NoUrl, size |-> FALSE, state |-> "IDLE", offset |-> 0, digest |-> <<>>]

\* The workspace without its resume information
Erased(w) == [NoDownload EXCEPT !.state = w.state]

\* lwm2mcore_DeletePackageDownloaderResumeInfo, in one piece
DeleteResumeInfo == ws' = Erased(ws) /\ cache' = Erased(ws)

ThreadMayRun == main = <<>> \/ "handler" \in Overlaps
MainMayRun   == pc # "write" \/ "handler" \in Overlaps

----------------------------------------------------------------------------
(* The main thread *)

\* Mutant: PkgDwlWorkspace keeps what was erased
AbortSteps_NoCopy == <<"stop", "clear", "idle">>

\* lwm2mcore_AbortDownload
AbortSteps == <<"stop", "clear", "copy", "idle">>

\* omanager_SetUpdatePackageUri with an empty URL: lwm2mcore_AbortDownload.
WriteEmptyUrl ==
  /\ main = <<>> /\ MainMayRun /\ requests < MaxRequests
  /\ main' = AbortSteps
  /\ wanted' = NoUrl /\ requests' = requests + 1
  /\ UNCHANGED <<aborted, ws, cache, status, timer, erased, threadVars, file, stops, crashes>>

\* omanager_SetUpdatePackageUri with a URL: nothing is done when it is the one
\* in use; another one is aborted first.
WriteUrl(u) ==
  /\ main = <<>> /\ MainMayRun /\ requests < MaxRequests
  /\ pc = "off" \/ "late" \in Overlaps
  /\ ws.url # u
  /\ main' = (IF ws.url # NoUrl THEN AbortSteps ELSE <<>>) \o <<"clear", "copy", "clean", u>>
  /\ wanted' = u /\ requests' = requests + 1
  /\ UNCHANGED <<aborted, ws, cache, status, timer, erased, threadVars, file, stops, crashes>>

\* The steps of a handler: downloader_AbortDownload; the two writes of
\* lwm2mcore_DeletePackageDownloaderResumeInfo; downloader_SetFwUpdateState;
\* lwm2mcore_CleanStaleData, with which the platform drops the file;
\* downloader_InitializeDownload and the start of the timer.
MainStep ==
  /\ main # <<>> /\ MainMayRun
  /\ main' = Tail(main)
  /\ status' = IF Head(main) = "stop" THEN "ABORTED" ELSE status
  /\ ws' = CASE Head(main) = "clear" -> Erased(ws)
             [] Head(main) = "idle" -> [ws EXCEPT !.state = "IDLE"]
             [] Head(main) \in Urls -> [ws EXCEPT !.url = Head(main), !.state = "IDLE"]
             [] OTHER -> ws
  /\ erased' = IF Head(main) = "clear" THEN Erased(ws) ELSE erased
  /\ cache' = IF Head(main) = "copy" THEN erased ELSE cache
  /\ file' = IF Head(main) = "clean" THEN <<>> ELSE file
  /\ timer' = (timer \/ Head(main) \in Urls)
  /\ aborted' = (Head(main) = "idle" \/ (aborted /\ Head(main) \notin Urls))
  /\ UNCHANGED <<threadVars, wanted, bounds>>

\* lwm2mcore_StartPackageDownloader in a new thread.  Two of them would share
\* PkgDwl, PkgDwlObj and the parser without a lock: that is not modelled.
StartThread ==
  /\ pc = "off" /\ pc' = "init"
  /\ request' = NoUrl /\ offset' = 0 /\ parsed' = <<>> /\ resumed' = FALSE /\ failed' = FALSE

\* downloader_PackageDownloadHandler: the size of the package is asked for.  A
\* URL that was erased is refused before the request; after an answer, which may
\* not tell the length, the client drops the old file and creates a thread;
\* without one the resume information is erased.
PackageDownloadHandler ==
  /\ timer /\ pc = "off" /\ main = <<>>
  /\ timer' = FALSE
  /\ \/ /\ ws.url # NoUrl
        /\ status' = "OK"
        /\ \E known \in BOOLEAN : ws' = [ws EXCEPT !.size = known]
        /\ file' = <<>>
        /\ StartThread
        /\ UNCHANGED <<cache, wanted>>
     \/ /\ DeleteResumeInfo
        /\ wanted' = NoUrl
        /\ status' = IF ws.url # NoUrl THEN "OK" ELSE status
        /\ UNCHANGED <<threadVars, file>>
  /\ UNCHANGED <<aborted, main, erased, bounds>>

\* Mutant: a download that has not started is left to its timer
Resume_OnlyStarted ==
  /\ pc = "off" /\ main = <<>> /\ ws.url # NoUrl /\ ws.size /\ ws.state # "IDLE"
  /\ StartThread
  /\ UNCHANGED <<aborted, timer, ws, cache, status, main, erased, file, wanted, bounds>>

\* downloadManager_ResumePackageDownloader, called at each registration: goes
\* on with the size, or with a thread of lwm2mcore_ResumePackageDownloader.
Resume ==
  /\ pc = "off" /\ main = <<>> /\ ws.url # NoUrl
  /\ IF ~ws.size \/ ws.state = "IDLE"
       THEN timer' = TRUE /\ UNCHANGED threadVars
       ELSE StartThread /\ UNCHANGED timer
  /\ UNCHANGED <<aborted, ws, cache, status, main, erased, file, wanted, bounds>>

\* lwm2mcore_SuspendDownload, by the client.
Suspend ==
  /\ main = <<>> /\ stops < MaxStops
  /\ status' = "SUSPEND" /\ stops' = stops + 1
  /\ UNCHANGED <<aborted, ws, cache, timer, main, erased, threadVars, file, wanted, requests, crashes>>

\* The power is lost, and the device restarts.
Crash ==
  /\ crashes < MaxCrashes /\ crashes' = crashes + 1
  /\ (main = <<>> /\ pc \notin {"store", "write", "event"}) \/ "torn" \in Overlaps
  /\ cache' = NoDownload /\ erased' = NoDownload /\ status' = "OK" /\ timer' = FALSE
  /\ main' = <<>> /\ wanted' = ws.url
  /\ pc' = "off" /\ request' = NoUrl /\ offset' = 0 /\ parsed' = <<>>
  /\ resumed' = FALSE /\ failed' = FALSE
  /\ UNCHANGED <<aborted, ws, file, requests, stops>>

----------------------------------------------------------------------------
(* The download thread *)

\* Mutant: what is stored is not resumed
PkgDwlInit_FromStart ==
  /\ pc = "init" /\ ThreadMayRun
  /\ ws.size /\ pc' = "launch" /\ resumed' = FALSE
  /\ UNCHANGED <<aborted, ws, cache, status, wanted, failed, timer, main, erased, request, offset,
                 parsed, file, bounds>>

\* PkgDwlInit: what the platform stored is resumed if the workspace tells where;
\* a size that is not known is asked for again, unless the URL was erased.
PkgDwlInit ==
  /\ pc = "init" /\ ThreadMayRun
  /\ resumed' = (ws.offset > 0 /\ file # <<>>)
  /\ IF ws.size THEN pc' = "launch" /\ UNCHANGED <<ws, cache, status, wanted, failed>>
     ELSE \/ /\ ws.url # NoUrl
             /\ status' = "OK" /\ pc' = "size"
             /\ UNCHANGED <<ws, cache, wanted, failed>>
          \/ /\ ws.url = NoUrl
             /\ DeleteResumeInfo /\ failed' = TRUE /\ pc' = "end"
             /\ UNCHANGED <<status, wanted>>
  /\ UNCHANGED <<aborted, timer, main, erased, request, offset, parsed, file, bounds>>

\* The answer to the request for the size, in the download thread.  A request
\* that was told to stop counts as answered, without a size; the workspace is
\* read again before the size is written to it.  Without an answer the resume
\* information is erased, even when the download is then suspended.
GetPackageSize ==
  /\ pc = "size" /\ ThreadMayRun
  /\ \/ /\ \E known \in {FALSE, status = "OK"} : ws' = [ws EXCEPT !.size = known]
        /\ pc' = "launch"
        /\ UNCHANGED <<cache, wanted, failed, status>>
     \/ /\ status = "OK"
        /\ DeleteResumeInfo
        /\ wanted' = IF ws.url = wanted THEN NoUrl ELSE wanted
        /\ \/ failed' = TRUE /\ pc' = "end" /\ UNCHANGED status
           \/ pc' = "off" /\ status' = "SUSPEND" /\ UNCHANGED failed
  /\ UNCHANGED <<aborted, timer, main, erased, request, offset, parsed, resumed, file, bounds>>

\* LoadResumeData: the data that the workspace tells of must reach as far as
\* the file.
ResumeDataValid == ws.offset > 0 /\ Len(file) <= ws.offset

\* PkgDwlDownload up to the call of downloader_StartDownload.
PkgDwlDownload ==
  /\ pc = "launch" /\ ThreadMayRun
  /\ \/ /\ resumed /\ ~ResumeDataValid
        /\ failed' = TRUE /\ pc' = "end"
        /\ cache' = ws
        /\ UNCHANGED <<ws, request, offset, parsed>>
     \/ /\ resumed => ResumeDataValid
        /\ ws' = [ws EXCEPT !.state = "DOWNLOADING"]
        /\ IF resumed THEN /\ offset' = Len(file) /\ parsed' = ws.digest
                           /\ cache' = [ws EXCEPT !.offset = Len(file)]
                      ELSE offset' = 0 /\ parsed' = <<>> /\ UNCHANGED cache
        /\ request' = ws.url
        /\ IF ws.url = NoUrl THEN failed' = TRUE /\ pc' = "end"
                             ELSE pc' = "request" /\ UNCHANGED failed
  /\ UNCHANGED <<aborted, status, timer, main, erased, resumed, file, wanted, bounds>>

\* downloader_StartDownload: the status is reset and the server is asked for the
\* package from offset on.
StartDownload ==
  /\ pc = "request" /\ ThreadMayRun
  /\ status' = "OK" /\ pc' = "check"
  /\ UNCHANGED <<aborted, ws, cache, timer, main, erased, request, offset, parsed, resumed, failed, file,
                 wanted, bounds>>

\* SendHttpRequest, between two buffers.
CheckStatus ==
  /\ pc = "check" /\ ThreadMayRun
  /\ pc' = IF status = "OK" THEN "read" ELSE "off"
  /\ UNCHANGED <<aborted, ws, cache, status, timer, main, erased, request, offset, parsed, resumed, failed,
                 file, wanted, bounds>>

\* A buffer arrives: it is digested and written to the file.
PkgDwlStore ==
  /\ pc = "read" /\ offset < Chunks /\ ThreadMayRun
  /\ file' = Append(file, <<request, offset + 1>>)
  /\ parsed' = Append(parsed, <<request, offset + 1>>)
  /\ offset' = offset + 1 /\ pc' = "store"
  /\ UNCHANGED <<aborted, ws, cache, status, timer, main, erased, request, resumed, failed, wanted,
                 bounds>>

\* UpdateAndStorePkgDwlWorkspace: the copy is read again if it has no URL, and
\* changed.
RefreshCache ==
  /\ pc = "store" /\ ThreadMayRun
  /\ cache' = [(IF cache.url = NoUrl THEN ws ELSE cache)
                 EXCEPT !.offset = offset, !.digest = parsed]
  /\ pc' = "write"
  /\ UNCHANGED <<aborted, ws, status, timer, main, erased, request, offset, parsed, resumed, failed, file,
                 wanted, bounds>>

\* UpdateAndStorePkgDwlWorkspace: the whole copy is stored.
StoreWorkspace ==
  /\ pc = "write" /\ ThreadMayRun
  /\ ws' = cache /\ pc' = "check"
  /\ UNCHANGED <<aborted, cache, status, timer, main, erased, request, offset, parsed, resumed, failed,
                 file, wanted, bounds>>

\* The signature arrives: CheckCrcAndSignature.
CheckCrcAndSignature ==
  /\ pc = "read" /\ offset = Chunks /\ ThreadMayRun
  /\ failed' = (parsed # Package(request))
  /\ pc' = "end"
  /\ UNCHANGED <<aborted, ws, cache, status, timer, main, erased, request, offset, parsed, resumed, file,
                 wanted, bounds>>

\* The transfer breaks: after a time-out the thread ends and the client may
\* resume; a connection that is closed too soon counts as a partial file.
TransferBreaks ==
  /\ pc = "read" /\ stops < MaxStops /\ ThreadMayRun
  /\ stops' = stops + 1
  /\ \/ pc' = "off" /\ UNCHANGED <<status, failed>>
     \/ /\ status = "OK"
        /\ status' = "SUSPEND" /\ failed' = TRUE /\ pc' = "end"
     \/ status # "OK" /\ pc' = "off" /\ UNCHANGED <<status, failed>>
  /\ UNCHANGED <<aborted, ws, cache, timer, main, erased, request, offset, parsed, resumed, file, 
                 wanted, requests, crashes>>

\* PkgDwlEnd: the state of object 5, then PKG_DWL_EVENT_DL_END, that erases the
\* resume information.
PkgDwlEnd ==
  /\ pc = "end" /\ ThreadMayRun
  /\ ws' = [ws EXCEPT !.state = IF failed THEN "IDLE" ELSE "DOWNLOADED"]
  /\ pc' = "event"
  /\ UNCHANGED <<aborted, cache, status, timer, main, erased, request, offset, parsed, resumed, failed,
                 file, wanted, bounds>>

DownloadEnded ==
  /\ pc = "event" /\ ThreadMayRun
  /\ DeleteResumeInfo
  /\ wanted' = IF ws.url = wanted THEN NoUrl ELSE wanted
  /\ pc' = "off"
  /\ UNCHANGED <<aborted, status, timer, main, erased, request, offset, parsed, resumed, failed, file,
                 bounds>>

----------------------------------------------------------------------------
Init ==
  /\ ws = NoDownload /\ cache = NoDownload /\ erased = NoDownload
  /\ status = "OK" /\ timer = FALSE /\ main = <<>>
  /\ pc = "off" /\ request = NoUrl /\ offset = 0 /\ parsed = <<>>
  /\ resumed = FALSE /\ failed = FALSE
  /\ file = <<>> /\ wanted = NoUrl /\ aborted = FALSE
  /\ requests = 0 /\ stops = 0 /\ crashes = 0

Thread ==
  \/ PkgDwlInit \/ GetPackageSize \/ PkgDwlDownload \/ StartDownload \/ CheckStatus
  \/ PkgDwlStore \/ RefreshCache \/ StoreWorkspace \/ CheckCrcAndSignature \/ PkgDwlEnd
  \/ DownloadEnded

Next ==
  \/ WriteEmptyUrl \/ (\E u \in Urls : WriteUrl(u))
  \/ MainStep \/ PackageDownloadHandler \/ Resume \/ Suspend \/ Crash
  \/ Thread \/ TransferBreaks

\* The download thread is scheduled, and a call of the transport returns at
\* last; handlers end, the timer expires, and the device registers again.
Fairness ==
  /\ WF_vars(Thread) /\ WF_vars(MainStep)
  /\ WF_vars(PackageDownloadHandler) /\ WF_vars(Resume)

Spec == Init /\ [][Next]_vars
FairSpec == Spec /\ Fairness

----------------------------------------------------------------------------
(* Properties *)

\* A package that the server took back, or replaced, does not come back: outside
\* of a handler the workspace has no URL other than the one asked for last,
\* although the download thread stores the copy it has of the workspace.
OnlyWantedIsStored == main = <<>> /\ ws.url # NoUrl => ws.url = wanted

\* In state "downloaded" the file holds one package from its first buffer to its
\* last, whatever was aborted, suspended and resumed before.
DownloadedIsWhole ==
  ws.state = "DOWNLOADED" /\ main = <<>> => \E u \in Urls : file = Package(u)

\* A download goes on from data of its own package: when the server is asked for
\* a package from an offset on, the file holds exactly what comes before.
ResumesItsPackage ==
  [][pc = "launch" /\ pc' = "request"
       => file = SubSeq(Package(request'), 1, offset')]_vars

\* When the server took its URL back and the download thread has ended, the
\* firmware update state is idle.
AbortedIsIdle == aborted /\ main = <<>> /\ pc = "off" => ws.state = "IDLE"

\* A URL in the workspace is dealt with: the package is downloaded, fails or is
\* replaced, in spite of suspensions, broken transfers and power losses.
NotStuck == \A u \in Urls : ws.url = u ~> ws.url # u
=============================================================================
