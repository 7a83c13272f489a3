--------------------------- MODULE PackageDownloader ---------------------------
(***************************************************************************)
(* The package downloader of LwM2MCore for a firmware package              *)
(* (src/packageDownloader/lwm2mcorePackageDownloader.c): the state machine *)
(* that lwm2mcore_HandlePackageDownloader runs in the download thread, the *)
(* DWL parser that feeds it, the workspace it persists, and what it uses   *)
(* on both sides: the HTTP downloader of the porting layer and the storage *)
(* behind lwm2mcore_WritePackageData.                                      *)
(*                                                                         *)
(* A handler of the state machine is one action.  A power loss may fall    *)
(* between any two of them and, when Faults allows it, between two writes  *)
(* of one handler.                                                         *)
(*                                                                         *)
(* Data are positions in the package file: a buffer is where it starts and *)
(* how long it is.  The SHA1/CRC context is the length of the prefix of    *)
(* the file that it digests, or BAD once a byte was digested twice or out  *)
(* of place.  Left out: SW packages and file transfers (the other values   *)
(* of updateType), third-party FOTA, progress events.                      *)
(***************************************************************************)
EXTENDS Integers, FiniteSets

CONSTANTS
  Start,         \* Start[i]: position of the i-th subsection; Start[12]: file length
  TmpMax,        \* TMP_DATA_MAX_LEN, size of the temporary buffer
  DWL_RETRIES,   \* retries of one session
  Chunks,        \* lengths in which the transport may deliver data
  LastErrors,    \* what downloader_GetLastDownloadError of the platform returns
  HttpErrors,    \* classes of HTTP codes that a failing request may leave behind
  Faults,        \* faults the environment may inject, see FaultKinds
  MaxSessions    \* bound: number of calls to lwm2mcore_StartPackageDownloader

-----------------------------------------------------------------------------
(* The layout of a DWL package *)

NParts  == 11
BinPart == 7

\* Subsections in the order in which the parser expects them: the UPCK, BINA
\* and SIGN sections.
Section(p)    == IF p <= 3 THEN "UPCK" ELSE IF p <= 8 THEN "BINA" ELSE "SIGN"
Subsection(p) ==
  CASE p \in {1, 4, 9}  -> "PROLOG"
    [] p \in {2, 5, 10} -> "COMMENTS"
    [] p \in {3, 6}     -> "HEADER"
    [] p = BinPart      -> "BINARY"
    [] p = 8            -> "PADDING"
    [] p = NParts       -> "SIGNATURE"

Size(p)  == Start[p + 1] - Start[p]
BinLen   == Size(BinPart)
PkgLen   == Start[NParts + 1]
HashEnd  == Start[9]      \* the SIGN section is neither digested nor in the CRC
BAD      == -1

DownloaderResults ==
  {"OK", "INVALID_ARG", "CONNECTION_ERROR", "PARTIAL_FILE", "RECV_ERROR", "SEND_ERROR",
   "ERROR", "TIMEOUT", "MEMORY_ERROR", "CERTIF_ERROR"}
NetworkErrors == {"RECV_ERROR", "SEND_ERROR", "TIMEOUT"}

\* The code lwm2mcore_GetLastHttpErrorCode gives, by class. "zero": no response
\* yet; "success": 200, 206; "uri": 401, 403, 404, 414; "server": 5xx.
HttpKinds == {"zero", "success", "uri", "server", "other"}

\* "tornStore": power loss after the platform stored a chunk, before the
\*    workspace was; "tornEnd": power loss in PkgDwlEnd before the resume
\*    information is erased; "writeFails": lwm2mcore_WritePackageData fails;
\*    "noLength": the server answers without telling the length of the package.
FaultKinds == {"tornStore", "tornEnd", "writeFails", "noLength"}

States    == {"INIT", "DOWNLOAD", "PARSE", "STORE", "END", "SUSPEND", "ERROR"}
FwStates  == {"IDLE", "DOWNLOADING", "DOWNLOADED"}
FwResults == {"NORMAL", "COMMUNICATION_ERROR", "VERIFY_ERROR", "UNSUPPORTED_PKG_TYPE",
              "INVALID_URI", "UNSUPPORTED_PROTOCOL"}
DwlResults == {"OK", "FAULT", "MEM_ERROR", "NETWORK_ERROR", "RETRY_FAILED"}

ASSUME LayoutAssumption ==
  /\ Start \in [1..(NParts + 1) -> Nat]
  /\ Start[1] = 0
  /\ \A p \in 1..NParts : Start[p] <= Start[p + 1]
  /\ Start[BinPart] > 0 /\ BinLen > 0

ASSUME BoundsAssumption ==
  /\ TmpMax \in Nat /\ DWL_RETRIES \in Nat \ {0} /\ MaxSessions \in Nat
  /\ Chunks \subseteq Nat \ {0}

ASSUME EnvironmentAssumption ==
  /\ LastErrors \subseteq DownloaderResults
  /\ HttpErrors \subseteq HttpKinds
  /\ Faults \subseteq FaultKinds

-----------------------------------------------------------------------------
VARIABLES
  \* lwm2mcore_HandlePackageDownloader: "off" no session, "loop" in the while
  \* loop, "wait" returned to the client (endOfProcessing)
  pc,
  \* PkgDwlObj
  state, retry, result, updateResult, offset, tmpLen, downloadedLen,
  processedLen, updateGap, certified,
  updateOffset,     \* PkgDwl.data.updateOffset; data.isResume is updateOffset > 0
  \* DwlParserObj: expected subsection, binary data still to come, hash context
  part, remaining, sha,
  \* positions in the file: of the first byte of dwlDataPtr, and whether tmpData
  \* holds exactly the tmpLen bytes that follow offset
  dwlPos, tmpOk,
  \* the persisted workspace and PkgDwlWorkspace, its copy in RAM
  ws, cache,
  \* the transport: active, and position of the next byte it delivers
  xfer, srvPos,
  \* the platform: bytes handed over in order, whether each landed at its own
  \* place, and the progress it reported last
  written, storedOk, flushed,
  sessions

objVars    == <<state, retry, result, updateResult, offset, tmpLen, downloadedLen,
                processedLen, updateGap, certified, updateOffset, dwlPos, tmpOk>>
parserVars == <<part, remaining, sha>>
netVars    == <<xfer, srvPos>>
storeVars  == <<written, storedOk, flushed>>
vars == <<pc, objVars, parserVars, ws, cache, netVars, storeVars, sessions>>

-----------------------------------------------------------------------------
(* The workspace *)

Workspace ==
  [url: BOOLEAN, sizeKnown: BOOLEAN, fwState: FwStates, fwResult: FwResults,
   offset: Nat, binarySize: {0, BinLen}, remaining: 0..BinLen, sha: Nat \cup {BAD}]

DefaultWorkspace ==
  [url |-> FALSE, sizeKnown |-> FALSE, fwState |-> "IDLE", fwResult |-> "NORMAL",
   offset |-> 0, binarySize |-> 0, remaining |-> 0, sha |-> 0]

\* lwm2mcore_DeletePackageDownloaderResumeInfo, as a function of the workspace
DeleteResumeInfo(w) ==
  [w EXCEPT !.url = FALSE, !.sizeKnown = FALSE, !.offset = 0, !.binarySize = 0,
            !.remaining = 0, !.sha = 0]

\* The firmware update result SetUpdateResult stores for an error
UpdateResult(error) ==
  CASE error = "NO_ERROR"   -> "NORMAL"
    [] error = "CONNECTION" -> "COMMUNICATION_ERROR"
    [] error = "VERIFY"     -> "VERIFY_ERROR"
    [] error = "PKG_TYPE"   -> "UNSUPPORTED_PKG_TYPE"
    [] error = "URI"        -> "INVALID_URI"
    [] error = "PROTOCOL"   -> "UNSUPPORTED_PROTOCOL"

\* SetUpdateResultOnHttpError: the update result after a failed request, given
\* the class of the HTTP code and the result so far
HttpUpdateResult(http, current) ==
  CASE http \in {"zero", "success"} -> current
    [] http = "uri"    -> UpdateResult("URI")
    [] http = "server" -> UpdateResult("CONNECTION")
    [] http = "other"  -> UpdateResult("PROTOCOL")

\* How GetPackageSize may leave PkgDwlObj.updateResult (obj) and the persisted
\* result (fw) when it fails with r; obj0 and fw0 are the values before
SizeErrorOutcomes(r, obj0, fw0) ==
  LET both(x) == [obj |-> x, fw |-> x]
  IN CASE r \in {"INVALID_ARG", "CONNECTION_ERROR"} -> {both(UpdateResult("URI"))}
       [] r = "CERTIF_ERROR" -> {both(UpdateResult("PROTOCOL"))}
       [] OTHER ->
            {IF h = "success" THEN [obj |-> obj0, fw |-> fw0]
                              ELSE both(HttpUpdateResult(h, obj0)) : h \in HttpErrors}

\* Whether the size is known (not 0) after it returned OK
SizeKnown == {TRUE} \cup (IF "noLength" \in Faults THEN {FALSE} ELSE {})

\* What downloader_GetPackageSize may return: without a URL, only INVALID_ARG.
\* GetPackageSize maps PARTIAL_FILE to ERROR.
SizeResults(w) == IF w.url THEN DownloaderResults \ {"PARTIAL_FILE"} ELSE {"INVALID_ARG"}

-----------------------------------------------------------------------------
(* Initial state: nothing stored, no session *)

Init ==
  /\ pc = "off" /\ state = "INIT" /\ retry = 0 /\ result = "OK" /\ updateResult = "NORMAL"
  /\ offset = 0 /\ tmpLen = 0 /\ tmpOk = TRUE /\ downloadedLen = 0 /\ dwlPos = 0
  /\ processedLen = 0 /\ updateGap = 0 /\ certified = FALSE /\ updateOffset = 0
  /\ part = 1 /\ remaining = 0 /\ sha = 0
  /\ ws = DefaultWorkspace /\ cache = DefaultWorkspace
  /\ xfer = FALSE /\ srvPos = 0
  /\ written = 0 /\ storedOk = TRUE /\ flushed = 0
  /\ sessions = 0

-----------------------------------------------------------------------------
(* The server, the client and the platform *)

\* omanager_SetUpdatePackageUri for a new URL, none being in use: the resume
\* information is erased, the platform drops stale data (lwm2mcore_CleanStaleData)
\* and downloader_InitializeDownload stores the URL.
SetUpdatePackageUri ==
  /\ pc = "off" /\ ~ws.url
  /\ LET w == DeleteResumeInfo(ws)
     IN /\ cache' = w
        /\ ws' = [w EXCEPT !.url = TRUE, !.fwState = "IDLE", !.fwResult = "NORMAL"]
  /\ written' = 0 /\ storedOk' = TRUE /\ flushed' = 0
  /\ UNCHANGED <<pc, objVars, parserVars, netVars, sessions>>

\* downloader_PackageDownloadHandler, run by the download timer before a
\* session, when the size is not known or nothing was downloaded: asks the server
\* for the package size.
PackageDownloadHandler ==
  /\ pc = "off" /\ ws.url
  /\ ~ws.sizeKnown \/ ws.fwState = "IDLE"
  /\ \E r \in SizeResults(ws) :
       \/ /\ r = "OK"
          /\ \E known \in SizeKnown : ws' = [ws EXCEPT !.sizeKnown = known]
          /\ UNCHANGED <<cache, updateResult>>
       \/ /\ r # "OK"
          /\ \E o \in SizeErrorOutcomes(r, updateResult, ws.fwResult) :
               /\ updateResult' = o.obj
               /\ ws' = DeleteResumeInfo([ws EXCEPT !.fwResult = o.fw])
               /\ cache' = DeleteResumeInfo([ws EXCEPT !.fwResult = o.fw])
  /\ UNCHANGED <<pc, state, retry, result, offset, tmpLen, downloadedLen, processedLen,
                 updateGap, certified, updateOffset, dwlPos, tmpOk, parserVars, netVars,
                 storeVars, sessions>>

\* PkgDwlObj and PkgDwl are set to 0
ResetPackageDownloader ==
  /\ state' = "INIT" /\ retry' = 0 /\ result' = "OK" /\ updateResult' = "NORMAL"
  /\ offset' = 0 /\ tmpLen' = 0 /\ tmpOk' = TRUE /\ downloadedLen' = 0 /\ dwlPos' = 0
  /\ processedLen' = 0 /\ updateGap' = 0 /\ certified' = FALSE /\ updateOffset' = 0

\* DwlParserObj is set to 0
ResetParser == part' = 1 /\ remaining' = 0 /\ sha' = 0

\* The device restarts: what is in RAM is lost
Restart ==
  /\ pc' = "off" /\ xfer' = FALSE /\ srvPos' = 0
  /\ ResetPackageDownloader /\ ResetParser
  /\ cache' = DefaultWorkspace
  /\ UNCHANGED sessions

\* lwm2mcore_StartPackageDownloader.  A client that starts a download drops what
\* the platform stored; downloadManager_ResumePackageDownloader has the client
\* resume instead, when the size is known and a download was started.  The
\* platform then goes on from the progress it reports, which may be late.
StartPackageDownloader(fresh) ==
  /\ pc = "off" /\ ws.url /\ sessions < MaxSessions
  /\ \/ /\ fresh
        /\ written' = 0 /\ flushed' = 0 /\ storedOk' = TRUE
     \/ /\ ~fresh /\ ws.sizeKnown /\ ws.fwState # "IDLE"
        /\ \E w \in flushed..written :
             /\ written' = w /\ flushed' = w
             /\ storedOk' = (storedOk \/ w = 0)
  /\ pc' = "loop" /\ xfer' = FALSE
  /\ ResetPackageDownloader
  /\ sessions' = sessions + 1
  /\ UNCHANGED <<parserVars, ws, cache, srvPos>>

\* lwm2mcore_PackageDownloaderReceiveData: the transport delivers the next n bytes
ReceiveData(n) ==
  /\ pc = "wait" /\ xfer /\ srvPos + n <= PkgLen
  /\ dwlPos' = srvPos /\ downloadedLen' = n
  /\ srvPos' = srvPos + n
  /\ pc' = "loop"
  /\ UNCHANGED <<state, retry, result, updateResult, offset, tmpLen, processedLen, updateGap,
                 certified, updateOffset, tmpOk, parserVars, ws, cache, xfer, storeVars,
                 sessions>>

\* The connection breaks
TransferBreaks ==
  /\ pc = "wait" /\ xfer
  /\ xfer' = FALSE
  /\ UNCHANGED <<pc, objVars, parserVars, ws, cache, srvPos, storeVars, sessions>>

\* Mutant: the retry is not counted
RequestDownloadRetry_Uncounted ==
  /\ pc = "wait" /\ ~xfer /\ retry < DWL_RETRIES
  /\ state \in {"PARSE", "DOWNLOAD"}
  /\ state' = "DOWNLOAD" /\ downloadedLen' = 0 /\ pc' = "loop"
  /\ UNCHANGED <<retry, result, updateResult, offset, tmpLen, processedLen, updateGap, certified,
                 updateOffset, dwlPos, tmpOk, parserVars, ws, cache, netVars, storeVars,
                 sessions>>

\* lwm2mcore_RequestDownloadRetry, by a client that lost the connection or could
\* not start the transfer
RequestDownloadRetry ==
  /\ pc = "wait" /\ ~xfer /\ retry < DWL_RETRIES
  /\ state \in {"PARSE", "DOWNLOAD"}
  /\ state' = "DOWNLOAD" /\ downloadedLen' = 0 /\ retry' = retry + 1
  /\ pc' = "loop"
  /\ UNCHANGED <<result, updateResult, offset, tmpLen, processedLen, updateGap, certified,
                 updateOffset, dwlPos, tmpOk, parserVars, ws, cache, netVars, storeVars,
                 sessions>>

\* lwm2mcore_HandlePackageDownloader, called by the client when the transfer is
\* complete or when a call reported a fault, so that the state reached is handled
HandlePackageDownloader ==
  /\ pc = "wait"
  /\ (xfer /\ srvPos = PkgLen) \/ result = "FAULT"
  /\ pc' = "loop"
  /\ UNCHANGED <<objVars, parserVars, ws, cache, netVars, storeVars, sessions>>

\* The client ends the session: it is over, or lwm2mcore_SuspendDownload was
\* called and the transport stopped
EndSession ==
  /\ pc = "wait"
  /\ pc' = "off" /\ xfer' = FALSE
  /\ UNCHANGED <<objVars, parserVars, ws, cache, srvPos, storeVars, sessions>>

\* Power loss between two handlers
PowerLoss ==
  /\ pc # "off"
  /\ Restart
  /\ UNCHANGED <<ws, storeVars>>

-----------------------------------------------------------------------------
(* PKG_DWL_INIT *)

\* The part of PkgDwlInit that follows GetPackageSize when it fails with r
SizeFailed(r) ==
  \E o \in SizeErrorOutcomes(r, "NORMAL", "NORMAL") :
    /\ updateResult' = o.obj
    /\ ws' = DeleteResumeInfo([ws EXCEPT !.fwResult = o.fw])
    /\ cache' = ws'
    /\ state' = IF r \in NetworkErrors \cup {"MEMORY_ERROR"} THEN "SUSPEND" ELSE "ERROR"
    /\ result' = IF r = "MEMORY_ERROR" THEN "MEM_ERROR"
                 ELSE IF r \in NetworkErrors THEN "NETWORK_ERROR" ELSE result
    /\ UNCHANGED <<retry, parserVars>>

\* The end of PkgDwlInit: the parser is reset and the download is launched
LaunchDownload(known) ==
  /\ ws' = [ws EXCEPT !.fwResult = "NORMAL", !.sizeKnown = known]
  /\ state' = "DOWNLOAD" /\ retry' = 0 /\ updateResult' = "NORMAL"
  /\ ResetParser
  /\ UNCHANGED <<result, cache>>

PkgDwlInit ==
  /\ pc = "loop" /\ state = "INIT"
  /\ updateOffset' = IF ws.offset > 0 THEN written ELSE 0
  /\ \/ ws.sizeKnown /\ LaunchDownload(TRUE)
     \/ /\ ~ws.sizeKnown
        /\ \E r \in SizeResults(ws) :
             IF r = "OK" THEN \E known \in SizeKnown : LaunchDownload(known)
                         ELSE SizeFailed(r)
  /\ UNCHANGED <<pc, offset, tmpLen, downloadedLen, processedLen, updateGap, certified,
                 dwlPos, tmpOk, netVars, storeVars, sessions>>

-----------------------------------------------------------------------------
(* PKG_DWL_DOWNLOAD *)

\* LoadResumeData: bytes of the binary that were parsed but that the platform
\* has not processed; they are downloaded again and not digested again
ResumeGap == ws.binarySize - ws.remaining - updateOffset

\* Mutant: the data downloaded again are not counted
ResumedRemaining_Stored == ws.remaining

\* The binary data still to come, with those that are downloaded again
ResumedRemaining == ws.remaining + ResumeGap

ResumeDataValid ==
  /\ ws.offset > 0
  /\ ws.remaining + updateOffset <= ws.binarySize
  /\ ResumeGap <= ws.offset

NeedsResumeData == retry = 0 /\ updateOffset > 0

\* LoadResumeData refuses the stored workspace: the download fails
RefuseResume ==
  /\ NeedsResumeData /\ ~ResumeDataValid
  /\ updateResult' = UpdateResult("CONNECTION")
  /\ state' = "ERROR"
  /\ cache' = ws
  /\ updateGap' = IF ws.offset > 0 /\ ResumeGap >= 0 THEN ResumeGap ELSE updateGap
  /\ UNCHANGED <<pc, result, offset, parserVars, ws, netVars>>

\* downloader_StartDownload, asked for the bytes from position from on, returned
\* r: where the state machine goes
StartOutcome(r, from) ==
  \/ /\ r = "OK"
     /\ result' = "OK" /\ state' = "PARSE" /\ pc' = "wait"
     /\ xfer' = TRUE /\ srvPos' = from
     /\ UNCHANGED updateResult
  \/ /\ r \in NetworkErrors \cup {"CONNECTION_ERROR"}
     /\ result' = "RETRY_FAILED" /\ state' = "DOWNLOAD" /\ pc' = "wait"
     /\ UNCHANGED <<updateResult, netVars>>
  \/ /\ r = "MEMORY_ERROR"
     /\ result' = "MEM_ERROR" /\ state' = "SUSPEND"
     /\ UNCHANGED <<pc, updateResult, netVars>>
  \/ /\ r = "INVALID_ARG"
     /\ updateResult' = IF updateResult = "NORMAL" THEN UpdateResult("URI") ELSE updateResult
     /\ state' = "ERROR"
     /\ UNCHANGED <<pc, result, netVars>>
  \/ /\ r = "CERTIF_ERROR"
     /\ updateResult' = UpdateResult("PROTOCOL")
     /\ state' = "ERROR" /\ result' = "FAULT"
     /\ UNCHANGED <<pc, netVars>>
  \/ /\ r \in {"PARTIAL_FILE", "ERROR"}
     /\ updateResult' = UpdateResult("CONNECTION")
     /\ state' = "ERROR"
     /\ UNCHANGED <<pc, result, netVars>>

\* The download request.  On the first attempt of a session the position is
\* taken from the workspace, if there is something to resume, and the update
\* state becomes DOWNLOADING.
RequestDownload ==
  /\ NeedsResumeData => ResumeDataValid
  /\ IF NeedsResumeData
     THEN /\ updateGap' = ResumeGap
          /\ offset' = ws.offset - ResumeGap
          /\ part' = BinPart /\ remaining' = ResumedRemaining /\ sha' = ws.sha
          /\ cache' = [ws EXCEPT !.offset = offset', !.remaining = remaining']
     ELSE UNCHANGED <<updateGap, offset, parserVars, cache>>
  /\ ws' = IF retry = 0 THEN [ws EXCEPT !.fwState = "DOWNLOADING"] ELSE ws
  /\ \E r \in IF ws.url THEN DownloaderResults ELSE {"INVALID_ARG"} : StartOutcome(r, offset')

\* All retries are used: the error the platform reports decides.  When a part of
\* the package was stored, an unreachable server counts as a timeout.
GiveUp(r) ==
  LET stored == ws.binarySize # ws.remaining
      e == IF r = "CONNECTION_ERROR" /\ stored THEN "TIMEOUT" ELSE r
  IN \/ /\ e = "OK"
        /\ UNCHANGED <<state, result, updateResult>>
     \/ /\ e \in NetworkErrors
        /\ state' = "SUSPEND" /\ result' = "NETWORK_ERROR" /\ UNCHANGED updateResult
     \/ /\ e = "MEMORY_ERROR"
        /\ state' = "SUSPEND" /\ result' = "MEM_ERROR" /\ UNCHANGED updateResult
     \/ /\ e \in {"INVALID_ARG", "CONNECTION_ERROR", "CERTIF_ERROR", "PARTIAL_FILE", "ERROR"}
        /\ state' = "ERROR" /\ result' = "FAULT"
        /\ updateResult' =
             CASE e = "CERTIF_ERROR" -> UpdateResult("PROTOCOL")
               [] e \in {"PARTIAL_FILE", "ERROR"} -> UpdateResult("CONNECTION")
               [] OTHER -> IF updateResult = "NORMAL" THEN UpdateResult("URI")
                                                      ELSE updateResult

PkgDwlDownload ==
  /\ pc = "loop" /\ state = "DOWNLOAD"
  /\ \/ /\ retry >= DWL_RETRIES
        /\ \E r \in LastErrors : GiveUp(r)
        /\ UNCHANGED <<pc, offset, updateGap, parserVars, ws, cache, netVars>>
     \/ retry < DWL_RETRIES /\ RefuseResume
     \/ retry < DWL_RETRIES /\ RequestDownload
  /\ UNCHANGED <<retry, tmpLen, downloadedLen, processedLen, certified, updateOffset, dwlPos,
                 tmpOk, storeVars, sessions>>

-----------------------------------------------------------------------------
(* PKG_DWL_PARSE *)

\* HashData of the len bytes to parse; aligned tells whether they are the bytes
\* that follow offset.  What a previous session digested before a replay is
\* skipped.  UPCK and SIGN sections know no replay, SIGN is not digested.
HashData(len, aligned) ==
  LET skip == IF Section(part) # "BINA" THEN 0 ELSE IF len <= updateGap THEN len ELSE updateGap
  IN /\ updateGap' = updateGap - skip
     /\ sha' = IF Section(part) = "SIGN" \/ skip = len THEN sha
               ELSE IF aligned /\ sha = offset + skip THEN offset + len ELSE BAD

\* BufferAndSetDataToParse: too little for the subsection; the data are kept, if
\* the temporary buffer is large enough.  downloadedLen is left as it is.
BufferData ==
  /\ part # BinPart /\ tmpLen + downloadedLen < Size(part)
  /\ \/ /\ tmpLen + downloadedLen <= TmpMax
        /\ tmpOk' = (tmpOk /\ (downloadedLen = 0 \/ dwlPos = offset + tmpLen))
        /\ tmpLen' = tmpLen + downloadedLen
        /\ processedLen' = downloadedLen
        /\ result' = "OK" /\ pc' = "wait"
        /\ UNCHANGED <<state, updateResult>>
     \/ /\ tmpLen + downloadedLen > TmpMax
        /\ result' = "FAULT" /\ state' = "ERROR" /\ updateResult' = UpdateResult("CONNECTION")
        /\ UNCHANGED <<pc, tmpOk, tmpLen, processedLen>>
  /\ UNCHANGED <<offset, downloadedLen, dwlPos, updateGap, certified, parserVars>>

\* The subsection started in the temporary buffer does not fit into it
SubsectionTooLong ==
  /\ part # BinPart /\ tmpLen > 0
  /\ tmpLen + downloadedLen >= Size(part) /\ tmpLen + Size(part) > TmpMax
  /\ result' = "FAULT" /\ state' = "ERROR" /\ updateResult' = UpdateResult("CONNECTION")
  /\ UNCHANGED <<pc, offset, tmpLen, tmpOk, downloadedLen, dwlPos, processedLen, updateGap,
                 certified, parserVars>>

\* Mutant: the CRC is not compared
Verdicts_NoCrc(inPlace) ==
  CASE Subsection(part) = "PROLOG" -> {"accepted", "notDwl", "badSection"}
    [] part = 3                    -> {"accepted", "badSection"}
    [] part = NParts               -> {"accepted", "forged"}
    [] OTHER                       -> {"accepted"}

\* What the parser of the subsection can answer, the subsection being in place or
\* not.  Prologs and the UPCK header are checked; the CRC and the signature hold
\* only for a package that was digested entirely, and fail for a forged one.
Verdicts(inPlace) ==
  CASE Subsection(part) = "PROLOG" -> {"accepted", "notDwl", "badSection"}
    [] part = 3                    -> {"accepted", "badSection"}
    [] part = NParts               ->
         (IF inPlace /\ sha = HashEnd THEN {"accepted"} ELSE {}) \cup {"forged"}
    [] OTHER                       -> {"accepted"}

\* CleanAndUpdateDwlCounters, fromTmp being taken from the downloaded data when
\* the subsection is completed in the temporary buffer
CleanAndUpdateDwlCounters(processed, fromTmp) ==
  /\ offset' = offset + processed
  /\ LET used == IF tmpLen > 0 THEN fromTmp ELSE processed
     IN dwlPos' = dwlPos + used /\ downloadedLen' = downloadedLen - used
  /\ tmpLen' = 0 /\ tmpOk' = TRUE
  /\ pc' = IF downloadedLen' = 0 THEN "wait" ELSE "loop"

\* Every subsection but the binary data: parsed as a whole, from the temporary
\* buffer when it was begun there
ParseSubsection ==
  LET rest    == Size(part) - tmpLen
      inPlace == /\ tmpOk
                 /\ rest = 0 \/ dwlPos = offset + tmpLen
  IN
  /\ part # BinPart /\ tmpLen + downloadedLen >= Size(part)
  /\ tmpLen > 0 => tmpLen + Size(part) <= TmpMax
  /\ \E verdict \in Verdicts(inPlace) :
       /\ processedLen' = IF verdict = "notDwl" THEN 0 ELSE Size(part)
       /\ CleanAndUpdateDwlCounters(processedLen', rest)
       /\ \/ /\ verdict = "accepted" /\ part # NParts
             /\ HashData(Size(part), inPlace)
             /\ part' = part + 1
             /\ remaining' = IF part + 1 = BinPart THEN BinLen ELSE remaining
             /\ result' = "OK"
             /\ UNCHANGED <<state, updateResult, certified>>
          \/ /\ verdict = "accepted" /\ part = NParts
             /\ certified' = TRUE /\ result' = "OK" /\ state' = "END"
             /\ ResetParser
             /\ UNCHANGED <<updateResult, updateGap>>
          \/ /\ verdict \in {"notDwl", "badSection"}
             /\ updateResult' = UpdateResult("PKG_TYPE")
             /\ result' = "FAULT" /\ state' = "ERROR"
             /\ ResetParser
             /\ UNCHANGED <<certified, updateGap>>
          \/ /\ verdict = "forged"
             /\ certified' = FALSE /\ updateResult' = UpdateResult("VERIFY")
             /\ result' = "FAULT" /\ state' = "ERROR"
             /\ ResetParser
             /\ UNCHANGED updateGap

\* The binary data that can be parsed: what was downloaded of them
BinaryLen == IF downloadedLen <= remaining THEN downloadedLen ELSE remaining

ParseDwlBinary ==
  /\ part = BinPart
  /\ processedLen' = BinaryLen /\ remaining' = remaining - BinaryLen
  /\ HashData(BinaryLen, dwlPos = offset)
  /\ result' = "OK" /\ state' = "STORE"
  /\ UNCHANGED <<pc, updateResult, offset, tmpLen, tmpOk, downloadedLen, dwlPos, certified, part>>

PkgDwlParse ==
  /\ pc = "loop" /\ state = "PARSE"
  /\ BufferData \/ SubsectionTooLong \/ ParseSubsection \/ ParseDwlBinary
  /\ UNCHANGED <<retry, updateOffset, ws, cache, netVars, storeVars, sessions>>

-----------------------------------------------------------------------------
(* PKG_DWL_STORE *)

\* lwm2mcore_WritePackageData appends the parsed data to what the platform holds
WritePackageData ==
  /\ written' = written + processedLen
  /\ storedOk' = (storedOk /\ (processedLen = 0 \/ dwlPos = Start[BinPart] + written))
  /\ UNCHANGED flushed

\* Mutant: the copy in RAM is not read before it is written
UpdateAndStorePkgDwlWorkspace_Unread ==
  /\ ws' = [cache EXCEPT !.offset = offset + processedLen, !.binarySize = BinLen,
                         !.remaining = remaining, !.sha = sha]
  /\ cache' = ws'

\* Mutant: the remaining data are those before the chunk
UpdateAndStorePkgDwlWorkspace_Before ==
  /\ ws' = [(IF cache.url THEN cache ELSE ws) EXCEPT
              !.offset = offset + processedLen, !.binarySize = BinLen,
              !.remaining = remaining + processedLen, !.sha = sha]
  /\ cache' = ws'

\* UpdateAndStorePkgDwlWorkspace writes the whole copy in RAM, read before only if
\* it has no URL
UpdateAndStorePkgDwlWorkspace ==
  /\ ws' = [(IF cache.url THEN cache ELSE ws) EXCEPT
              !.offset = offset + processedLen, !.binarySize = BinLen,
              !.remaining = remaining, !.sha = sha]
  /\ cache' = ws'

PkgDwlStore ==
  /\ pc = "loop" /\ state = "STORE"
  /\ \/ /\ WritePackageData
        /\ UpdateAndStorePkgDwlWorkspace
        /\ part' = IF remaining = 0 THEN BinPart + 1 ELSE part
        /\ CleanAndUpdateDwlCounters(processedLen, 0)
        /\ state' = "PARSE"
        /\ UNCHANGED <<result, updateResult>>
     \/ /\ "writeFails" \in Faults
        /\ state' = "ERROR" /\ result' = "FAULT" /\ updateResult' = UpdateResult("PKG_TYPE")
        /\ UNCHANGED <<pc, offset, tmpLen, tmpOk, downloadedLen, dwlPos, part, ws, cache, storeVars>>
  /\ UNCHANGED <<retry, processedLen, updateGap, certified, updateOffset, remaining, sha, netVars,
                 sessions>>

\* Power loss between the two writes of PkgDwlStore
TornStore ==
  /\ "tornStore" \in Faults /\ pc = "loop" /\ state = "STORE"
  /\ WritePackageData
  /\ Restart
  /\ UNCHANGED ws

-----------------------------------------------------------------------------
(* PKG_DWL_ERROR, PKG_DWL_END, PKG_DWL_SUSPEND *)

PkgDwlError ==
  /\ pc = "loop" /\ state = "ERROR"
  /\ state' = "END"
  /\ UNCHANGED <<pc, retry, result, updateResult, offset, tmpLen, downloadedLen, processedLen,
                 updateGap, certified, updateOffset, dwlPos, tmpOk, parserVars, ws, cache, netVars,
                 storeVars, sessions>>

\* Mutant: a failed download leaves the update state as it is
Outcome_StateKept(w) ==
  IF updateResult = "NORMAL" THEN [w EXCEPT !.fwState = "DOWNLOADED"]
  ELSE [w EXCEPT !.fwResult = updateResult]

\* The update result and state that PkgDwlEnd stores
Outcome(w) ==
  IF updateResult = "NORMAL" THEN [w EXCEPT !.fwState = "DOWNLOADED"]
  ELSE [w EXCEPT !.fwResult = updateResult, !.fwState = "IDLE"]

\* The download end event erases the resume information
PkgDwlEnd ==
  /\ pc = "loop" /\ state = "END"
  /\ ws' = DeleteResumeInfo(Outcome(ws)) /\ cache' = ws'
  /\ pc' = "wait"
  /\ UNCHANGED <<objVars, parserVars, netVars, storeVars, sessions>>

\* Power loss before the resume information is erased
TornEnd ==
  /\ "tornEnd" \in Faults /\ pc = "loop" /\ state = "END"
  /\ ws' = Outcome(ws)
  /\ Restart
  /\ UNCHANGED storeVars

\* Mutant: the end of processing is not signalled
PkgDwlSuspend_Endless ==
  /\ pc = "loop" /\ state = "SUSPEND"
  /\ xfer' = FALSE
  /\ UNCHANGED <<pc, objVars, parserVars, ws, cache, srvPos, storeVars, sessions>>

PkgDwlSuspend ==
  /\ pc = "loop" /\ state = "SUSPEND"
  /\ pc' = "wait" /\ xfer' = FALSE
  /\ UNCHANGED <<objVars, parserVars, ws, cache, srvPos, storeVars, sessions>>

-----------------------------------------------------------------------------
Handler == \/ PkgDwlInit \/ PkgDwlDownload \/ PkgDwlParse \/ PkgDwlStore
           \/ PkgDwlError \/ PkgDwlEnd \/ PkgDwlSuspend

Next == \/ Handler
        \/ SetUpdatePackageUri \/ PackageDownloadHandler
        \/ \E fresh \in BOOLEAN : StartPackageDownloader(fresh)
        \/ \E n \in Chunks : ReceiveData(n)
        \/ TransferBreaks \/ RequestDownloadRetry \/ HandlePackageDownloader
        \/ EndSession \/ PowerLoss \/ TornStore \/ TornEnd

Spec == Init /\ [][Next]_vars

\* The thread that called into the downloader runs until the loop is left
FairSpec == Spec /\ WF_vars(Handler)

\* The client follows a session that was started: the transport delivers data or
\* breaks, a broken one is retried, a complete or failed one is handled to its end
ClientSpec ==
  /\ FairSpec
  /\ WF_vars((\E n \in Chunks : ReceiveData(n)) \/ TransferBreaks)
  /\ WF_vars(RequestDownloadRetry)
  /\ WF_vars(HandlePackageDownloader)

-----------------------------------------------------------------------------
(* Properties *)

TypeOK ==
  /\ pc \in {"off", "loop", "wait"} /\ state \in States /\ retry \in 0..DWL_RETRIES
  /\ result \in DwlResults /\ updateResult \in FwResults
  /\ offset \in Nat /\ tmpLen \in 0..TmpMax /\ downloadedLen \in Nat /\ processedLen \in Nat
  /\ updateGap \in Nat /\ certified \in BOOLEAN /\ updateOffset \in Nat
  /\ part \in 1..NParts /\ remaining \in 0..BinLen /\ sha \in Nat \cup {BAD}
  /\ dwlPos \in Nat /\ tmpOk \in BOOLEAN
  /\ ws \in Workspace /\ cache \in Workspace
  /\ xfer \in BOOLEAN /\ srvPos \in Nat
  /\ written \in Nat /\ storedOk \in BOOLEAN /\ flushed \in Nat
  /\ sessions \in 0..MaxSessions

\* PkgDwlObj.offset, the subsection that is expected and the binary data still to
\* come tell the same place of the file
PositionAgrees ==
  IF part = BinPart
  THEN offset + (IF state = "STORE" THEN processedLen ELSE 0) = Start[BinPart + 1] - remaining
  ELSE offset = Start[part]

\* While data are received, the position PkgDwlObj.offset, the subsection that is
\* expected and the binary data still to come tell the same place of the file,
\* through buffering, retries, suspended sessions and power losses.
PositionMatchesRemaining ==
  (pc # "off" /\ state \in {"PARSE", "STORE"}) => PositionAgrees

\* The server is told that the package is downloaded (object 5, state DOWNLOADED)
\* only when the platform holds the whole binary, each byte at its place.
DownloadedMeansStored ==
  ws.fwState = "DOWNLOADED" => written = BinLen /\ storedOk

\* A session that resumes never finds the workspace and the progress of the
\* platform contradictory, which would throw away what was downloaded.
ResumeIsAccepted ==
  (pc = "loop" /\ state = "DOWNLOAD" /\ retry < DWL_RETRIES /\ NeedsResumeData) => ResumeDataValid

\* While a package is received, the server reads DOWNLOADING in the update state
DownloadingIsVisible ==
  (pc # "off" /\ state \in {"PARSE", "STORE"}) => ws.fwState = "DOWNLOADING"

\* The server reads DOWNLOADING only as long as there is a package to download
DownloadingMeansOnGoing == ws.fwState = "DOWNLOADING" => ws.url

\* Every call into the downloader returns to the client
HandleReturns == pc = "loop" ~> pc # "loop"

\* A session that a client follows comes to its end, or is suspended: it neither
\* loops in the retries nor waits for data that nobody will deliver.
SessionSettles ==
  pc # "off" ~> (pc = "off" \/ (pc = "wait" /\ state \in {"END", "SUSPEND"}))

=============================================================================
