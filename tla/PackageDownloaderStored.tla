----------------------- MODULE PackageDownloaderStored -----------------------
(***************************************************************************)
(* What is proved of PackageDownloader about the data the platform holds:  *)
(* the update state that the server reads tells the truth, and a session   *)
(* that resumes finds a workspace that agrees with the platform.           *)
(*                                                                         *)
(* Both need that no power loss falls inside a handler and that a failed   *)
(* request leaves an HTTP code: the run noResponse and the faults          *)
(* tornStore and tornEnd show what happens otherwise.                      *)
(***************************************************************************)
EXTENDS PackageDownloaderProofs

-----------------------------------------------------------------------------
(* The invariant behind what the server is told, when no power loss falls inside a *)
(* handler and a failed request always leaves an HTTP code                         *)

NoTornWrite ==
  /\ "tornStore" \notin Faults /\ "tornEnd" \notin Faults
  /\ "zero" \notin HttpErrors /\ "success" \notin HttpErrors

\* The session has asked for data, and not come to its end
Receiving ==
  /\ pc # "off"
  /\ \/ state \in {"PARSE", "STORE"}
     \/ state = "DOWNLOAD" /\ (retry > 0 \/ pc = "wait")

\* The update state in the workspace and in its copy
VisibleInv ==
  /\ Receiving => ws.fwState = "DOWNLOADING"
  /\ ws.fwState = "DOWNLOADED" => ~ws.url
  /\ ws.offset > 0 => ws.fwState = "DOWNLOADING"
  /\ cache.url => cache.fwState = "DOWNLOADING"

\* What the platform holds, compared with what the workspace says to resume from
ResumeInv ==
  /\ ws.url /\ ws.offset = 0 => written = 0
  /\ ws.offset > 0 => written + ws.remaining <= BinLen
  /\ pc # "off" /\ state = "INIT" => ws.url
  /\ pc = "loop" /\ state = "DOWNLOAD" /\ retry = 0 =>
       updateOffset = written /\ (written > 0 => ws.offset > 0)

\* The platform holds what precedes the binary data still to come
StoredLenInv ==
  Receiving =>
    /\ part < BinPart => written = 0
    /\ part = BinPart =>
         written + remaining + (IF state = "STORE" THEN processedLen ELSE 0) = BinLen
    /\ part > BinPart => written = BinLen

\* Once a byte was stored out of place, the digest is spoilt, for this session and
\* for those that resume it
DigestInv ==
  /\ written = 0 => storedOk
  /\ Receiving => storedOk \/ sha = BAD
  /\ pc # "off" /\ state = "STORE" /\ processedLen > 0 /\ dwlPos # offset => sha = BAD
  /\ ws.offset > 0 => storedOk \/ ws.sha = BAD

\* As long as data are replayed, the data received are the expected ones: without
\* it, bytes could be stored out of place and not digested
ReplayInv ==
  /\ state \in {"INIT", "DOWNLOAD"} => downloadedLen = 0
  /\ state = "INIT" => updateGap = 0
  /\ state = "DOWNLOAD" /\ retry = 0 /\ pc = "loop" => updateGap = 0
  /\ Receiving /\ updateGap > 0 =>
       /\ part = BinPart /\ updateGap <= remaining
       /\ state # "DOWNLOAD" =>
            /\ pc = "wait" => downloadedLen = 0
            /\ downloadedLen > 0 => dwlPos = offset
            /\ xfer => srvPos = offset + downloadedLen

\* A session ends without an error only when everything was stored
EndInv ==
  pc # "off" /\ state \in {"END", "ERROR"} /\ updateResult = "NORMAL" =>
    state = "END" /\ written = BinLen /\ storedOk

ReportInv ==
  /\ VisibleInv /\ ResumeInv /\ StoredLenInv /\ DigestInv /\ ReplayInv /\ EndInv
  /\ DownloadedMeansStored

StoredInv == IndInv /\ ReportInv

-----------------------------------------------------------------------------
(* The invariant holds initially and every action preserves it *)

LEMMA InitReport == Init => ReportInv
<1> SUFFICES ASSUME Init PROVE ReportInv
  OBVIOUS
<1> USE DEF Init, DefaultWorkspace, Receiving
<1>1. VisibleInv /\ ResumeInv
  BY DEF VisibleInv, ResumeInv
<1>2. StoredLenInv /\ DigestInv /\ ReplayInv /\ EndInv /\ DownloadedMeansStored
  BY DEF StoredLenInv, DigestInv, ReplayInv, EndInv, DownloadedMeansStored
<1> QED
  BY <1>1, <1>2 DEF ReportInv

\* A power loss between two handlers
LEMMA PowerLossReport ==
  ASSUME StoredInv, PowerLoss
  PROVE  ReportInv'
<1> USE DEF StoredInv, ReportInv, PowerLoss, Restart, ResetPackageDownloader, storeVars, Receiving
<1>1. VisibleInv'
  BY DEF VisibleInv, DefaultWorkspace
<1>2. ResumeInv' /\ StoredLenInv' /\ DigestInv' /\ ReplayInv' /\ EndInv' /\ DownloadedMeansStored'
  BY DEF ResumeInv, StoredLenInv, DigestInv, ReplayInv, EndInv, DownloadedMeansStored
<1> QED
  BY <1>1, <1>2

\* The transport and the client
LEMMA EnvironmentReport ==
  ASSUME StoredInv
  PROVE  /\ TransferBreaks => ReportInv'
         /\ HandlePackageDownloader => ReportInv'
         /\ EndSession => ReportInv'
         /\ \A n \in Chunks : ReceiveData(n) => ReportInv'
         /\ RequestDownloadRetry => ReportInv'
<1> USE DEF StoredInv, ReportInv, objVars, parserVars, netVars, storeVars
<1>1. ASSUME TransferBreaks PROVE ReportInv'
  BY <1>1
  DEF TransferBreaks, Receiving, VisibleInv, ResumeInv, StoredLenInv, DigestInv, ReplayInv, EndInv,
      DownloadedMeansStored
<1>2. ASSUME HandlePackageDownloader PROVE ReportInv'
  BY <1>2
  DEF IndInv, StateInv, HandlePackageDownloader, Receiving, VisibleInv, ResumeInv, StoredLenInv, DigestInv,
      ReplayInv, EndInv, DownloadedMeansStored
<1>3. ASSUME EndSession PROVE ReportInv'
  BY <1>3
  DEF EndSession, Receiving, VisibleInv, ResumeInv, StoredLenInv, DigestInv, ReplayInv, EndInv,
      DownloadedMeansStored
<1>4. ASSUME NEW n \in Chunks, ReceiveData(n) PROVE ReportInv'
  BY <1>4, BoundsAssumption
  DEF IndInv, TypeOK, StateInv, BoundsAssumption, ReceiveData, Receiving, VisibleInv, ResumeInv, StoredLenInv, DigestInv, ReplayInv, EndInv,
      DownloadedMeansStored
<1>5. ASSUME RequestDownloadRetry PROVE ReportInv'
  BY <1>5
  DEF IndInv, TypeOK, RequestDownloadRetry, Receiving, VisibleInv, ResumeInv, StoredLenInv, DigestInv, ReplayInv,
      EndInv, DownloadedMeansStored
<1> QED
  BY <1>1, <1>2, <1>3, <1>4, <1>5

\* The server sets a new URL, or the download timer asks for the package size
LEMMA UriReport ==
  ASSUME StoredInv, NoTornWrite
  PROVE  /\ SetUpdatePackageUri => ReportInv'
         /\ PackageDownloadHandler => ReportInv'
<1> USE DEF StoredInv, ReportInv, objVars, parserVars, netVars, storeVars
<1>0. ws \in Workspace /\ cache \in Workspace
  BY DEF IndInv, TypeOK
<1>1. ASSUME SetUpdatePackageUri PROVE ReportInv'
  <2>1. /\ pc = "off" /\ pc' = "off" /\ written' = 0 /\ storedOk' = TRUE
        /\ UNCHANGED <<state, retry, updateResult, updateGap, downloadedLen>>
    BY <1>1 DEF SetUpdatePackageUri
  <2>2. ws'.offset = 0 /\ ws'.fwState = "IDLE" /\ cache'.url = FALSE
    BY <1>0, <1>1, DeleteResumeInfoFacts DEF SetUpdatePackageUri, Workspace
  <2> QED
    BY <2>1, <2>2
    DEF Receiving, VisibleInv, ResumeInv, StoredLenInv, DigestInv, ReplayInv, EndInv,
        DownloadedMeansStored
<1>2. ASSUME PackageDownloadHandler PROVE ReportInv'
  <2>1. /\ pc = "off" /\ pc' = "off"
        /\ UNCHANGED <<state, retry, updateGap, downloadedLen, written, storedOk>>
    BY <1>2 DEF PackageDownloadHandler
  <2>2. \/ /\ ws'.offset = ws.offset /\ ws'.url = ws.url /\ ws'.fwState = ws.fwState
           /\ ws'.remaining = ws.remaining /\ ws'.sha = ws.sha /\ cache' = cache
        \/ /\ ws'.offset = 0 /\ ws'.url = FALSE /\ ws'.fwState = ws.fwState
           /\ cache'.url = FALSE
    <3>1. CASE \E known \in SizeKnown : ws' = [ws EXCEPT !.sizeKnown = known] /\ cache' = cache
      BY <1>0, <3>1 DEF Workspace
    <3>2. CASE \E r \in SizeResults(ws) :
                 \E o \in SizeErrorOutcomes(r, updateResult, ws.fwResult) :
                    /\ r # "OK"
                    /\ ws' = DeleteResumeInfo([ws EXCEPT !.fwResult = o.fw])
                    /\ cache' = DeleteResumeInfo([ws EXCEPT !.fwResult = o.fw])
      <4>1. PICK r \in SizeResults(ws) :
                 \E o \in SizeErrorOutcomes(r, updateResult, ws.fwResult) :
                    /\ ws' = DeleteResumeInfo([ws EXCEPT !.fwResult = o.fw])
                    /\ cache' = DeleteResumeInfo([ws EXCEPT !.fwResult = o.fw])
        BY <3>2
      <4>2. PICK o \in SizeErrorOutcomes(r, updateResult, ws.fwResult) :
                    /\ ws' = DeleteResumeInfo([ws EXCEPT !.fwResult = o.fw])
                    /\ cache' = DeleteResumeInfo([ws EXCEPT !.fwResult = o.fw])
        BY <4>1
      <4>3. /\ [ws EXCEPT !.fwResult = o.fw] \in Workspace
            /\ [ws EXCEPT !.fwResult = o.fw].fwState = ws.fwState
        <5>1. r \in DownloaderResults
          BY DEF SizeResults, DownloaderResults
        <5>2. ws.fwResult \in FwResults /\ updateResult \in FwResults
          BY <1>0 DEF IndInv, TypeOK, Workspace
        <5>3. o.fw \in FwResults
          BY <5>1, <5>2, SizeErrorOutcomesType
        <5> QED
          BY <1>0, <5>3 DEF Workspace
      <4> QED
        BY <4>2, <4>3, DeleteResumeInfoFacts
    <3> QED
      BY <1>2, <3>1, <3>2 DEF PackageDownloadHandler
  <2> QED
    BY <2>1, <2>2
    DEF Receiving, VisibleInv, ResumeInv, StoredLenInv, DigestInv, ReplayInv, EndInv,
        DownloadedMeansStored
<1> QED
  BY <1>1, <1>2

\* A session starts: what the platform holds may be less than it was, never more
LEMMA StartReport ==
  ASSUME StoredInv, NEW fresh \in BOOLEAN, StartPackageDownloader(fresh)
  PROVE  ReportInv'
<1> USE DEF StoredInv, ReportInv, StartPackageDownloader, ResetPackageDownloader, parserVars
<1>1. /\ written' \in Nat /\ written' <= written /\ written \in Nat
      /\ written' = 0 => storedOk'
      /\ storedOk => storedOk'
  <2>1. CASE written' = 0 /\ flushed' = 0 /\ storedOk' = TRUE
    BY <2>1 DEF IndInv, TypeOK
  <2>2. CASE \E w \in flushed..written :
               written' = w /\ flushed' = w /\ storedOk' = (storedOk \/ w = 0)
    <3>1. PICK w \in flushed..written : written' = w /\ storedOk' = (storedOk \/ w = 0)
      BY <2>2
    <3>2. w \in Nat /\ w <= written /\ written \in Nat
      BY DEF IndInv, TypeOK
    <3>3. (w = 0 => storedOk') /\ (storedOk => storedOk')
      BY <3>1, Zenon
    <3> QED
      BY <3>1, <3>2, <3>3
  <2> QED
    BY <2>1, <2>2
<1>2. ws.offset \in Nat /\ ws.remaining \in Nat /\ BinLen \in Nat
  BY LayoutFacts DEF IndInv, TypeOK, Workspace
<1> QED
  BY <1>1, <1>2
  DEF Receiving, VisibleInv, ResumeInv, StoredLenInv, DigestInv, ReplayInv, EndInv,
      DownloadedMeansStored

-----------------------------------------------------------------------------
(* The handlers of the state machine *)

\* When a failed request leaves an HTTP code, the failure is told
LEMMA SizeErrorReported ==
  ASSUME NoTornWrite, NEW r \in DownloaderResults, NEW a, NEW b,
         NEW o \in SizeErrorOutcomes(r, a, b)
  PROVE  o.obj # "NORMAL"
<1>1. \A h \in HttpErrors : h # "success" /\ HttpUpdateResult(h, a) # "NORMAL"
  BY EnvironmentAssumption
  DEF EnvironmentAssumption, NoTornWrite, HttpKinds, HttpUpdateResult, UpdateResult
<1>2. UpdateResult("URI") # "NORMAL" /\ UpdateResult("PROTOCOL") # "NORMAL"
  BY DEF UpdateResult
<1> QED
  BY <1>1, <1>2 DEF SizeErrorOutcomes

LEMMA PkgDwlInitReport ==
  ASSUME StoredInv, NoTornWrite, PkgDwlInit
  PROVE  ReportInv'
<1> USE DEF StoredInv, ReportInv, netVars, storeVars
<1>0. /\ ws \in Workspace /\ ws.url /\ pc = "loop" /\ state = "INIT" /\ pc' = "loop"
      /\ updateOffset' = (IF ws.offset > 0 THEN written ELSE 0)
      /\ written \in Nat /\ ws.offset \in Nat
      /\ UNCHANGED <<downloadedLen, processedLen, updateGap, offset, dwlPos, xfer, srvPos,
                     written, storedOk>>
  BY DEF PkgDwlInit, IndInv, TypeOK, Workspace, ResumeInv
<1>1. CASE \E known \in BOOLEAN : LaunchDownload(known)
  <2>1. /\ state' = "DOWNLOAD" /\ retry' = 0 /\ updateResult' = "NORMAL" /\ cache' = cache
        /\ \E known \in BOOLEAN : ws' = [ws EXCEPT !.fwResult = "NORMAL", !.sizeKnown = known]
    BY <1>1 DEF LaunchDownload
  <2>2. /\ ws'.offset = ws.offset /\ ws'.url = ws.url /\ ws'.fwState = ws.fwState
        /\ ws'.remaining = ws.remaining /\ ws'.sha = ws.sha
    BY <1>0, <2>1 DEF Workspace
  <2> QED
    BY <1>0, <2>1, <2>2
    DEF Receiving, VisibleInv, ResumeInv, StoredLenInv, DigestInv, ReplayInv, EndInv,
        DownloadedMeansStored
<1>2. CASE \E r \in SizeResults(ws) : SizeFailed(r)
  <2>1. PICK r \in SizeResults(ws) : SizeFailed(r)
    BY <1>2
  <2>2. r \in DownloaderResults
    BY DEF SizeResults, DownloaderResults
  <2>3. PICK o \in SizeErrorOutcomes(r, "NORMAL", "NORMAL") :
          /\ updateResult' = o.obj
          /\ ws' = DeleteResumeInfo([ws EXCEPT !.fwResult = o.fw])
    BY <2>1 DEF SizeFailed
  <2>4. updateResult' # "NORMAL"
    BY <2>2, <2>3, SizeErrorReported
  <2>5. o.fw \in FwResults
    BY <2>2, SizeErrorOutcomesType DEF FwResults
  <2>6. [ws EXCEPT !.fwResult = o.fw] \in Workspace
        /\ [ws EXCEPT !.fwResult = o.fw].fwState = ws.fwState
    BY <1>0, <2>5 DEF Workspace
  <2>7. ws'.offset = 0 /\ ws'.url = FALSE /\ ws'.fwState = ws.fwState
    BY <2>3, <2>6, DeleteResumeInfoFacts
  <2>8. state' \in {"SUSPEND", "ERROR"} /\ cache' = ws'
    BY <2>1 DEF SizeFailed
  <2> QED
    BY <1>0, <2>4, <2>7, <2>8
    DEF Receiving, VisibleInv, ResumeInv, StoredLenInv, DigestInv, ReplayInv, EndInv,
        DownloadedMeansStored
<1> QED
  BY <1>1, <1>2 DEF PkgDwlInit, SizeKnown

\* A download that is given up or refused leaves an error
LEMMA GiveUpReported ==
  ASSUME NEW r, GiveUp(r), state = "DOWNLOAD"
  PROVE  /\ state' \in {"DOWNLOAD", "SUSPEND", "ERROR"}
         /\ state' = "ERROR" => updateResult' # "NORMAL"
<1>1. UpdateResult("URI") # "NORMAL" /\ UpdateResult("PROTOCOL") # "NORMAL"
      /\ UpdateResult("CONNECTION") # "NORMAL"
  BY DEF UpdateResult
<1>2. state' \in {"DOWNLOAD", "SUSPEND", "ERROR"}
  BY DEF GiveUp
<1>3. state' = "ERROR" => updateResult' # "NORMAL"
  BY <1>1 DEF GiveUp
<1> QED
  BY <1>2, <1>3

LEMMA StartOutcomeReported ==
  ASSUME NEW r, NEW from, StartOutcome(r, from), ~xfer, pc = "loop"
  PROVE  /\ \/ state' = "PARSE" /\ pc' = "wait" /\ xfer' /\ srvPos' = from
            \/ state' = "DOWNLOAD" /\ pc' = "wait" /\ ~xfer'
            \/ state' \in {"SUSPEND", "ERROR"} /\ ~xfer'
         /\ state' = "ERROR" => updateResult' # "NORMAL"
<1>1. UpdateResult("URI") # "NORMAL" /\ UpdateResult("PROTOCOL") # "NORMAL"
      /\ UpdateResult("CONNECTION") # "NORMAL"
  BY DEF UpdateResult
<1> QED
  BY <1>1 DEF StartOutcome, netVars

LEMMA PkgDwlDownloadReport ==
  ASSUME StoredInv, PkgDwlDownload
  PROVE  ReportInv'
<1> USE DEF StoredInv, ReportInv, netVars, storeVars, parserVars
<1>0. /\ pc = "loop" /\ state = "DOWNLOAD" /\ ws \in Workspace /\ ~xfer /\ downloadedLen = 0
      /\ UNCHANGED <<retry, downloadedLen, processedLen, updateOffset, dwlPos, written, storedOk>>
  BY DEF PkgDwlDownload, IndInv, TypeOK, StateInv, ReplayInv
<1>1. CASE /\ retry >= DWL_RETRIES
           /\ \E r \in LastErrors : GiveUp(r)
           /\ UNCHANGED <<pc, offset, updateGap, parserVars, ws, cache, netVars>>
  <2>1. /\ state' \in {"DOWNLOAD", "SUSPEND", "ERROR"}
        /\ state' = "ERROR" => updateResult' # "NORMAL"
    BY <1>0, <1>1, GiveUpReported
  <2>2. retry > 0
    BY <1>1, BoundsAssumption DEF BoundsAssumption, IndInv, TypeOK
  <2> QED
    BY <1>0, <1>1, <2>1, <2>2
    DEF Receiving, VisibleInv, ResumeInv, StoredLenInv, DigestInv, ReplayInv, EndInv,
        DownloadedMeansStored
<1>2. CASE RefuseResume
  <2>1. /\ updateResult' # "NORMAL" /\ state' = "ERROR" /\ cache' = ws
        /\ NeedsResumeData /\ UNCHANGED <<pc, ws>>
    BY <1>2 DEF RefuseResume, UpdateResult
  <2>2. ws.fwState = "DOWNLOADING"
    BY <1>0, <2>1 DEF NeedsResumeData, VisibleInv, ResumeInv
  <2> QED
    BY <1>0, <2>1, <2>2
    DEF Receiving, VisibleInv, ResumeInv, StoredLenInv, DigestInv, ReplayInv, EndInv,
        DownloadedMeansStored
<1>3. CASE retry < DWL_RETRIES /\ RequestDownload
  <2>1. PICK r : StartOutcome(r, offset')
    BY <1>3 DEF RequestDownload
  <2>2. /\ \/ state' = "PARSE" /\ pc' = "wait" /\ xfer' /\ srvPos' = offset'
           \/ state' = "DOWNLOAD" /\ pc' = "wait" /\ ~xfer'
           \/ state' \in {"SUSPEND", "ERROR"} /\ ~xfer'
        /\ state' = "ERROR" => updateResult' # "NORMAL"
    BY <1>0, <2>1, StartOutcomeReported
  <2>3. /\ ws'.offset = ws.offset /\ ws'.url = ws.url /\ ws'.remaining = ws.remaining
        /\ ws'.sha = ws.sha
        /\ ws'.fwState = IF retry = 0 THEN "DOWNLOADING" ELSE ws.fwState
    BY <1>0, <1>3 DEF RequestDownload, Workspace
  <2>4. offset' \in Nat
    BY PkgDwlDownloadInd DEF IndInv, TypeOK
  <2>5. CASE NeedsResumeData
    <3>1. /\ updateGap' = ResumeGap /\ offset' = ws.offset - ResumeGap
          /\ part' = BinPart /\ remaining' = ResumedRemaining /\ sha' = ws.sha
          /\ cache' = [ws EXCEPT !.offset = offset', !.remaining = remaining']
          /\ ResumeDataValid
      BY <1>3, <2>5 DEF RequestDownload
    <3>2. /\ updateOffset = written /\ ws.offset > 0 /\ ws.fwState = "DOWNLOADING"
          /\ retry = 0
      BY <1>0, <2>5 DEF NeedsResumeData, ResumeInv, VisibleInv
    <3>3. cache'.fwState = "DOWNLOADING"
      BY <1>0, <3>1, <3>2 DEF Workspace
    <3>4. /\ written + remaining' = BinLen /\ updateGap' <= remaining'
          /\ remaining' \in Nat /\ written \in Nat
      <4>1. ws.remaining \in Nat /\ written \in Nat /\ ws.binarySize = BinLen /\ BinLen \in Nat
        BY <1>0, <3>2, LayoutFacts DEF IndInv, TypeOK, Workspace, WorkspaceInv
      <4> QED
        BY <3>1, <3>2, <4>1 DEF ResumeDataValid, ResumeGap, ResumedRemaining
    <3>5. BinPart \in Nat
      BY DEF BinPart
    <3>6. ws.remaining \in Nat /\ ws.remaining + written <= BinLen
      BY <1>0, <3>2, LayoutFacts DEF ResumeInv, IndInv, TypeOK, Workspace
    <3>7. VisibleInv' /\ ResumeInv' /\ EndInv' /\ DownloadedMeansStored'
      BY <1>0, <2>2, <2>3, <3>2, <3>3, <3>6
      DEF Receiving, VisibleInv, ResumeInv, EndInv, DownloadedMeansStored
    <3>8. StoredLenInv' /\ DigestInv' /\ ReplayInv'
      BY <1>0, <2>2, <2>3, <2>4, <3>1, <3>2, <3>4, <3>5
      DEF Receiving, StoredLenInv, DigestInv, ReplayInv
    <3> QED
      BY <3>7, <3>8
  <2>6. CASE ~NeedsResumeData
    <3>1. UNCHANGED <<updateGap, offset, part, remaining, sha, cache>>
      BY <1>3, <2>6 DEF RequestDownload
    <3>2. CASE retry = 0
      <4>1. written = 0 /\ storedOk /\ part = 1 /\ updateGap = 0
        BY <1>0, <2>6, <3>2
        DEF NeedsResumeData, IndInv, TypeOK, ResumeInv, StateInv, ReplayInv, DigestInv
      <4>2. ws'.fwState = "DOWNLOADING" /\ BinPart = 7
        BY <2>3, <3>2 DEF BinPart
      <4> QED
        BY <1>0, <2>2, <2>3, <2>4, <3>1, <3>2, <4>1, <4>2
        DEF Receiving, VisibleInv, ResumeInv, StoredLenInv, DigestInv, ReplayInv, EndInv,
            DownloadedMeansStored
    <3>3. CASE retry > 0
      <4>1. ws'.fwState = ws.fwState /\ retry # 0
        BY <2>3, <3>3 DEF IndInv, TypeOK
      <4> QED
        BY <1>0, <2>2, <2>3, <2>4, <3>1, <3>3, <4>1
        DEF Receiving, VisibleInv, ResumeInv, StoredLenInv, DigestInv, ReplayInv, EndInv,
            DownloadedMeansStored
    <3> QED
      BY <3>2, <3>3, BoundsAssumption DEF IndInv, TypeOK, BoundsAssumption
  <2> QED
    BY <2>5, <2>6
<1> QED
  BY <1>1, <1>2, <1>3 DEF PkgDwlDownload

LEMMA BufferDataReport ==
  ASSUME StoredInv, pc = "loop", state = "PARSE", BufferData \/ SubsectionTooLong,
         UNCHANGED <<retry, updateOffset, ws, cache, netVars, storeVars, sessions>>
  PROVE  ReportInv'
<1> USE DEF StoredInv, ReportInv, netVars, storeVars, parserVars
<1>1. /\ part # BinPart /\ updateGap = 0
      /\ \/ state' = "PARSE"
         \/ state' = "ERROR" /\ updateResult' # "NORMAL"
      /\ pc' # "off"
      /\ UNCHANGED <<offset, part, remaining, sha, updateGap>>
  <2>1. /\ part # BinPart
        /\ \/ state' = "PARSE"
           \/ state' = "ERROR" /\ updateResult' # "NORMAL"
        /\ pc' # "off"
        /\ UNCHANGED <<offset, part, remaining, sha, updateGap>>
    BY DEF BufferData, SubsectionTooLong, UpdateResult
  <2>2. updateGap = 0
    BY <2>1 DEF ReplayInv, Receiving, IndInv, TypeOK
  <2> QED
    BY <2>1, <2>2
<1> QED
  BY <1>1
  DEF Receiving, VisibleInv, ResumeInv, StoredLenInv, DigestInv, ReplayInv, EndInv,
      DownloadedMeansStored

\* A spoilt digest stays spoilt
LEMMA HashBad ==
  ASSUME TypeOK, NEW len \in Nat, NEW aligned \in BOOLEAN, HashData(len, aligned), sha = BAD
  PROVE  sha' = BAD
<1> DEFINE skip == IF Section(part) # "BINA" THEN 0
                   ELSE IF len <= updateGap THEN len ELSE updateGap
<1>1. offset + skip # BAD
  BY DEF TypeOK, BAD
<1>2. sha' \in {sha, BAD} \/ sha = offset + skip
  BY DEF HashData
<1> HIDE DEF skip
<1> QED
  BY <1>1, <1>2

\* Data that are not the expected ones spoil the digest, unless they are replayed
LEMMA HashMisplaced ==
  ASSUME TypeOK, NEW len \in Nat, HashData(len, FALSE), updateGap = 0, len > 0,
         Section(part) # "SIGN"
  PROVE  sha' = BAD
  BY DEF HashData, TypeOK

LEMMA ParseSubsectionReport ==
  ASSUME StoredInv, pc = "loop", state = "PARSE", ParseSubsection,
         UNCHANGED <<retry, updateOffset, ws, cache, netVars, storeVars, sessions>>
  PROVE  ReportInv'
<1> USE DEF StoredInv, ReportInv, netVars, storeVars
<1> DEFINE rest    == Size(part) - tmpLen
           inPlace == tmpOk /\ (rest = 0 \/ dwlPos = offset + tmpLen)
<1>1. part # BinPart
  BY DEF ParseSubsection
<1>2. PICK verdict \in Verdicts(inPlace) :
       /\ CleanAndUpdateDwlCounters(processedLen', rest)
       /\ \/ /\ verdict = "accepted" /\ part # NParts
             /\ HashData(Size(part), inPlace)
             /\ part' = part + 1
             /\ remaining' = IF part + 1 = BinPart THEN BinLen ELSE remaining
             /\ UNCHANGED <<state, updateResult>>
          \/ /\ verdict = "accepted" /\ part = NParts
             /\ state' = "END"
             /\ UNCHANGED updateResult
          \/ /\ updateResult' \in {UpdateResult("PKG_TYPE"), UpdateResult("VERIFY")}
             /\ state' = "ERROR"
  BY DEF ParseSubsection
<1>3. pc' \in {"loop", "wait"}
  BY <1>2 DEF CleanAndUpdateDwlCounters
<1>4. updateGap = 0 /\ part \in 1..NParts /\ Size(part) \in Nat /\ inPlace \in BOOLEAN
      /\ written \in Nat
  BY <1>1, LayoutFacts DEF ReplayInv, Receiving, IndInv, TypeOK
<1> HIDE DEF inPlace, rest
<1>5. CASE /\ part # NParts
           /\ HashData(Size(part), inPlace)
           /\ part' = part + 1
           /\ remaining' = IF part + 1 = BinPart THEN BinLen ELSE remaining
           /\ UNCHANGED <<state, updateResult>>
  <2>1. sha = BAD => sha' = BAD
    BY <1>4, <1>5, HashBad DEF IndInv
  <2>2. updateGap' = 0
    BY <1>4, <1>5 DEF HashData
  <2>3. StoredLenInv'
    <3>1. part < BinPart => written = 0
      BY DEF StoredLenInv, Receiving
    <3>2. part > BinPart => written = BinLen
      BY DEF StoredLenInv, Receiving
    <3>3. BinLen \in Nat /\ BinPart = 7
      BY LayoutFacts
    <3> QED
      BY <1>1, <1>4, <1>5, <3>1, <3>2, <3>3 DEF StoredLenInv
  <2>4. DigestInv' /\ ReplayInv'
    BY <1>3, <1>5, <2>1, <2>2 DEF Receiving, DigestInv, ReplayInv
  <2> QED
    BY <1>3, <1>5, <2>3, <2>4 DEF Receiving, VisibleInv, ResumeInv, EndInv, DownloadedMeansStored
<1>6. CASE /\ verdict = "accepted" /\ part = NParts
           /\ state' = "END"
           /\ UNCHANGED updateResult
  <2>1. sha = HashEnd
    BY <1>6 DEF Verdicts, Subsection, NParts, BinPart
  <2>2. sha # BAD
    BY <2>1, LayoutFacts DEF HashEnd, BAD
  <2>3. written = BinLen /\ storedOk
    BY <1>6, <2>2, LayoutFacts DEF Receiving, DigestInv, StoredLenInv
  <2> QED
    BY <1>6, <2>3
    DEF Receiving, VisibleInv, ResumeInv, StoredLenInv, DigestInv, ReplayInv, EndInv,
        DownloadedMeansStored
<1>7. CASE /\ updateResult' \in {UpdateResult("PKG_TYPE"), UpdateResult("VERIFY")}
           /\ state' = "ERROR"
  <2>1. updateResult' # "NORMAL"
    BY <1>7 DEF UpdateResult
  <2> QED
    BY <1>7, <2>1
    DEF Receiving, VisibleInv, ResumeInv, StoredLenInv, DigestInv, ReplayInv, EndInv,
        DownloadedMeansStored
<1> QED
  BY <1>2, <1>5, <1>6, <1>7

LEMMA ParseDwlBinaryReport ==
  ASSUME StoredInv, pc = "loop", state = "PARSE", ParseDwlBinary,
         UNCHANGED <<retry, updateOffset, ws, cache, netVars, storeVars, sessions>>
  PROVE  ReportInv'
<1> USE DEF StoredInv, ReportInv, netVars, storeVars
<1>1. /\ part = BinPart /\ processedLen' = BinaryLen /\ remaining' = remaining - BinaryLen
      /\ HashData(BinaryLen, dwlPos = offset) /\ state' = "STORE"
      /\ UNCHANGED <<pc, updateResult, offset, downloadedLen, dwlPos, part>>
  BY DEF ParseDwlBinary
<1>2. /\ BinaryLen \in Nat /\ BinaryLen <= remaining /\ BinaryLen <= downloadedLen
      /\ remaining \in Nat /\ written \in Nat /\ downloadedLen \in Nat /\ updateGap \in Nat
      /\ BinLen \in Nat
  BY LayoutFacts DEF BinaryLen, IndInv, TypeOK
<1>3. Section(part) = "BINA"
  BY <1>1 DEF Section, BinPart
<1>4. updateGap' <= remaining' /\ updateGap' <= updateGap /\ updateGap' \in Nat
  <2>1. updateGap <= remaining
    BY <1>2 DEF Receiving, ReplayInv
  <2>2. updateGap' = updateGap - (IF BinaryLen <= updateGap THEN BinaryLen ELSE updateGap)
    BY <1>1, <1>3 DEF HashData
  <2> QED
    BY <1>1, <1>2, <2>1, <2>2
<1>5. sha = BAD => sha' = BAD
  BY <1>1, <1>2, HashBad DEF IndInv
<1>6. processedLen' > 0 /\ dwlPos # offset => sha' = BAD
  <2> SUFFICES ASSUME processedLen' > 0, dwlPos # offset PROVE sha' = BAD
    OBVIOUS
  <2>1. downloadedLen > 0 /\ BinaryLen > 0
    BY <1>1, <1>2
  <2>2. updateGap = 0
    BY <1>2, <2>1 DEF Receiving, ReplayInv
  <2>3. HashData(BinaryLen, FALSE)
    BY <1>1
  <2> QED
    BY <1>2, <1>3, <2>1, <2>2, <2>3, HashMisplaced DEF IndInv
<1>7. StoredLenInv'
  <2>1. written + remaining = BinLen
    BY <1>1, <1>2 DEF Receiving, StoredLenInv
  <2> QED
    BY <1>1, <1>2, <2>1, LayoutFacts DEF StoredLenInv
<1>8. DigestInv' /\ ReplayInv'
  BY <1>1, <1>2, <1>4, <1>5, <1>6 DEF Receiving, DigestInv, ReplayInv
<1> QED
  BY <1>1, <1>7, <1>8 DEF Receiving, VisibleInv, ResumeInv, EndInv, DownloadedMeansStored

LEMMA PkgDwlStoreReport ==
  ASSUME StoredInv, PkgDwlStore
  PROVE  ReportInv'
<1> USE DEF StoredInv, ReportInv, netVars, storeVars
<1>0. /\ pc = "loop" /\ state = "STORE" /\ part = BinPart /\ tmpLen = 0
      /\ processedLen <= downloadedLen /\ processedLen \in Nat /\ downloadedLen \in Nat
      /\ offset \in Nat /\ written \in Nat /\ remaining \in Nat /\ updateGap \in Nat
      /\ dwlPos \in Nat
      /\ UNCHANGED <<retry, processedLen, updateGap, updateOffset, remaining, sha, xfer, srvPos>>
  BY BoundsAssumption, LayoutFacts
  DEF PkgDwlStore, StateInv, BufferInv, IndInv, TypeOK, BoundsAssumption
<1>a. Start[BinPart] \in Nat /\ Start[BinPart] > 0 /\ BinLen \in Nat /\ BinPart = 7
      /\ Start[BinPart + 1] = Start[BinPart] + BinLen
  BY LayoutFacts, LayoutAssumption DEF LayoutAssumption
<1>1. CASE /\ WritePackageData
           /\ UpdateAndStorePkgDwlWorkspace
           /\ part' = IF remaining = 0 THEN BinPart + 1 ELSE part
           /\ CleanAndUpdateDwlCounters(processedLen, 0)
           /\ state' = "PARSE"
           /\ UNCHANGED <<result, updateResult>>
  <2>0. /\ state' = "PARSE" /\ remaining' = remaining
        /\ part' = IF remaining = 0 THEN BinPart + 1 ELSE BinPart
    BY <1>0, <1>1
  <2>1. /\ written' = written + processedLen
        /\ storedOk' = (storedOk /\ (processedLen = 0 \/ dwlPos = Start[BinPart] + written))
    BY <1>1 DEF WritePackageData
  <2>2. /\ offset' = offset + processedLen /\ dwlPos' = dwlPos + processedLen
        /\ downloadedLen' = downloadedLen - processedLen
        /\ pc' = IF downloadedLen' = 0 THEN "wait" ELSE "loop"
    BY <1>0, <1>1 DEF CleanAndUpdateDwlCounters
  <2>3. written + remaining + processedLen = BinLen
    BY <1>0 DEF Receiving, StoredLenInv
  <2>4. offset + processedLen = Start[BinPart + 1] - remaining
    BY <1>0 DEF IndInv, PositionInv, PositionAgrees
  <2>5. offset = Start[BinPart] + written /\ offset > 0
    BY <1>0, <1>a, <2>3, <2>4
  <2>6. storedOk' \/ sha = BAD
    <3>1. storedOk \/ sha = BAD
      BY <1>0 DEF Receiving, DigestInv
    <3>2. processedLen = 0 \/ dwlPos = Start[BinPart] + written \/ sha = BAD
      BY <1>0, <2>5 DEF DigestInv
    <3> QED
      BY <2>1, <3>1, <3>2, Zenon
  <2>7. /\ ws'.fwState = "DOWNLOADING" /\ cache' = ws' /\ ws'.sha = sha
        /\ ws'.offset = offset + processedLen /\ ws'.remaining = remaining
    <3> DEFINE base == IF cache.url THEN cache ELSE ws
    <3>1. base \in Workspace /\ base.fwState = "DOWNLOADING"
      BY <1>0 DEF IndInv, TypeOK, VisibleInv, Receiving
    <3>2. ws' = [base EXCEPT !.offset = offset + processedLen, !.binarySize = BinLen,
                             !.remaining = remaining, !.sha = sha]
          /\ cache' = ws'
      BY <1>1 DEF UpdateAndStorePkgDwlWorkspace
    <3> HIDE DEF base
    <3> QED
      BY <3>1, <3>2 DEF Workspace
  <2>8. VisibleInv' /\ EndInv' /\ DownloadedMeansStored'
    <3>1. cache'.url => cache'.fwState = "DOWNLOADING"
      BY <2>7
    <3>2. ws'.fwState # "DOWNLOADED"
      BY <2>7
    <3> QED
      BY <1>1, <2>7, <3>1, <3>2 DEF VisibleInv, EndInv, DownloadedMeansStored
  <2>9. ResumeInv' /\ StoredLenInv'
    <3>1. ws'.offset > 0
      BY <1>0, <2>5, <2>7
    <3>2. written' + remaining' = BinLen /\ written' \in Nat /\ BinLen \in Nat
      BY <1>0, <1>a, <2>0, <2>1, <2>3
    <3>3. ResumeInv'
      <4>1. written' + ws'.remaining <= BinLen
        BY <2>0, <2>7, <3>2
      <4> QED
        BY <2>0, <3>1, <4>1 DEF ResumeInv
    <3>4. CASE remaining = 0
      <4>1. part' = 8
        BY <1>a, <2>0, <3>4
      <4>2. written' = BinLen
        BY <1>0, <2>1, <2>3, <3>4
      <4> QED
        BY <1>a, <2>0, <3>3, <4>1, <4>2 DEF StoredLenInv
    <3>5. CASE remaining # 0
      <4>1. part' = 7
        BY <1>a, <2>0, <3>5
      <4> QED
        BY <1>a, <2>0, <3>2, <3>3, <4>1 DEF StoredLenInv
    <3> QED
      BY <3>4, <3>5
  <2>10. DigestInv'
    <3>1. written' = 0 => storedOk'
      <4>1. written' = 0 => written = 0 /\ processedLen = 0
        BY <1>0, <2>1
      <4> QED
        BY <2>1, <4>1, Zenon DEF DigestInv
    <3> QED
      BY <1>0, <1>1, <2>6, <2>7, <3>1 DEF DigestInv
  <2>11. ReplayInv'
    <3>1. updateGap > 0 =>
            /\ updateGap <= remaining
            /\ downloadedLen > 0 => dwlPos = offset
            /\ xfer => srvPos = offset + downloadedLen
      BY <1>0 DEF Receiving, ReplayInv
    <3>2. updateGap > 0 => part' = BinPart
      BY <1>0, <1>1, <3>1
    <3> QED
      BY <1>0, <1>1, <2>2, <3>1, <3>2 DEF ReplayInv
  <2> QED
    BY <2>8, <2>9, <2>10, <2>11
<1>2. CASE /\ state' = "ERROR" /\ updateResult' = UpdateResult("PKG_TYPE")
           /\ UNCHANGED <<pc, offset, dwlPos, downloadedLen, part, ws, cache, storeVars>>
  BY <1>0, <1>2
  DEF UpdateResult, Receiving, VisibleInv, ResumeInv, StoredLenInv, DigestInv, ReplayInv, EndInv,
      DownloadedMeansStored
<1> QED
  BY <1>1, <1>2 DEF PkgDwlStore

\* The end of a session
LEMMA EndReport ==
  ASSUME StoredInv
  PROVE  /\ PkgDwlError => ReportInv'
         /\ PkgDwlEnd => ReportInv'
         /\ PkgDwlSuspend => ReportInv'
<1> USE DEF StoredInv, ReportInv, objVars, parserVars, netVars, storeVars
<1>1. ASSUME PkgDwlError PROVE ReportInv'
  BY <1>1
  DEF PkgDwlError, Receiving, VisibleInv, ResumeInv, StoredLenInv, DigestInv, ReplayInv, EndInv,
      DownloadedMeansStored
<1>2. ASSUME PkgDwlEnd PROVE ReportInv'
  <2>1. Outcome(ws) \in Workspace
        /\ (Outcome(ws).fwState = "DOWNLOADED" => updateResult = "NORMAL")
    <3>1. ws \in Workspace /\ updateResult \in FwResults
      BY DEF IndInv, TypeOK
    <3> QED
      BY <3>1 DEF Outcome, Workspace, FwStates
  <2>2. /\ ws'.url = FALSE /\ ws'.offset = 0 /\ cache' = ws'
        /\ (ws'.fwState = "DOWNLOADED" => updateResult = "NORMAL")
        /\ pc = "loop" /\ state = "END" /\ pc' = "wait"
    BY <1>2, <2>1, DeleteResumeInfoFacts DEF PkgDwlEnd
  <2> QED
    BY <1>2, <2>2
    DEF PkgDwlEnd, Receiving, VisibleInv, ResumeInv, StoredLenInv, DigestInv, ReplayInv, EndInv,
        DownloadedMeansStored
<1>3. ASSUME PkgDwlSuspend PROVE ReportInv'
  BY <1>3
  DEF PkgDwlSuspend, Receiving, VisibleInv, ResumeInv, StoredLenInv, DigestInv, ReplayInv, EndInv,
      DownloadedMeansStored
<1> QED
  BY <1>1, <1>2, <1>3

-----------------------------------------------------------------------------
(* The theorems *)

LEMMA NextStored == NoTornWrite /\ StoredInv /\ [Next]_vars => StoredInv'
<1> SUFFICES ASSUME NoTornWrite, StoredInv, [Next]_vars PROVE ReportInv'
  BY NextInd DEF StoredInv
<1>1. CASE Handler
  BY <1>1, PkgDwlInitReport, PkgDwlDownloadReport, BufferDataReport, ParseSubsectionReport,
     ParseDwlBinaryReport, PkgDwlStoreReport, EndReport DEF Handler, PkgDwlParse
<1>2. CASE SetUpdatePackageUri \/ PackageDownloadHandler
  BY <1>2, UriReport
<1>3. CASE \E fresh \in BOOLEAN : StartPackageDownloader(fresh)
  BY <1>3, StartReport
<1>4. CASE TransferBreaks \/ RequestDownloadRetry \/ HandlePackageDownloader \/ EndSession
           \/ \E n \in Chunks : ReceiveData(n)
  BY <1>4, EnvironmentReport
<1>5. CASE PowerLoss
  BY <1>5, PowerLossReport
<1>6. CASE TornStore \/ TornEnd
  BY <1>6 DEF TornStore, TornEnd, NoTornWrite
<1>7. CASE UNCHANGED vars
  BY <1>7
  DEF vars, objVars, parserVars, netVars, storeVars, StoredInv, ReportInv, Receiving, VisibleInv,
      ResumeInv, StoredLenInv, DigestInv, ReplayInv, EndInv, DownloadedMeansStored
<1> QED
  BY <1>1, <1>2, <1>3, <1>4, <1>5, <1>6, <1>7 DEF Next

\* StoredInv is an invariant, when no power loss falls inside a handler
THEOREM StoredInvariance ==
  ASSUME NoTornWrite
  PROVE  Spec => []StoredInv
<1>1. Init => StoredInv
  BY InitInd, InitReport DEF StoredInv
<1>2. StoredInv /\ [Next]_vars => StoredInv'
  BY NextStored
<1> QED
  BY <1>1, <1>2, PTL DEF Spec

\* The server reads DOWNLOADED only when the platform holds the whole binary, every
\* byte at its place, however often the download was interrupted, resumed from an
\* older position or cut by power losses between two handlers
THEOREM DownloadedCorrect ==
  ASSUME NoTornWrite
  PROVE  Spec => []DownloadedMeansStored
<1>1. StoredInv => DownloadedMeansStored
  BY DEF StoredInv, ReportInv
<1> QED
  BY <1>1, StoredInvariance, PTL

\* While a package is received, the server reads DOWNLOADING: the copy of the
\* workspace in RAM never writes an older update state over the current one
THEOREM DownloadingVisible ==
  ASSUME NoTornWrite
  PROVE  Spec => []DownloadingIsVisible
<1>1. StoredInv => DownloadingIsVisible
  BY DEF StoredInv, ReportInv, VisibleInv, Receiving, DownloadingIsVisible
<1> QED
  BY <1>1, StoredInvariance, PTL

\* LoadResumeData accepts every workspace that a session resumes from: what was
\* downloaded before an interruption is never thrown away
THEOREM ResumeAccepted ==
  ASSUME NoTornWrite
  PROVE  Spec => []ResumeIsAccepted
<1>1. StoredInv => ResumeIsAccepted
  <2> SUFFICES ASSUME StoredInv, pc = "loop", state = "DOWNLOAD", NeedsResumeData
               PROVE  ResumeDataValid
    BY DEF ResumeIsAccepted
  <2>1. ws.offset > 0 /\ updateOffset = written
    BY DEF StoredInv, ReportInv, ResumeInv, NeedsResumeData
  <2>2. /\ ws.binarySize = BinLen /\ ws.offset + ws.remaining = Start[BinPart + 1]
        /\ written + ws.remaining <= BinLen
    BY <2>1 DEF StoredInv, ReportInv, IndInv, WorkspaceInv, ResumeInv
  <2>3. ws.offset \in Nat /\ ws.remaining \in Nat /\ written \in Nat
    BY LayoutFacts DEF StoredInv, IndInv, TypeOK, Workspace
  <2> QED
    BY <2>1, <2>2, <2>3, LayoutFacts DEF ResumeDataValid, ResumeGap
<1> QED
  BY <1>1, StoredInvariance, PTL

=============================================================================
