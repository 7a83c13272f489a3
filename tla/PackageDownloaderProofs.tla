------------------------ MODULE PackageDownloaderProofs ------------------------
(***************************************************************************)
(* What is proved of PackageDownloader, for every layout of the package,   *)
(* size of the temporary buffer, number of retries and behaviour of the    *)
(* environment.                                                            *)
(***************************************************************************)
EXTENDS PackageDownloader, TLAPS

(* The inductive invariant *)

\* A subsection that was begun in the temporary buffer is not complete, and it is
\* not the binary data
BufferInv == tmpLen > 0 => part # BinPart /\ tmpLen < Size(part)

\* What holds in each state of the state machine
StateInv ==
  /\ state = "INIT" => tmpLen = 0 /\ offset = 0 /\ ~xfer /\ pc # "wait"
  /\ state = "DOWNLOAD" => ~xfer
  /\ state = "DOWNLOAD" /\ retry = 0 => tmpLen = 0
  /\ state = "DOWNLOAD" /\ retry = 0 /\ pc = "loop" => offset = 0 /\ part = 1
  /\ state = "DOWNLOAD" /\ pc = "wait" => result = "RETRY_FAILED"
  /\ state = "STORE" => pc # "wait" /\ part = BinPart /\ processedLen <= downloadedLen

\* Once the download was requested, the position is right
PositionInv ==
  \/ state \in {"PARSE", "STORE"}
  \/ state = "DOWNLOAD" /\ (retry > 0 \/ pc = "wait")
  => PositionAgrees

\* A workspace that holds resume information tells one position
WorkspaceInv ==
  ws.offset > 0 => ws.binarySize = BinLen /\ ws.offset + ws.remaining = Start[BinPart + 1]

IndInv == TypeOK /\ BufferInv /\ StateInv /\ PositionInv /\ WorkspaceInv

-----------------------------------------------------------------------------
(* The layout and the workspace *)

\* Sizes and positions of the subsections
LEMMA LayoutFacts ==
  /\ \A p \in 1..NParts : Size(p) \in Nat /\ Start[p + 1] = Start[p] + Size(p)
  /\ \A p \in 1..(NParts + 1) : Start[p] \in Nat
  /\ BinLen \in Nat /\ BinLen > 0
  /\ Start[BinPart + 1] = Start[BinPart] + BinLen
  /\ Start[1] = 0
  /\ NParts = 11 /\ BinPart = 7
<1> USE LayoutAssumption DEF LayoutAssumption, NParts, BinPart
<1>1. \A p \in 1..(NParts + 1) : Start[p] \in Nat
  OBVIOUS
<1>2. \A p \in 1..NParts : p + 1 \in 1..(NParts + 1)
  OBVIOUS
<1>3. \A p \in 1..NParts : Size(p) \in Nat /\ Start[p + 1] = Start[p] + Size(p)
  BY <1>1, <1>2 DEF Size
<1>4. BinPart \in 1..NParts
  OBVIOUS
<1>5. BinLen \in Nat /\ BinLen > 0 /\ Start[BinPart + 1] = Start[BinPart] + BinLen
  BY <1>3, <1>4 DEF BinLen
<1> QED
  BY <1>1, <1>3, <1>5

\* lwm2mcore_DeletePackageDownloaderResumeInfo leaves a workspace with nothing to resume
LEMMA DeleteResumeInfoFacts ==
  ASSUME NEW w \in Workspace
  PROVE  /\ DeleteResumeInfo(w) \in Workspace
         /\ DeleteResumeInfo(w).offset = 0
         /\ DeleteResumeInfo(w).fwState = w.fwState
         /\ DeleteResumeInfo(w).fwResult = w.fwResult
         /\ DeleteResumeInfo(w).url = FALSE
<1>1. 0 \in 0..BinLen /\ 0 \in {0, BinLen} /\ 0 \in Nat \cup {BAD}
  BY LayoutFacts
<1>2. DeleteResumeInfo(w) \in Workspace
  BY <1>1 DEF DeleteResumeInfo, Workspace
<1> QED
  BY <1>2 DEF DeleteResumeInfo, Workspace

LEMMA DefaultWorkspaceType == DefaultWorkspace \in Workspace
<1>1. 0 \in 0..BinLen /\ 0 \in {0, BinLen} /\ 0 \in Nat \cup {BAD}
  BY LayoutFacts
<1> QED
  BY <1>1 DEF DefaultWorkspace, Workspace, FwStates, FwResults

LEMMA UpdateResultType ==
  ASSUME NEW e \in {"NO_ERROR", "CONNECTION", "VERIFY", "PKG_TYPE", "URI", "PROTOCOL"}
  PROVE  UpdateResult(e) \in FwResults
  BY DEF UpdateResult, FwResults

\* The outcomes of a failing size request are update results
LEMMA SizeErrorOutcomesType ==
  ASSUME NEW r \in DownloaderResults, NEW a \in FwResults, NEW b \in FwResults,
         NEW o \in SizeErrorOutcomes(r, a, b)
  PROVE  o.obj \in FwResults /\ o.fw \in FwResults
<1>1. \A h \in HttpErrors : HttpUpdateResult(h, a) \in FwResults
  BY EnvironmentAssumption
  DEF EnvironmentAssumption, HttpKinds, HttpUpdateResult, UpdateResult, FwResults
<1>2. UpdateResult("URI") \in FwResults /\ UpdateResult("PROTOCOL") \in FwResults
  BY UpdateResultType
<1> QED
  BY <1>1, <1>2 DEF SizeErrorOutcomes

-----------------------------------------------------------------------------
(* The invariant holds initially and every action preserves it *)

LEMMA InitInd == Init => IndInv
<1> SUFFICES ASSUME Init PROVE IndInv
  OBVIOUS
<1> USE LayoutFacts, BoundsAssumption DEF Init, BoundsAssumption
<1>1. TypeOK
  <2>1. ws \in Workspace /\ cache \in Workspace
    BY DefaultWorkspaceType
  <2>2. /\ retry \in 0..DWL_RETRIES /\ tmpLen \in 0..TmpMax /\ remaining \in 0..BinLen
        /\ part \in 1..NParts /\ sessions \in 0..MaxSessions
    OBVIOUS
  <2>3. pc \in {"off", "loop", "wait"} /\ state \in States /\ result \in DwlResults
        /\ updateResult \in FwResults
    BY DEF States, DwlResults, FwResults
  <2> QED
    BY <2>1, <2>2, <2>3 DEF TypeOK
<1>2. BufferInv /\ StateInv /\ PositionInv
  BY DEF BufferInv, StateInv, PositionInv
<1>3. WorkspaceInv
  BY DEF WorkspaceInv, DefaultWorkspace
<1> QED
  BY <1>1, <1>2, <1>3 DEF IndInv

\* A restart of the device keeps the invariant, provided the workspace does
LEMMA RestartInd ==
  ASSUME IndInv, Restart, ws' \in Workspace, WorkspaceInv',
         written' \in Nat, storedOk' \in BOOLEAN, flushed' \in Nat
  PROVE  IndInv'
<1> USE DEF Restart, ResetPackageDownloader, ResetParser
<1>1. TypeOK'
  <2>1. cache' \in Workspace
    BY DefaultWorkspaceType
  <2>2. /\ retry' \in 0..DWL_RETRIES /\ tmpLen' \in 0..TmpMax /\ remaining' \in 0..BinLen
        /\ part' \in 1..NParts
    BY LayoutFacts, BoundsAssumption DEF BoundsAssumption
  <2>3. pc' \in {"off", "loop", "wait"} /\ state' \in States /\ result' \in DwlResults
        /\ updateResult' \in FwResults
    BY DEF States, DwlResults, FwResults
  <2> QED
    BY <2>1, <2>2, <2>3 DEF IndInv, TypeOK
<1>2. BufferInv' /\ StateInv' /\ PositionInv'
  BY DEF BufferInv, StateInv, PositionInv
<1> QED
  BY <1>1, <1>2 DEF IndInv

\* Actions of the environment that leave the state machine and the workspace alone
LEMMA EnvironmentInd ==
  ASSUME IndInv
  PROVE  /\ TransferBreaks => IndInv'
         /\ HandlePackageDownloader => IndInv'
         /\ EndSession => IndInv'
         /\ PowerLoss => IndInv'
         /\ \A n \in Chunks : ReceiveData(n) => IndInv'
         /\ RequestDownloadRetry => IndInv'
<1> USE DEF IndInv, objVars, parserVars, netVars, storeVars
<1>1. ASSUME TransferBreaks PROVE IndInv'
  BY <1>1 DEF TransferBreaks, TypeOK, BufferInv, StateInv, PositionInv, PositionAgrees, WorkspaceInv
<1>2. ASSUME HandlePackageDownloader PROVE IndInv'
  BY <1>2 DEF HandlePackageDownloader, TypeOK, BufferInv, StateInv, PositionInv, PositionAgrees,
              WorkspaceInv
<1>3. ASSUME EndSession PROVE IndInv'
  BY <1>3 DEF EndSession, TypeOK, BufferInv, StateInv, PositionInv, PositionAgrees, WorkspaceInv
<1>4. ASSUME PowerLoss PROVE IndInv'
  BY <1>4, RestartInd DEF PowerLoss, TypeOK, WorkspaceInv
<1>5. ASSUME NEW n \in Chunks, ReceiveData(n) PROVE IndInv'
  BY <1>5, BoundsAssumption
  DEF BoundsAssumption, ReceiveData, TypeOK, BufferInv, StateInv, PositionInv, PositionAgrees,
      WorkspaceInv
<1>6. ASSUME RequestDownloadRetry PROVE IndInv'
  BY <1>6, BoundsAssumption
  DEF BoundsAssumption, RequestDownloadRetry, TypeOK, BufferInv, StateInv, PositionInv,
      PositionAgrees, WorkspaceInv, States
<1> QED
  BY <1>1, <1>2, <1>3, <1>4, <1>5, <1>6

\* Actions that only change what the workspace tells the server, or erase it
LEMMA WorkspaceInd ==
  ASSUME IndInv
  PROVE  /\ SetUpdatePackageUri => IndInv'
         /\ PackageDownloadHandler => IndInv'
         /\ PkgDwlEnd => IndInv'
         /\ TornEnd => IndInv'
<1> USE DEF IndInv, objVars, parserVars, netVars, storeVars
<1>0. ws \in Workspace /\ cache \in Workspace /\ updateResult \in FwResults
  BY DEF TypeOK
<1>1. ASSUME SetUpdatePackageUri PROVE IndInv'
  <2>1. DeleteResumeInfo(ws) \in Workspace /\ DeleteResumeInfo(ws).offset = 0
    BY <1>0, DeleteResumeInfoFacts
  <2>2. ws' \in Workspace /\ ws'.offset = 0 /\ cache' \in Workspace
    BY <1>1, <2>1 DEF SetUpdatePackageUri, Workspace, FwStates, FwResults
  <2>3. TypeOK'
    BY <1>1, <2>2 DEF SetUpdatePackageUri, TypeOK
  <2>4. BufferInv' /\ StateInv' /\ PositionInv' /\ WorkspaceInv'
    BY <1>1, <2>2
    DEF SetUpdatePackageUri, TypeOK, BufferInv, StateInv, PositionInv, PositionAgrees, WorkspaceInv
  <2> QED
    BY <2>3, <2>4
<1>2. ASSUME PackageDownloadHandler PROVE IndInv'
  <2>1. /\ ws' \in Workspace /\ cache' \in Workspace /\ updateResult' \in FwResults
        /\ WorkspaceInv'
    <3>1. PICK r \in SizeResults(ws) :
            \/ /\ r = "OK"
               /\ \E known \in SizeKnown : ws' = [ws EXCEPT !.sizeKnown = known]
               /\ UNCHANGED <<cache, updateResult>>
            \/ /\ r # "OK"
               /\ \E o \in SizeErrorOutcomes(r, updateResult, ws.fwResult) :
                    /\ updateResult' = o.obj
                    /\ ws' = DeleteResumeInfo([ws EXCEPT !.fwResult = o.fw])
                    /\ cache' = DeleteResumeInfo([ws EXCEPT !.fwResult = o.fw])
      BY <1>2 DEF PackageDownloadHandler
    <3>2. r \in DownloaderResults
      BY DEF SizeResults, DownloaderResults
    <3>3. CASE r = "OK"
      BY <1>0, <3>1, <3>3 DEF SizeKnown, Workspace, WorkspaceInv
    <3>4. CASE r # "OK"
      <4>1. PICK o \in SizeErrorOutcomes(r, updateResult, ws.fwResult) :
                    /\ updateResult' = o.obj
                    /\ ws' = DeleteResumeInfo([ws EXCEPT !.fwResult = o.fw])
                    /\ cache' = DeleteResumeInfo([ws EXCEPT !.fwResult = o.fw])
        BY <3>1, <3>4
      <4>2. ws.fwResult \in FwResults
        BY <1>0 DEF Workspace
      <4>3. o.obj \in FwResults /\ o.fw \in FwResults
        BY <1>0, <3>2, <4>2, SizeErrorOutcomesType
      <4>4. [ws EXCEPT !.fwResult = o.fw] \in Workspace
        BY <1>0, <4>3 DEF Workspace
      <4>5. ws' \in Workspace /\ ws'.offset = 0 /\ cache' \in Workspace
        BY <4>1, <4>4, DeleteResumeInfoFacts
      <4> QED
        BY <4>1, <4>3, <4>5 DEF WorkspaceInv
    <3> QED
      BY <3>3, <3>4
  <2> QED
    BY <1>2, <2>1
    DEF PackageDownloadHandler, TypeOK, BufferInv, StateInv, PositionInv, PositionAgrees
<1>3. Outcome(ws) \in Workspace /\ Outcome(ws).offset = ws.offset
      /\ Outcome(ws).binarySize = ws.binarySize /\ Outcome(ws).remaining = ws.remaining
  BY <1>0 DEF Outcome, Workspace, FwStates
<1>4. ASSUME PkgDwlEnd PROVE IndInv'
  <2>1. ws' \in Workspace /\ cache' \in Workspace /\ ws'.offset = 0
    BY <1>3, <1>4, DeleteResumeInfoFacts DEF PkgDwlEnd
  <2> QED
    BY <1>4, <2>1
    DEF PkgDwlEnd, TypeOK, BufferInv, StateInv, PositionInv, PositionAgrees, WorkspaceInv
<1>5. ASSUME TornEnd PROVE IndInv'
  BY <1>3, <1>5, RestartInd DEF TornEnd, WorkspaceInv, TypeOK
<1> QED
  BY <1>1, <1>2, <1>4, <1>5

LEMMA StartInd ==
  ASSUME IndInv, NEW fresh \in BOOLEAN, StartPackageDownloader(fresh)
  PROVE  IndInv'
<1> USE DEF IndInv, parserVars, ResetPackageDownloader, StartPackageDownloader
<1>1. written' \in Nat /\ flushed' \in Nat /\ storedOk' \in BOOLEAN
  <2>1. CASE written' = 0 /\ flushed' = 0 /\ storedOk' = TRUE
    BY <2>1
  <2>2. CASE \E w \in flushed..written :
               written' = w /\ flushed' = w /\ storedOk' = (storedOk \/ w = 0)
    BY <2>2 DEF TypeOK
  <2> QED
    BY <2>1, <2>2
<1>2. TypeOK'
  <2>1. /\ retry' \in 0..DWL_RETRIES /\ tmpLen' \in 0..TmpMax /\ sessions' \in 0..MaxSessions
    BY BoundsAssumption DEF BoundsAssumption, TypeOK
  <2>2. pc' \in {"off", "loop", "wait"} /\ state' \in States /\ result' \in DwlResults
        /\ updateResult' \in FwResults
    BY DEF States, DwlResults, FwResults
  <2> QED
    BY <1>1, <2>1, <2>2 DEF TypeOK
<1>3. BufferInv' /\ StateInv' /\ PositionInv' /\ WorkspaceInv'
  BY DEF BufferInv, StateInv, PositionInv, WorkspaceInv
<1> QED
  BY <1>2, <1>3

LEMMA PkgDwlInitInd == IndInv /\ PkgDwlInit => IndInv'
<1> SUFFICES ASSUME IndInv, PkgDwlInit PROVE IndInv'
  OBVIOUS
<1> USE LayoutFacts, BoundsAssumption
    DEF IndInv, PkgDwlInit, netVars, storeVars, parserVars, ResetParser, BoundsAssumption
<1>0. ws \in Workspace /\ "NORMAL" \in FwResults /\ pc = "loop" /\ state = "INIT"
  BY DEF TypeOK, FwResults
<1>1. updateOffset' \in Nat
  BY DEF TypeOK
<1>2. CASE \E known \in BOOLEAN : LaunchDownload(known)
  <2>1. PICK known \in BOOLEAN : LaunchDownload(known)
    BY <1>2
  <2>2. ws' \in Workspace /\ WorkspaceInv'
    BY <1>0, <2>1 DEF LaunchDownload, Workspace, WorkspaceInv
  <2>3. /\ state' = "DOWNLOAD" /\ retry' = 0 /\ updateResult' = "NORMAL"
        /\ part' = 1 /\ remaining' = 0 /\ sha' = 0 /\ UNCHANGED <<result, cache>>
    BY <2>1 DEF LaunchDownload
  <2>4. TypeOK'
    <3>1. retry' \in 0..DWL_RETRIES /\ part' \in 1..NParts /\ remaining' \in 0..BinLen
          /\ sha' \in Nat \cup {BAD} /\ state' \in States
      BY <2>3 DEF States
    <3> QED
      BY <1>0, <1>1, <2>2, <2>3, <3>1 DEF TypeOK
  <2>5. BufferInv' /\ StateInv' /\ PositionInv'
    BY <1>0, <2>3 DEF BufferInv, StateInv, PositionInv
  <2> QED
    BY <2>2, <2>4, <2>5
<1>3. CASE \E r \in SizeResults(ws) : SizeFailed(r)
  <2>1. PICK r \in SizeResults(ws) : SizeFailed(r)
    BY <1>3
  <2>2. r \in DownloaderResults
    BY DEF SizeResults, DownloaderResults
  <2>3. PICK o \in SizeErrorOutcomes(r, "NORMAL", "NORMAL") :
          /\ updateResult' = o.obj
          /\ ws' = DeleteResumeInfo([ws EXCEPT !.fwResult = o.fw])
    BY <2>1 DEF SizeFailed
  <2>4. o.obj \in FwResults /\ o.fw \in FwResults
    BY <1>0, <2>2, SizeErrorOutcomesType
  <2>5. [ws EXCEPT !.fwResult = o.fw] \in Workspace
    BY <1>0, <2>4 DEF Workspace
  <2>6. ws' \in Workspace /\ ws'.offset = 0
    BY <2>3, <2>5, DeleteResumeInfoFacts
  <2>7. /\ state' \in {"SUSPEND", "ERROR"} /\ result' \in DwlResults /\ cache' = ws'
        /\ UNCHANGED <<retry, parserVars>>
    BY <2>1 DEF SizeFailed, DwlResults, TypeOK
  <2>8. TypeOK'
    BY <1>1, <2>3, <2>4, <2>6, <2>7 DEF TypeOK, States
  <2>9. BufferInv' /\ StateInv' /\ PositionInv' /\ WorkspaceInv'
    BY <1>0, <2>6, <2>7 DEF BufferInv, StateInv, PositionInv, WorkspaceInv
  <2> QED
    BY <2>8, <2>9
<1> QED
  BY <1>2, <1>3 DEF SizeKnown

\* What a failed or accepted download request leaves
LEMMA StartOutcomeFacts ==
  ASSUME TypeOK, NEW r \in DownloaderResults, NEW from \in Nat, StartOutcome(r, from)
  PROVE  /\ state' \in States \ {"INIT", "STORE"} /\ result' \in DwlResults
         /\ updateResult' \in FwResults /\ xfer' \in BOOLEAN /\ srvPos' \in Nat
         /\ pc' \in {pc, "wait"}
         /\ state' = "DOWNLOAD" => result' = "RETRY_FAILED" /\ pc' = "wait" /\ xfer' = xfer
<1> USE DEF StartOutcome, netVars, TypeOK
<1>1. UpdateResult("URI") \in FwResults /\ UpdateResult("PROTOCOL") \in FwResults
      /\ UpdateResult("CONNECTION") \in FwResults
  BY UpdateResultType
<1> QED
  BY <1>1 DEF States, DwlResults

\* Giving up neither starts a transfer nor changes what was downloaded
LEMMA GiveUpFacts ==
  ASSUME TypeOK, NEW r \in LastErrors, GiveUp(r)
  PROVE  /\ state' \in {state, "SUSPEND", "ERROR"} /\ result' \in DwlResults
         /\ updateResult' \in FwResults
<1>1. UpdateResult("URI") \in FwResults /\ UpdateResult("PROTOCOL") \in FwResults
      /\ UpdateResult("CONNECTION") \in FwResults
  BY UpdateResultType
<1>2. state' \in {state, "SUSPEND", "ERROR"} /\ result' \in DwlResults
  BY DEF GiveUp, DwlResults, TypeOK
<1>3. updateResult' \in FwResults
  BY <1>1, Zenon DEF GiveUp, TypeOK
<1> QED
  BY <1>2, <1>3

\* The position a resumed session starts from
LEMMA ResumeFacts ==
  ASSUME TypeOK, WorkspaceInv, ResumeDataValid
  PROVE  /\ ResumeGap \in Nat /\ ws.offset - ResumeGap \in Nat
         /\ ResumedRemaining \in 0..BinLen
         /\ ws.offset - ResumeGap = Start[BinPart + 1] - ResumedRemaining
<1>1. ws.offset \in Nat /\ ws.binarySize \in Nat /\ ws.remaining \in Nat /\ updateOffset \in Nat
  BY LayoutFacts DEF TypeOK, Workspace
<1>2. ws.binarySize = BinLen /\ ws.offset + ws.remaining = Start[BinPart + 1]
  BY DEF WorkspaceInv, ResumeDataValid
<1> QED
  BY <1>1, <1>2, LayoutFacts DEF ResumeDataValid, ResumeGap, ResumedRemaining

LEMMA PkgDwlDownloadInd == IndInv /\ PkgDwlDownload => IndInv'
<1> SUFFICES ASSUME IndInv, PkgDwlDownload PROVE IndInv'
  OBVIOUS
<1> USE DEF IndInv, netVars, storeVars, parserVars
<1>0. /\ pc = "loop" /\ state = "DOWNLOAD" /\ ws \in Workspace /\ ~xfer
      /\ UNCHANGED <<retry, tmpLen, downloadedLen, processedLen, certified, updateOffset,
                     dwlPos, tmpOk, storeVars, sessions>>
  BY DEF PkgDwlDownload, TypeOK, StateInv
<1>1. CASE /\ retry >= DWL_RETRIES
           /\ \E r \in LastErrors : GiveUp(r)
           /\ UNCHANGED <<pc, offset, updateGap, parserVars, ws, cache, netVars>>
  <2>1. /\ state' \in {state, "SUSPEND", "ERROR"} /\ result' \in DwlResults
        /\ updateResult' \in FwResults
    BY <1>1, GiveUpFacts
  <2>2. TypeOK'
    BY <1>0, <1>1, <2>1 DEF TypeOK, States
  <2>3. retry > 0
    BY <1>1, BoundsAssumption DEF BoundsAssumption, TypeOK
  <2>4. BufferInv' /\ StateInv' /\ PositionInv' /\ WorkspaceInv'
    BY <1>0, <1>1, <2>1, <2>3
    DEF BufferInv, StateInv, PositionInv, PositionAgrees, WorkspaceInv
  <2> QED
    BY <2>2, <2>4
<1>2. CASE RefuseResume
  <2>1. updateResult' \in FwResults
    BY <1>2, UpdateResultType DEF RefuseResume
  <2>2. updateGap' \in Nat
    <3>1. ws.binarySize \in Int /\ ws.remaining \in Int /\ updateOffset \in Int
      BY <1>0, LayoutFacts DEF TypeOK, Workspace
    <3> QED
      BY <1>2, <3>1 DEF RefuseResume, TypeOK, ResumeGap
  <2>3. state' = "ERROR" /\ cache' = ws
        /\ UNCHANGED <<pc, result, offset, parserVars, ws, netVars>>
    BY <1>2 DEF RefuseResume
  <2>4. TypeOK'
    BY <1>0, <2>1, <2>2, <2>3 DEF TypeOK, States
  <2>5. BufferInv' /\ StateInv' /\ PositionInv' /\ WorkspaceInv'
    BY <1>0, <2>3 DEF BufferInv, StateInv, PositionInv, WorkspaceInv
  <2> QED
    BY <2>4, <2>5
<1>3. CASE retry < DWL_RETRIES /\ RequestDownload
  <2>1. ws' \in Workspace /\ WorkspaceInv'
    BY <1>0, <1>3 DEF RequestDownload, Workspace, FwStates, WorkspaceInv
  <2>2. /\ offset' \in Nat /\ part' \in 1..NParts /\ remaining' \in 0..BinLen
        /\ sha' \in Nat \cup {BAD} /\ cache' \in Workspace /\ updateGap' \in Nat
    <3>1. CASE NeedsResumeData
      <4>1. /\ updateGap' = ResumeGap /\ offset' = ws.offset - ResumeGap
            /\ part' = BinPart /\ remaining' = ResumedRemaining /\ sha' = ws.sha
            /\ cache' = [ws EXCEPT !.offset = offset', !.remaining = remaining']
            /\ ResumeDataValid
        BY <1>3, <3>1 DEF RequestDownload
      <4>2. offset' \in Nat /\ remaining' \in 0..BinLen /\ updateGap' \in Nat
        BY <4>1, ResumeFacts
      <4>3. cache' \in Workspace /\ sha' \in Nat \cup {BAD}
        BY <1>0, <4>1, <4>2 DEF Workspace
      <4>4. part' \in 1..NParts
        BY <4>1, LayoutFacts
      <4> QED
        BY <4>2, <4>3, <4>4
    <3>2. CASE ~NeedsResumeData
      BY <1>3, <3>2 DEF RequestDownload, TypeOK
    <3> QED
      BY <3>1, <3>2
  <2>3. PICK r \in DownloaderResults : StartOutcome(r, offset')
    BY <1>3 DEF RequestDownload, DownloaderResults
  <2>4. /\ state' \in States \ {"INIT", "STORE"} /\ result' \in DwlResults
        /\ updateResult' \in FwResults /\ xfer' \in BOOLEAN /\ srvPos' \in Nat
        /\ pc' \in {pc, "wait"}
        /\ state' = "DOWNLOAD" => result' = "RETRY_FAILED" /\ pc' = "wait" /\ xfer' = xfer
    BY <2>2, <2>3, StartOutcomeFacts
  <2>5. TypeOK'
    BY <1>0, <2>1, <2>2, <2>4 DEF TypeOK
  <2>6. BufferInv' /\ StateInv'
    <3>1. NeedsResumeData => tmpLen = 0
      BY <1>0 DEF NeedsResumeData, StateInv
    <3>2. NeedsResumeData \/ part' = part
      BY <1>3 DEF RequestDownload
    <3>3. BufferInv'
      BY <1>0, <3>1, <3>2, LayoutFacts DEF BufferInv, TypeOK
    <3>4. StateInv'
      BY <1>0, <2>4 DEF StateInv
    <3> QED
      BY <3>3, <3>4
  <2>7. PositionInv'
    <3>1. CASE NeedsResumeData
      <4>1. /\ offset' = ws.offset - ResumeGap /\ remaining' = ResumedRemaining
            /\ part' = BinPart /\ ResumeDataValid
        BY <1>3, <3>1 DEF RequestDownload
      <4>2. offset' = Start[BinPart + 1] - remaining'
        BY <4>1, ResumeFacts
      <4> QED
        BY <2>2, <2>4, <4>1, <4>2, LayoutFacts DEF PositionInv, PositionAgrees
    <3>2. CASE ~NeedsResumeData
      <4>1. UNCHANGED <<offset, part, remaining>>
        BY <1>3, <3>2 DEF RequestDownload
      <4>2. CASE retry = 0
        BY <1>0, <2>4, <4>1, <4>2, LayoutFacts DEF PositionInv, PositionAgrees, StateInv
      <4>3. CASE retry > 0
        BY <1>0, <2>4, <4>1, <4>3 DEF PositionInv, PositionAgrees
      <4> QED
        BY <4>2, <4>3, BoundsAssumption DEF TypeOK, BoundsAssumption
    <3> QED
      BY <3>1, <3>2
  <2> QED
    BY <2>1, <2>5, <2>6, <2>7
<1> QED
  BY <1>1, <1>2, <1>3 DEF PkgDwlDownload

-----------------------------------------------------------------------------
(* PKG_DWL_PARSE and PKG_DWL_STORE *)

\* HashData keeps the digest and the replay in their types
LEMMA HashDataFacts ==
  ASSUME TypeOK, NEW len \in Nat, NEW aligned \in BOOLEAN, HashData(len, aligned)
  PROVE  updateGap' \in Nat /\ sha' \in Nat \cup {BAD}
<1> DEFINE skip == IF Section(part) # "BINA" THEN 0
                   ELSE IF len <= updateGap THEN len ELSE updateGap
<1>1. skip \in Nat /\ updateGap - skip \in Nat
  BY DEF TypeOK
<1>2. updateGap' = updateGap - skip
  BY DEF HashData
<1>3. sha' \in {sha, offset + len, BAD}
  BY DEF HashData
<1> HIDE DEF skip
<1> QED
  BY <1>1, <1>2, <1>3 DEF TypeOK

\* Completing a subsection from the temporary buffer takes from the downloaded
\* data what it lacks; without it, what was processed
LEMMA CleanFacts ==
  ASSUME TypeOK, NEW processed \in Nat, NEW fromTmp \in Nat,
         tmpLen > 0 => fromTmp <= downloadedLen,
         tmpLen = 0 => processed <= downloadedLen,
         CleanAndUpdateDwlCounters(processed, fromTmp)
  PROVE  /\ offset' = offset + processed /\ offset' \in Nat
         /\ dwlPos' \in Nat /\ downloadedLen' \in Nat
         /\ tmpLen' = 0 /\ tmpOk' = TRUE /\ pc' \in {"loop", "wait"}
<1> DEFINE used == IF tmpLen > 0 THEN fromTmp ELSE processed
<1>1. used \in Nat /\ used <= downloadedLen
  BY DEF TypeOK
<1>2. dwlPos' = dwlPos + used /\ downloadedLen' = downloadedLen - used
  BY DEF CleanAndUpdateDwlCounters
<1> HIDE DEF used
<1>3. dwlPos' \in Nat /\ downloadedLen' \in Nat
  BY <1>1, <1>2 DEF TypeOK
<1> QED
  BY <1>3 DEF CleanAndUpdateDwlCounters, TypeOK

LEMMA BufferDataInd ==
  ASSUME IndInv, pc = "loop", state = "PARSE", BufferData \/ SubsectionTooLong,
         UNCHANGED <<retry, updateOffset, ws, cache, netVars, storeVars, sessions>>
  PROVE  IndInv'
<1> USE DEF IndInv, netVars, storeVars, parserVars
<1>1. UpdateResult("CONNECTION") \in FwResults
  BY UpdateResultType
<1>2. CASE BufferData
  <2>1. part # BinPart /\ tmpLen' \in 0..TmpMax /\ processedLen' \in Nat
        /\ (tmpLen' = tmpLen \/ tmpLen' < Size(part))
    BY <1>2, BoundsAssumption DEF BufferData, TypeOK, BoundsAssumption
  <2>2. /\ state' \in {"PARSE", "ERROR"} /\ pc' \in {"loop", "wait"}
        /\ result' \in DwlResults /\ updateResult' \in FwResults /\ tmpOk' \in BOOLEAN
        /\ UNCHANGED <<offset, downloadedLen, dwlPos, updateGap, certified, parserVars>>
    BY <1>1, <1>2 DEF BufferData, TypeOK, DwlResults
  <2>3. TypeOK'
    BY <2>1, <2>2 DEF TypeOK, States
  <2>4. BufferInv' /\ StateInv' /\ PositionInv' /\ WorkspaceInv'
    BY <2>1, <2>2 DEF BufferInv, StateInv, PositionInv, PositionAgrees, WorkspaceInv, Size
  <2> QED
    BY <2>3, <2>4
<1>3. CASE SubsectionTooLong
  <2>1. TypeOK'
    BY <1>1, <1>3 DEF SubsectionTooLong, TypeOK, States, DwlResults
  <2>2. BufferInv' /\ StateInv' /\ PositionInv' /\ WorkspaceInv'
    BY <1>3 DEF SubsectionTooLong, BufferInv, StateInv, PositionInv, WorkspaceInv, Size
  <2> QED
    BY <2>1, <2>2
<1> QED
  BY <1>2, <1>3

LEMMA ParseSubsectionInd ==
  ASSUME IndInv, pc = "loop", state = "PARSE", ParseSubsection,
         UNCHANGED <<retry, updateOffset, ws, cache, netVars, storeVars, sessions>>
  PROVE  IndInv'
<1> USE DEF IndInv, netVars, storeVars
<1> DEFINE rest    == Size(part) - tmpLen
           inPlace == tmpOk /\ (rest = 0 \/ dwlPos = offset + tmpLen)
<1>1. part # BinPart /\ tmpLen + downloadedLen >= Size(part)
  BY DEF ParseSubsection
<1>2. PICK verdict \in Verdicts(inPlace) :
       /\ processedLen' = IF verdict = "notDwl" THEN 0 ELSE Size(part)
       /\ CleanAndUpdateDwlCounters(processedLen', rest)
       /\ \/ /\ verdict = "accepted" /\ part # NParts
             /\ HashData(Size(part), inPlace)
             /\ part' = part + 1
             /\ remaining' = IF part + 1 = BinPart THEN BinLen ELSE remaining
             /\ result' = "OK"
             /\ UNCHANGED <<state, updateResult, certified>>
          \/ /\ verdict = "accepted" /\ part = NParts
             /\ certified' = TRUE /\ result' = "OK" /\ state' = "END"
             /\ ResetParser
             /\ UNCHANGED <<updateResult, updateGap>>
          \/ /\ verdict \in {"notDwl", "badSection"}
             /\ updateResult' = UpdateResult("PKG_TYPE")
             /\ result' = "FAULT" /\ state' = "ERROR"
             /\ ResetParser
             /\ UNCHANGED <<certified, updateGap>>
          \/ /\ verdict = "forged"
             /\ certified' = FALSE /\ updateResult' = UpdateResult("VERIFY")
             /\ result' = "FAULT" /\ state' = "ERROR"
             /\ ResetParser
             /\ UNCHANGED updateGap
  BY DEF ParseSubsection
<1>3. Size(part) \in Nat /\ Start[part + 1] = Start[part] + Size(part) /\ Start[part] \in Nat
  BY LayoutFacts DEF TypeOK
<1>4. tmpLen > 0 => rest \in Nat /\ rest <= downloadedLen
  BY <1>1, <1>3 DEF TypeOK, BufferInv
<1>5. processedLen' \in Nat /\ (tmpLen = 0 => processedLen' <= downloadedLen)
  BY <1>1, <1>2, <1>3 DEF TypeOK
<1>6. rest \in Nat
  BY <1>3, <1>4 DEF TypeOK
<1> HIDE DEF rest
<1>7. /\ offset' = offset + processedLen' /\ offset' \in Nat
      /\ dwlPos' \in Nat /\ downloadedLen' \in Nat
      /\ tmpLen' = 0 /\ tmpOk' = TRUE /\ pc' \in {"loop", "wait"}
  BY <1>2, <1>4, <1>5, <1>6, CleanFacts
<1>8. UpdateResult("PKG_TYPE") \in FwResults /\ UpdateResult("VERIFY") \in FwResults
  BY UpdateResultType
<1>9. inPlace \in BOOLEAN
  BY DEF TypeOK
<1> HIDE DEF inPlace
<1>10. CASE verdict = "accepted" /\ part # NParts
  <2>1. /\ processedLen' = Size(part) /\ HashData(Size(part), inPlace) /\ part' = part + 1
        /\ remaining' = IF part + 1 = BinPart THEN BinLen ELSE remaining
        /\ result' = "OK" /\ UNCHANGED <<state, updateResult, certified>>
    BY <1>2, <1>10
  <2>2. updateGap' \in Nat /\ sha' \in Nat \cup {BAD}
    BY <1>3, <1>9, <2>1, HashDataFacts
  <2>3. part' \in 1..NParts /\ remaining' \in 0..BinLen
    BY <1>10, <2>1, LayoutFacts DEF TypeOK
  <2>4. TypeOK'
    <3>1. tmpLen' \in 0..TmpMax /\ result' \in DwlResults
      BY <1>7, <2>1, BoundsAssumption DEF BoundsAssumption, DwlResults
    <3> QED
      BY <1>5, <1>7, <2>1, <2>2, <2>3, <3>1 DEF TypeOK
  <2>5. BufferInv' /\ StateInv' /\ WorkspaceInv'
    BY <1>7, <2>1 DEF BufferInv, StateInv, WorkspaceInv
  <2>6. PositionInv'
    <3>1. offset' = Start[part + 1]
      BY <1>1, <1>3, <1>7, <2>1 DEF PositionInv, PositionAgrees
    <3>2. CASE part + 1 = BinPart
      BY <2>1, <3>1, <3>2, LayoutFacts DEF PositionInv, PositionAgrees
    <3>3. CASE part + 1 # BinPart
      BY <2>1, <3>1, <3>3 DEF PositionInv, PositionAgrees
    <3> QED
      BY <3>2, <3>3
  <2> QED
    BY <2>4, <2>5, <2>6
<1>11. CASE ~(verdict = "accepted" /\ part # NParts)
  <2>1. /\ state' \in {"END", "ERROR"} /\ result' \in {"OK", "FAULT"} /\ ResetParser
        /\ UNCHANGED updateGap /\ certified' \in BOOLEAN /\ updateResult' \in FwResults
    BY <1>2, <1>8, <1>11 DEF TypeOK
  <2>2. TypeOK'
    <3>1. tmpLen' \in 0..TmpMax /\ result' \in DwlResults /\ state' \in States
      BY <1>7, <2>1, BoundsAssumption DEF BoundsAssumption, DwlResults, States
    <3>2. part' \in 1..NParts /\ remaining' \in 0..BinLen /\ sha' \in Nat \cup {BAD}
      BY <2>1, LayoutFacts DEF ResetParser
    <3> QED
      BY <1>5, <1>7, <2>1, <3>1, <3>2 DEF TypeOK
  <2>3. BufferInv' /\ StateInv' /\ PositionInv' /\ WorkspaceInv'
    BY <1>7, <2>1 DEF BufferInv, StateInv, PositionInv, WorkspaceInv
  <2> QED
    BY <2>2, <2>3
<1> QED
  BY <1>10, <1>11

LEMMA ParseDwlBinaryInd ==
  ASSUME IndInv, pc = "loop", state = "PARSE", ParseDwlBinary,
         UNCHANGED <<retry, updateOffset, ws, cache, netVars, storeVars, sessions>>
  PROVE  IndInv'
<1> USE DEF IndInv, netVars, storeVars
<1>1. BinaryLen \in Nat /\ BinaryLen <= remaining /\ BinaryLen <= downloadedLen
  BY LayoutFacts DEF BinaryLen, TypeOK
<1>2. /\ part = BinPart /\ processedLen' = BinaryLen /\ remaining' = remaining - BinaryLen
      /\ HashData(BinaryLen, dwlPos = offset) /\ result' = "OK" /\ state' = "STORE"
      /\ UNCHANGED <<pc, updateResult, offset, tmpLen, tmpOk, downloadedLen, dwlPos, certified,
                     part>>
  BY DEF ParseDwlBinary
<1>3. updateGap' \in Nat /\ sha' \in Nat \cup {BAD}
  BY <1>1, <1>2, HashDataFacts
<1>4. remaining' \in 0..BinLen
  BY <1>1, <1>2, LayoutFacts DEF TypeOK
<1>5. TypeOK'
  BY <1>1, <1>2, <1>3, <1>4 DEF TypeOK, States, DwlResults
<1>6. BufferInv' /\ StateInv' /\ WorkspaceInv'
  BY <1>1, <1>2 DEF BufferInv, StateInv, WorkspaceInv
<1>7. PositionInv'
  <2>1. offset \in Nat /\ remaining \in Nat /\ Start[BinPart + 1] \in Nat
    BY LayoutFacts DEF TypeOK
  <2>2. offset = Start[BinPart + 1] - remaining
    BY <1>2, <2>1 DEF PositionInv, PositionAgrees
  <2>3. offset + BinaryLen = Start[BinPart + 1] - (remaining - BinaryLen)
    BY <1>1, <2>1, <2>2
  <2> QED
    BY <1>2, <2>3 DEF PositionInv, PositionAgrees
<1> QED
  BY <1>5, <1>6, <1>7

LEMMA PkgDwlParseInd == IndInv /\ PkgDwlParse => IndInv'
<1> SUFFICES ASSUME IndInv, PkgDwlParse PROVE IndInv'
  OBVIOUS
<1> QED
  BY BufferDataInd, ParseSubsectionInd, ParseDwlBinaryInd DEF PkgDwlParse

\* The workspace that PkgDwlStore writes tells the position after the chunk
LEMMA StoredWorkspaceFacts ==
  ASSUME IndInv, state = "STORE", UpdateAndStorePkgDwlWorkspace
  PROVE  ws' \in Workspace /\ cache' \in Workspace /\ WorkspaceInv'
<1> USE DEF IndInv
<1> DEFINE base == IF cache.url THEN cache ELSE ws
<1>1. base \in Workspace
  BY DEF TypeOK
<1>2. offset + processedLen \in Nat /\ BinLen \in {0, BinLen} /\ remaining \in 0..BinLen
      /\ sha \in Nat \cup {BAD}
  BY DEF TypeOK
<1>3. ws' = [base EXCEPT !.offset = offset + processedLen, !.binarySize = BinLen,
                        !.remaining = remaining, !.sha = sha]
      /\ cache' = ws'
  BY DEF UpdateAndStorePkgDwlWorkspace
<1> HIDE DEF base
<1>4. ws' \in Workspace
  BY <1>1, <1>2, <1>3 DEF Workspace
<1>5. ws'.offset = offset + processedLen /\ ws'.binarySize = BinLen /\ ws'.remaining = remaining
  BY <1>1, <1>3 DEF Workspace
<1>6. offset + processedLen = Start[BinPart + 1] - remaining
  BY DEF PositionInv, PositionAgrees, StateInv
<1>7. WorkspaceInv'
  BY <1>2, <1>5, <1>6, LayoutFacts DEF WorkspaceInv
<1> QED
  BY <1>3, <1>4, <1>7

LEMMA PkgDwlStoreInd == IndInv /\ PkgDwlStore => IndInv'
<1> SUFFICES ASSUME IndInv, PkgDwlStore PROVE IndInv'
  OBVIOUS
<1> USE DEF IndInv, netVars, storeVars, PkgDwlStore
<1>0. /\ pc = "loop" /\ state = "STORE" /\ part = BinPart /\ tmpLen = 0
      /\ processedLen <= downloadedLen /\ processedLen \in Nat /\ downloadedLen \in Nat
  BY BoundsAssumption DEF StateInv, BufferInv, TypeOK, BoundsAssumption
<1>1. CASE /\ WritePackageData
           /\ UpdateAndStorePkgDwlWorkspace
           /\ part' = IF remaining = 0 THEN BinPart + 1 ELSE part
           /\ CleanAndUpdateDwlCounters(processedLen, 0)
           /\ state' = "PARSE"
           /\ UNCHANGED <<result, updateResult>>
  <2>1. ws' \in Workspace /\ cache' \in Workspace /\ WorkspaceInv'
    BY <1>0, <1>1, StoredWorkspaceFacts
  <2>2. /\ offset' = offset + processedLen /\ offset' \in Nat
        /\ dwlPos' \in Nat /\ downloadedLen' \in Nat
        /\ tmpLen' = 0 /\ tmpOk' = TRUE /\ pc' \in {"loop", "wait"}
    <3>1. CleanAndUpdateDwlCounters(processedLen, 0)
      BY <1>1
    <3>2. 0 \in Nat /\ TypeOK /\ ~(tmpLen > 0)
      BY <1>0
    <3> HIDE DEF PkgDwlStore, IndInv
    <3> QED
      BY ONLY <1>0, <3>1, <3>2, CleanFacts
  <2>3. written' \in Nat /\ storedOk' \in BOOLEAN /\ flushed' \in Nat
    BY <1>0, <1>1 DEF WritePackageData, TypeOK
  <2>4. TypeOK'
    <3>1. tmpLen' \in 0..TmpMax /\ part' \in 1..NParts /\ state' \in States
      BY <1>0, <1>1, <2>2, BoundsAssumption, LayoutFacts DEF BoundsAssumption, States
    <3> QED
      BY <2>1, <2>2, <2>3, <1>1, <3>1 DEF TypeOK
  <2>5. BufferInv' /\ StateInv'
    BY <1>1, <2>2 DEF BufferInv, StateInv
  <2>6. PositionInv'
    <3>1. offset' = Start[BinPart + 1] - remaining
      BY <1>0, <2>2 DEF PositionInv, PositionAgrees
    <3>2. CASE remaining = 0
      BY <1>1, <3>1, <3>2, LayoutFacts DEF PositionInv, PositionAgrees
    <3>3. CASE remaining # 0
      BY <1>0, <1>1, <3>1, <3>3 DEF PositionInv, PositionAgrees
    <3> QED
      BY <3>2, <3>3
  <2> QED
    BY <2>1, <2>4, <2>5, <2>6
<1>2. CASE /\ state' = "ERROR" /\ result' = "FAULT" /\ updateResult' = UpdateResult("PKG_TYPE")
           /\ UNCHANGED <<pc, offset, tmpLen, tmpOk, downloadedLen, dwlPos, part, ws, cache,
                          storeVars>>
  <2>1. updateResult' \in FwResults
    BY <1>2, UpdateResultType
  <2>2. TypeOK'
    BY <1>2, <2>1 DEF TypeOK, States, DwlResults
  <2>3. BufferInv' /\ StateInv' /\ PositionInv' /\ WorkspaceInv'
    BY <1>0, <1>2 DEF BufferInv, StateInv, PositionInv, WorkspaceInv
  <2> QED
    BY <2>2, <2>3
<1> QED
  BY <1>1, <1>2

\* The remaining handlers only move the state machine, or lose it
LEMMA OtherHandlersInd ==
  ASSUME IndInv
  PROVE  /\ PkgDwlError => IndInv'
         /\ PkgDwlSuspend => IndInv'
         /\ TornStore => IndInv'
<1> USE DEF IndInv, objVars, parserVars, netVars, storeVars
<1>1. ASSUME PkgDwlError PROVE IndInv'
  BY <1>1
  DEF PkgDwlError, TypeOK, States, BufferInv, StateInv, PositionInv, WorkspaceInv
<1>2. ASSUME PkgDwlSuspend PROVE IndInv'
  BY <1>2
  DEF PkgDwlSuspend, TypeOK, BufferInv, StateInv, PositionInv, WorkspaceInv
<1>3. ASSUME TornStore PROVE IndInv'
  <2>1. written' \in Nat /\ storedOk' \in BOOLEAN /\ flushed' \in Nat
    BY <1>3 DEF TornStore, WritePackageData, TypeOK
  <2>2. ws' \in Workspace /\ WorkspaceInv'
    BY <1>3 DEF TornStore, TypeOK, WorkspaceInv
  <2> QED
    BY <1>3, <2>1, <2>2, RestartInd DEF TornStore
<1> QED
  BY <1>1, <1>2, <1>3

-----------------------------------------------------------------------------
(* The theorems *)

LEMMA NextInd == IndInv /\ [Next]_vars => IndInv'
<1> SUFFICES ASSUME IndInv, [Next]_vars PROVE IndInv'
  OBVIOUS
<1>1. CASE Handler
  BY <1>1, PkgDwlInitInd, PkgDwlDownloadInd, PkgDwlParseInd, PkgDwlStoreInd, OtherHandlersInd,
     WorkspaceInd DEF Handler
<1>2. CASE SetUpdatePackageUri \/ PackageDownloadHandler \/ TornEnd
  BY <1>2, WorkspaceInd
<1>3. CASE \E fresh \in BOOLEAN : StartPackageDownloader(fresh)
  BY <1>3, StartInd
<1>4. CASE TransferBreaks \/ RequestDownloadRetry \/ HandlePackageDownloader \/ EndSession
           \/ PowerLoss \/ \E n \in Chunks : ReceiveData(n)
  BY <1>4, EnvironmentInd
<1>5. CASE TornStore
  BY <1>5, OtherHandlersInd
<1>6. CASE UNCHANGED vars
  BY <1>6
  DEF vars, objVars, parserVars, netVars, storeVars, IndInv, TypeOK, BufferInv, StateInv,
      PositionInv, PositionAgrees, WorkspaceInv
<1> QED
  BY <1>1, <1>2, <1>3, <1>4, <1>5, <1>6 DEF Next

\* IndInv is an invariant, whatever the faults
THEOREM Invariance == Spec => []IndInv
<1>1. Init => IndInv
  BY InitInd
<1>2. IndInv /\ [Next]_vars => IndInv'
  BY NextInd
<1> QED
  BY <1>1, <1>2, PTL DEF Spec

\* Type correctness: the counters of the downloader never leave their range, the
\* temporary buffer is never overrun and no length becomes negative, for every
\* layout of the package and every way the transport cuts it
THEOREM TypeCorrect == Spec => []TypeOK
<1>1. IndInv => TypeOK
  BY DEF IndInv
<1> QED
  BY <1>1, Invariance, PTL

\* While data are received the position, the expected subsection and the remaining
\* binary data agree: retries, resumed sessions and power losses, even within a
\* handler, never make the downloader ask for the wrong range
THEOREM PositionCorrect == Spec => []PositionMatchesRemaining
<1>1. IndInv => PositionMatchesRemaining
  BY DEF IndInv, PositionInv, PositionMatchesRemaining
<1> QED
  BY <1>1, Invariance, PTL

-----------------------------------------------------------------------------
(* A download that the server is told of has a package.                    *)
(*                                                                         *)
(* The size of the package is asked, and the URL erased when that fails,   *)
(* in PkgDwlInit and in the handler of the download timer.  Neither asks   *)
(* for it during a download if it is known from the first answer on: the   *)
(* server tells a length.  The copy of the workspace in RAM, which is      *)
(* written back as a whole, has to know the size as well.                  *)

\* The workspace holds a package whose size is known
HasPackage == ws.url /\ ws.sizeKnown

OnGoingInv ==
  /\ ws.fwState = "DOWNLOADING" => HasPackage
  /\ pc # "off" /\ state = "INIT" => ws.url
  /\ pc # "off" /\ state \in {"DOWNLOAD", "PARSE", "STORE"} => HasPackage
  /\ cache.url => cache.sizeKnown

\* The workspace after its resume information was erased
LEMMA ErasedFacts ==
  ASSUME NEW w \in Workspace, NEW x \in FwResults
  PROVE  LET e == DeleteResumeInfo([w EXCEPT !.fwResult = x])
         IN  ~e.url /\ e.fwState = w.fwState
<1>1. [w EXCEPT !.fwResult = x] \in Workspace /\ [w EXCEPT !.fwResult = x].fwState = w.fwState
  BY DEF Workspace
<1> QED
  BY <1>1 DEF DeleteResumeInfo, Workspace

\* A size request that fails erases the resume information
LEMMA SizeErrorErases ==
  ASSUME IndInv, NEW r \in SizeResults(ws), NEW a \in FwResults, NEW b \in FwResults,
         NEW o \in SizeErrorOutcomes(r, a, b)
  PROVE  LET e == DeleteResumeInfo([ws EXCEPT !.fwResult = o.fw])
         IN  ~e.url /\ e.fwState = ws.fwState
<1>1. r \in DownloaderResults
  BY DEF SizeResults, DownloaderResults
<1>2. o.fw \in FwResults
  BY <1>1, SizeErrorOutcomesType
<1> QED
  BY <1>2, ErasedFacts DEF IndInv, TypeOK

\* Outside the handlers the package is only given up when no download began
LEMMA OutsideOnGoing ==
  ASSUME IndInv, OnGoingInv, "noLength" \notin Faults
  PROVE  /\ SetUpdatePackageUri => OnGoingInv'
         /\ PackageDownloadHandler => OnGoingInv'
         /\ \A fresh \in BOOLEAN : StartPackageDownloader(fresh) => OnGoingInv'
         /\ RequestDownloadRetry => OnGoingInv'
         /\ HandlePackageDownloader \/ EndSession => OnGoingInv'
         /\ PowerLoss \/ TornStore => OnGoingInv'
<1>0. ws \in Workspace /\ cache \in Workspace /\ updateResult \in FwResults
  BY DEF IndInv, TypeOK
<1>1. ASSUME SetUpdatePackageUri PROVE OnGoingInv'
  <2>1. DeleteResumeInfo(ws) \in Workspace /\ ~DeleteResumeInfo(ws).url
    BY <1>0, DeleteResumeInfoFacts
  <2>2. ws'.fwState = "IDLE" /\ ~cache'.url /\ pc' = "off"
    BY <1>1, <2>1 DEF SetUpdatePackageUri, Workspace
  <2> QED
    BY <2>2 DEF OnGoingInv
<1>2. ASSUME PackageDownloadHandler PROVE OnGoingInv'
  <2>1. pc' = "off" /\ (~ws.sizeKnown \/ ws.fwState = "IDLE")
    BY <1>2 DEF PackageDownloadHandler
  <2>2. CASE ws' = [ws EXCEPT !.sizeKnown = TRUE] /\ cache' = cache
    <3>1. ws'.url = ws.url /\ ws'.sizeKnown /\ ws'.fwState = ws.fwState
      BY <1>0, <2>2 DEF Workspace
    <3> QED
      BY <2>1, <2>2, <3>1 DEF OnGoingInv, HasPackage
  <2>3. CASE \E r \in SizeResults(ws) :
               \E o \in SizeErrorOutcomes(r, updateResult, ws.fwResult) :
                 /\ ws' = DeleteResumeInfo([ws EXCEPT !.fwResult = o.fw])
                 /\ cache' = DeleteResumeInfo([ws EXCEPT !.fwResult = o.fw])
    <3>1. ws.fwResult \in FwResults
      BY <1>0 DEF Workspace
    <3>2. ~ws'.url /\ ws'.fwState = ws.fwState /\ ~cache'.url
      BY <1>0, <2>3, <3>1, SizeErrorErases
    <3> QED
      BY <2>1, <3>2 DEF OnGoingInv, HasPackage
  <2> QED
    BY <1>2, <2>2, <2>3 DEF PackageDownloadHandler, SizeKnown
<1>3. ASSUME NEW fresh \in BOOLEAN, StartPackageDownloader(fresh) PROVE OnGoingInv'
  BY <1>3 DEF StartPackageDownloader, ResetPackageDownloader, OnGoingInv, HasPackage
<1>4. ASSUME RequestDownloadRetry PROVE OnGoingInv'
  BY <1>4 DEF RequestDownloadRetry, OnGoingInv, HasPackage
<1>5. ASSUME HandlePackageDownloader \/ EndSession PROVE OnGoingInv'
  BY <1>5 DEF HandlePackageDownloader, EndSession, objVars, OnGoingInv, HasPackage
<1>6. ASSUME PowerLoss \/ TornStore PROVE OnGoingInv'
  <2>1. ws' = ws /\ pc' = "off" /\ ~cache'.url
    BY <1>6 DEF PowerLoss, TornStore, Restart, DefaultWorkspace
  <2> QED
    BY <2>1 DEF OnGoingInv, HasPackage
<1> QED
  BY <1>1, <1>2, <1>3, <1>4, <1>5, <1>6

\* PkgDwlInit asks for the size only when it is not known: no download began
LEMMA PkgDwlInitOnGoing ==
  ASSUME IndInv, OnGoingInv, "noLength" \notin Faults, PkgDwlInit
  PROVE  OnGoingInv'
<1>0. ws \in Workspace /\ pc = "loop" /\ state = "INIT" /\ ws.url
  BY DEF PkgDwlInit, IndInv, TypeOK, OnGoingInv
<1>1. CASE LaunchDownload(TRUE)
  <2>1. ws'.url = ws.url /\ ws'.sizeKnown /\ ws'.fwState = ws.fwState /\ cache' = cache
    BY <1>0, <1>1 DEF LaunchDownload, Workspace
  <2>2. state' = "DOWNLOAD"
    BY <1>1 DEF LaunchDownload
  <2> QED
    BY <1>0, <2>1, <2>2 DEF OnGoingInv, HasPackage
<1>2. CASE ~ws.sizeKnown /\ \E r \in SizeResults(ws) : SizeFailed(r)
  <2>1. PICK r \in SizeResults(ws) : SizeFailed(r)
    BY <1>2
  <2>2. PICK o \in SizeErrorOutcomes(r, "NORMAL", "NORMAL") :
          ws' = DeleteResumeInfo([ws EXCEPT !.fwResult = o.fw])
    BY <2>1 DEF SizeFailed
  <2>3. cache' = ws' /\ state' \in {"SUSPEND", "ERROR"}
    BY <2>1 DEF SizeFailed
  <2>4. "NORMAL" \in FwResults
    BY DEF FwResults
  <2>5. ~ws'.url /\ ws'.fwState = ws.fwState
    BY <2>2, <2>4, SizeErrorErases
  <2> QED
    BY <1>2, <2>3, <2>5 DEF OnGoingInv, HasPackage
<1> QED
  BY <1>1, <1>2 DEF PkgDwlInit, SizeKnown

\* The request leaves the URL and the size as they are, in the workspace and in its
\* copy
LEMMA PkgDwlDownloadOnGoing ==
  ASSUME IndInv, OnGoingInv, PkgDwlDownload
  PROVE  OnGoingInv'
<1>0. ws \in Workspace /\ pc = "loop" /\ state = "DOWNLOAD" /\ HasPackage
  BY DEF PkgDwlDownload, IndInv, TypeOK, OnGoingInv
<1>1. ws' \in {ws, [ws EXCEPT !.fwState = "DOWNLOADING"]}
  BY DEF PkgDwlDownload, RefuseResume, RequestDownload
<1>2. ws'.url /\ ws'.sizeKnown
  BY <1>0, <1>1 DEF HasPackage, Workspace
<1>3. cache' = cache \/ cache'.sizeKnown
  <2>1. \A n, m : [ws EXCEPT !.offset = n, !.remaining = m].sizeKnown
    BY <1>0 DEF HasPackage, Workspace
  <2>2. \/ cache' = cache \/ cache' = ws
        \/ cache' = [ws EXCEPT !.offset = offset', !.remaining = remaining']
    BY DEF PkgDwlDownload, RefuseResume, RequestDownload
  <2> QED
    BY <1>0, <2>1, <2>2 DEF HasPackage
<1>4. state' # "INIT"
  BY <1>0, GiveUpFacts, StartOutcomeFacts
  DEF PkgDwlDownload, GiveUp, RefuseResume, RequestDownload, StartOutcome
<1> QED
  BY <1>2, <1>3, <1>4 DEF OnGoingInv, HasPackage

\* The other handlers: a chunk that is stored keeps the package, and the end of the
\* download does not leave DOWNLOADING
LEMMA HandlersOnGoing ==
  ASSUME IndInv, OnGoingInv
  PROVE  /\ PkgDwlParse => OnGoingInv'
         /\ PkgDwlStore => OnGoingInv'
         /\ PkgDwlError \/ PkgDwlSuspend => OnGoingInv'
         /\ PkgDwlEnd => OnGoingInv'
         /\ TornEnd => OnGoingInv'
<1>0. ws \in Workspace /\ cache \in Workspace /\ updateResult \in FwResults
  BY DEF IndInv, TypeOK
<1>1. ASSUME PkgDwlParse PROVE OnGoingInv'
  <2>1. state' \in {"PARSE", "STORE", "END", "ERROR"}
    BY <1>1 DEF PkgDwlParse, BufferData, SubsectionTooLong, ParseSubsection, ParseDwlBinary
  <2>2. pc = "loop" /\ state = "PARSE" /\ UNCHANGED <<ws, cache>>
    BY <1>1 DEF PkgDwlParse
  <2> QED
    BY <2>1, <2>2 DEF OnGoingInv, HasPackage
<1>2. ASSUME PkgDwlStore PROVE OnGoingInv'
  <2>1. pc = "loop" /\ state = "STORE" /\ state' \in {"PARSE", "ERROR"}
    BY <1>2 DEF PkgDwlStore
  <2>2. HasPackage
    BY <2>1 DEF OnGoingInv
  <2>3. CASE UpdateAndStorePkgDwlWorkspace
    <3>1. PICK w \in {ws, cache} :
            /\ w.url /\ w.sizeKnown
            /\ ws' = [w EXCEPT !.offset = offset + processedLen, !.binarySize = BinLen,
                               !.remaining = remaining, !.sha = sha]
      BY <2>2, <2>3 DEF UpdateAndStorePkgDwlWorkspace, OnGoingInv, HasPackage
    <3>2. ws'.url /\ ws'.sizeKnown
      BY <1>0, <3>1 DEF Workspace
    <3> QED
      BY <2>1, <2>3, <3>2 DEF UpdateAndStorePkgDwlWorkspace, OnGoingInv, HasPackage
  <2>4. CASE UNCHANGED <<ws, cache>>
    BY <2>1, <2>2, <2>4 DEF OnGoingInv, HasPackage
  <2> QED
    BY <1>2, <2>3, <2>4 DEF PkgDwlStore
<1>3. ASSUME PkgDwlError \/ PkgDwlSuspend PROVE OnGoingInv'
  BY <1>3 DEF PkgDwlError, PkgDwlSuspend, objVars, OnGoingInv, HasPackage
<1>4. Outcome(ws) \in Workspace /\ Outcome(ws).fwState # "DOWNLOADING"
  BY <1>0 DEF Outcome, Workspace, FwStates
<1>5. ASSUME PkgDwlEnd PROVE OnGoingInv'
  <2>1. ws'.fwState # "DOWNLOADING" /\ ~cache'.url
    BY <1>4, <1>5 DEF PkgDwlEnd, DeleteResumeInfo, Workspace
  <2>2. state' = "END"
    BY <1>5 DEF PkgDwlEnd, objVars
  <2> QED
    BY <2>1, <2>2 DEF OnGoingInv
<1>6. ASSUME TornEnd PROVE OnGoingInv'
  <2>1. ws'.fwState # "DOWNLOADING" /\ pc' = "off" /\ ~cache'.url
    BY <1>4, <1>6 DEF TornEnd, Restart, DefaultWorkspace
  <2> QED
    BY <2>1 DEF OnGoingInv
<1> QED
  BY <1>1, <1>2, <1>3, <1>5, <1>6

\* The server reads DOWNLOADING only as long as there is a package to download, if
\* it tells a length for each package: even when a power loss falls inside a handler,
\* a write of the platform fails or a request leaves no HTTP code
THEOREM OnGoingCorrect ==
  ASSUME "noLength" \notin Faults
  PROVE  Spec => []DownloadingMeansOnGoing
<1>1. Init => OnGoingInv
  BY DEF Init, DefaultWorkspace, OnGoingInv
<1>2. IndInv /\ OnGoingInv /\ [Next]_vars => OnGoingInv'
  <2> SUFFICES ASSUME IndInv, OnGoingInv, [Next]_vars PROVE OnGoingInv'
    OBVIOUS
  <2>1. CASE Handler
    BY <2>1, PkgDwlInitOnGoing, PkgDwlDownloadOnGoing, HandlersOnGoing DEF Handler
  <2>2. CASE SetUpdatePackageUri \/ PackageDownloadHandler \/ RequestDownloadRetry
             \/ HandlePackageDownloader \/ EndSession \/ PowerLoss \/ TornStore
             \/ \E fresh \in BOOLEAN : StartPackageDownloader(fresh)
    BY <2>2, OutsideOnGoing
  <2>3. CASE TornEnd
    BY <2>3, HandlersOnGoing
  <2>4. CASE TransferBreaks \/ (\E n \in Chunks : ReceiveData(n)) \/ UNCHANGED vars
    <3>1. pc' # "off" => pc # "off"
      BY <2>4 DEF TransferBreaks, ReceiveData, vars
    <3>2. UNCHANGED <<state, ws, cache>>
      BY <2>4 DEF TransferBreaks, ReceiveData, vars, objVars
    <3> QED
      BY <3>1, <3>2 DEF OnGoingInv, HasPackage
  <2> QED
    BY <2>1, <2>2, <2>3, <2>4 DEF Next
<1>3. OnGoingInv => DownloadingMeansOnGoing
  BY DEF OnGoingInv, HasPackage, DownloadingMeansOnGoing
<1> QED
  BY <1>1, <1>2, <1>3, Invariance, PTL DEF Spec

=============================================================================
